------------------------ MODULE XimHandlers_proofs -------------------------
(***************************************************************************)
(* What the handlers of XimHandlers do to the input modes: the lemmas from *)
(* which XimModes_proofs proves its theorems.  Each handler gets one       *)
(* predicate on the memory before and after it.                            *)
(*                                                                         *)
(* All of them keep Ready.  It says what the handlers rely on: the entries *)
(* that the default, the IM focus and the keystroke display name are       *)
(* loaded, so change_IM() never fails half way; each listed IMC is in      *)
(* English or in Chinese mode as a whole; and its history says that the    *)
(* inpinfo it has was prepared by the module it is bound to.               *)
(***************************************************************************)
EXTENDS XimServer_proofs

\* The module of the cinput entry n is loaded.
Live(a, n) == a.cinput[n] = "loaded"

Table(a) ==
    /\ Live(a, a.default_im) /\ Live(a, a.im_focus)
    /\ "SHOW_CINPUT" \notin a.mode => Live(a, a.default_im_sinmd)

\* The focus flags go with their modes.
FlagsFit(S) == /\ "XIMFOCUS" \in S => "CINPUT" \in S
               /\ "2BFOCUS" \in S => "2BYTES" \in S

Bound(a, x) ==
    /\ Live(a, x.inp_num)
    /\ IF "CINPUT" \in x.inp_state
       THEN x.imodp = x.inp_num /\ x.s_imodp = x.sinp_num /\ Live(a, x.sinp_num)
       ELSE x.imodp = NoMod

\* With an IMC each, xim_init() and xim_end() alternate.  The shared IMC stays
\* prepared in English mode, for the entry that it names.
History(a, x) ==
    IF SingleIMC
    THEN /\ x.inp_num = a.default_im
         /\ "IM_FOCUS" \in a.mode => x.inp_num = a.im_focus
         /\ IF a.first_call THEN x.inited = x.inp_num
                            ELSE "CINPUT" \notin x.inp_state
    ELSE x.inited = x.imodp /\ ~x.reinit

Fits(a, x) == FlagsFit(x.inp_state) /\ Bound(a, x) /\ History(a, x)

Ready(a) ==
    /\ Table(a)
    /\ \A k \in a.imc_list : Fits(a, a.IMC[k])
    /\ SingleIMC /\ a.imc_list = {} => a.im_focus = a.default_im /\ ~a.first_call

(***************************************************************************)
(* What a key pressed in the IC i may touch: the mode, the cinput table,   *)
(* the connection of i and the input modes of its IMC, nothing else.       *)
(***************************************************************************)
Leaving == {"ICCHECK_OFF", "RUN_EXIT", "RUN_EXITALL"}

\* The flags that switching the input method leaves as they are.
Steering == ModeFlag \ {"RUN_IM_FOCUS"}

SameFlags(S, T, F) == \A f \in F : f \in S <=> f \in T

SameOwner(x, y) == /\ y.connect_id = x.connect_id
                   /\ y.client_win = x.client_win
                   /\ y.focus_win = x.focus_win

SameSpot(x, y) == y.ic_rec = x.ic_rec /\ y.overspot_win = x.overspot_win

Keyed(a, b, i) ==
    /\ Steady(a, b)
    /\ \A j \in ICID : j # i => b.IC[j] = a.IC[j]
    /\ SameOwner(a.IC[i], b.IC[i])
    /\ SameFlags(a.IC[i].ic_state, b.IC[i].ic_state, {"NEWIC", "FOCUS"})
    /\ \A l \in ICID : l # a.IC[i].imc => b.IMC[l] = a.IMC[l]
    /\ SameSpot(a.IMC[a.IC[i].imc], b.IMC[a.IC[i].imc])
    /\ SameFlags(a.mode, b.mode, Leaving)

-----------------------------------------------------------------------------
\* Steps of one key compose.
LEMMA KeyedTrans ==
    ASSUME NEW a, NEW b, NEW c, NEW i \in ICID,
           Keyed(a, b, i), Keyed(b, c, i)
    PROVE  Keyed(a, c, i)
<1>1. Steady(a, c)
  BY SteadyTrans DEF Keyed
<1>2. b.IC[i].imc = a.IC[i].imc
  BY DEF Keyed, Steady
<1> QED BY <1>1, <1>2 DEF Keyed, SameOwner, SameSpot, SameFlags

LEMMA KeyedStutter ==
    ASSUME NEW a \in Memory, NEW i \in ICID
    PROVE  Keyed(a, a, i)
BY Stutter DEF Keyed, SameOwner, SameSpot, SameFlags

\* A step that writes the IMC of i, and the mode and the table with it.
LEMMA KeyedIMC ==
    ASSUME NEW a \in Memory, NEW b, Steady(a, b), NEW i \in ICID, NEW x,
           a.IC[i].imc \in ICID, b.IC = a.IC,
           b.IMC = [a.IMC EXCEPT ![a.IC[i].imc] = x],
           SameSpot(a.IMC[a.IC[i].imc], x),
           SameFlags(a.mode, b.mode, Leaving)
    PROVE  Keyed(a, b, i)
<1>1. a.IMC \in [ICID -> IMCRec]
  BY DEF Memory
<1> QED BY <1>1 DEF Keyed, SameOwner, SameSpot, SameFlags

-----------------------------------------------------------------------------
\* Loading a module keeps what is loaded.
Grown(a, b) == \A n \in Inp : Live(a, n) => Live(b, n)

LEMMA Loads ==
    ASSUME NEW a, NEW b, NEW S, b.cinput = load_cinput(a.cinput, S)
    PROVE  /\ Grown(a, b)
           /\ \A n \in Inp \cap S : can_bind(a, n) => Live(b, n)
BY DEF load_cinput, can_bind, Grown, Live

\* The flags of English and of Chinese mode.
Unset(S) == S \ {"CINPUT", "XIMFOCUS"}
Chinese(S) == S \cup {"CINPUT", "XIMFOCUS"}

\* change_IM() leaves the module x is bound to.
LeavesIM(x, n) == x.imodp # NoMod /\ x.imodp # (IF n \in Inp THEN n ELSE NoMod)

\* What leave_IM() makes of an IMC x.
Leaves(a, x, y, n) ==
    /\ y \in IMCRec /\ y.icid = x.icid /\ SameSpot(x, y)
    /\ y.inp_num = x.inp_num /\ y.sinp_num = x.sinp_num
    /\ y.imodp = x.imodp /\ y.s_imodp = x.s_imodp
    /\ y.reinit = x.reinit
    /\ y.inp_state = IF LeavesIM(x, n) THEN Unset(x.inp_state) ELSE x.inp_state
    /\ y.inited = IF /\ LeavesIM(x, n) /\ "CINPUT" \in x.inp_state
                     /\ reset_inpinfo(a, x, n)
                  THEN NoMod ELSE x.inited

LEMMA LeaveIs ==
    ASSUME NEW a, NEW x \in IMCRec, NEW n
    PROVE  Leaves(a, x, leave_IM(a, x, n), n)
<1>1. leave_IM(a, x, n) \in IMCRec /\ leave_IM(a, x, n).icid = x.icid
  BY LeaveType
<1> QED BY <1>1 DEF Leaves, leave_IM, call_xim_end, SameSpot, IMCRec, LeavesIM, Unset

\* What enter_English() does.
EntersEnglish(a, b, k) ==
    LET x == a.IMC[k]
        y == b.IMC[k]
    IN  /\ b.IC = a.IC /\ b.IMC = [a.IMC EXCEPT ![k] = y]
        /\ b.cinput = a.cinput /\ b.default_im = a.default_im
        /\ b.default_im_sinmd = a.default_im_sinmd
        /\ b.im_focus = a.im_focus /\ b.first_call = TRUE
        /\ SameFlags(a.mode, b.mode, Steering)
        /\ SameSpot(x, y) /\ y.imodp = NoMod
        /\ y.inp_num = x.inp_num /\ y.sinp_num = x.sinp_num
        /\ y.s_imodp = x.s_imodp /\ y.reinit = x.reinit
        /\ y.inp_state = IF x.imodp # NoMod THEN Unset(x.inp_state)
                                            ELSE x.inp_state
        /\ y.inited = IF /\ x.imodp # NoMod /\ "CINPUT" \in x.inp_state
                         /\ reset_inpinfo(a, x, English)
                      THEN NoMod ELSE x.inited

LEMMA EnglishIs ==
    ASSUME NEW a \in Memory, NEW k \in ICID
    PROVE  EntersEnglish(a, enter_English(a, k), k)
<1> DEFINE b == enter_English(a, k)
           x == a.IMC[k]
           y == b.IMC[k]
           z == leave_IM(a, x, English)
           mode == IF "IM_FOCUS" \in a.mode THEN a.mode \ {"RUN_IM_FOCUS"}
                                            ELSE a.mode
<1>1. x \in IMCRec /\ a.IMC \in [ICID -> IMCRec]
  BY DEF Memory
<1>2. English \notin Inp
  BY StateAssumption DEF English, Inp
<1>3. z \in IMCRec
  BY <1>1, LeaveType
<1>4. b = [a EXCEPT !.IMC[k] = [z EXCEPT !.imodp = NoMod], !.mode = mode,
                    !.first_call = TRUE]
  BY DEF enter_English
<1>5. /\ SameSpot(x, z) /\ z.inp_num = x.inp_num
      /\ z.sinp_num = x.sinp_num /\ z.s_imodp = x.s_imodp
      /\ z.reinit = x.reinit
      /\ z.inp_state = IF x.imodp # NoMod
                       THEN Unset(x.inp_state)
                       ELSE x.inp_state
      /\ z.inited = IF /\ x.imodp # NoMod /\ "CINPUT" \in x.inp_state
                       /\ reset_inpinfo(a, x, English)
                    THEN NoMod ELSE x.inited
  <2>1. LeavesIM(x, English) <=> x.imodp # NoMod
    BY <1>2 DEF LeavesIM
  <2>2. Leaves(a, x, z, English)
    BY <1>1, LeaveIs
  <2> QED BY <2>1, <2>2 DEF Leaves
<1> HIDE DEF z, mode
<1>6. /\ b.IMC = [a.IMC EXCEPT ![k] = y] /\ y = [z EXCEPT !.imodp = NoMod]
      /\ b.IC = a.IC /\ b.cinput = a.cinput /\ b.default_im = a.default_im
      /\ b.default_im_sinmd = a.default_im_sinmd
      /\ b.im_focus = a.im_focus /\ b.first_call = TRUE /\ b.mode = mode
  BY <1>1, <1>4 DEF Memory
<1>7. /\ y.imodp = NoMod /\ y.inp_num = z.inp_num /\ y.sinp_num = z.sinp_num
      /\ y.s_imodp = z.s_imodp /\ y.reinit = z.reinit
      /\ y.inp_state = z.inp_state /\ y.inited = z.inited /\ SameSpot(z, y)
  BY <1>3, <1>6 DEF IMCRec, SameSpot
<1>8. SameFlags(a.mode, mode, Steering)
  BY DEF mode, SameFlags, Steering
<1>9. SameSpot(x, y)
  BY <1>5, <1>7 DEF SameSpot
<1> QED BY <1>5, <1>6, <1>7, <1>8, <1>9 DEF EntersEnglish

\* What enter_IM() does to the memory a and the IMC k.
EntersIM(a, b, k, n) ==
    LET x == a.IMC[k]
        y == b.IMC[k]
        z == leave_IM(a, x, n)
    IN  /\ b.IC = a.IC /\ b.IMC = [a.IMC EXCEPT ![k] = y]
        /\ Grown(a, b)
        /\ can_bind(a, n) => Live(b, n)
        /\ b.default_im = IF SingleIMC THEN n ELSE a.default_im
        /\ b.default_im_sinmd = a.default_im_sinmd
        /\ b.im_focus = IF "IM_FOCUS" \in a.mode THEN n ELSE a.im_focus
        /\ b.first_call = TRUE
        /\ SameFlags(a.mode, b.mode, Steering)
        /\ SameSpot(x, y) /\ y.imodp = n /\ y.inp_num = n
        /\ y.sinp_num = IF "SHOW_CINPUT" \in a.mode THEN n
                                                   ELSE a.default_im_sinmd
        /\ y.s_imodp = y.sinp_num
        /\ y.inp_state = Chinese(x.inp_state)
        /\ y.inited = IF reset_inpinfo(a, x, n) /\ "CINPUT" \notin z.inp_state
                      THEN n ELSE z.inited
        /\ y.reinit => \/ z.reinit
                       \/ "CINPUT" \notin z.inp_state /\ z.inited # NoMod

LEMMA EnterIs ==
    ASSUME NEW a \in Memory, NEW k \in ICID, NEW n \in Inp
    PROVE  EntersIM(a, enter_IM(a, k, n), k, n)
<1> DEFINE b == enter_IM(a, k, n)
           x == a.IMC[k]
           y == b.IMC[k]
           z == leave_IM(a, x, n)
           r == reset_inpinfo(a, x, n)
           s == IF "SHOW_CINPUT" \in a.mode THEN n ELSE a.default_im_sinmd
           u == [z EXCEPT !.imodp = n, !.inp_num = n]
           v == call_xim_init(u, r)
           c == follow_IM(a, n)
           f == load_cinput(a.cinput, {n})
<1>1. x \in IMCRec /\ a.IMC \in [ICID -> IMCRec] /\ s \in Inp
  BY DEF Memory
<1>2. n # NoMod
  BY DEF Inp, NoMod
<1>3. z \in IMCRec
  BY <1>1, LeaveType
<1>4. /\ SameSpot(x, z)
      /\ z.inp_state = x.inp_state \/ z.inp_state = Unset(x.inp_state)
  <2>1. Leaves(a, x, z, n)
    BY <1>1, LeaveIs
  <2> QED BY <2>1 DEF Leaves
<1> HIDE DEF r, z
<1>5. /\ u \in IMCRec /\ u.imodp = n /\ u.inp_num = n /\ SameSpot(z, u)
      /\ u.inp_state = z.inp_state /\ u.inited = z.inited /\ u.reinit = z.reinit
  BY <1>1, <1>3 DEF IMCRec, SameSpot
<1> HIDE DEF u
<1>6. /\ v \in IMCRec /\ v.imodp = n /\ v.inp_num = n /\ SameSpot(u, v)
      /\ v.inp_state = Chinese(u.inp_state)
      /\ v.inited = IF r /\ "CINPUT" \notin u.inp_state THEN n ELSE u.inited
      /\ v.reinit => u.reinit \/ ("CINPUT" \notin u.inp_state /\ u.inited # NoMod)
  <2>1. v \in IMCRec
    BY <1>5, XimInitType
  <2> QED BY <1>2, <1>5, <2>1 DEF call_xim_init, IMCRec, Chinese, SameSpot
<1>7. Chinese(z.inp_state) = Chinese(x.inp_state)
  BY <1>4 DEF Chinese, Unset
<1>8. /\ c \in Memory /\ c.IC = a.IC /\ c.IMC = a.IMC /\ c.cinput = a.cinput
      /\ c.default_im = (IF SingleIMC THEN n ELSE a.default_im)
      /\ c.default_im_sinmd = a.default_im_sinmd
      /\ c.im_focus = (IF "IM_FOCUS" \in a.mode THEN n ELSE a.im_focus)
      /\ SameFlags(a.mode, c.mode, Steering)
  BY DEF follow_IM, Memory, ModeFlag, SameFlags, Steering
<1> HIDE DEF v, c, f
<1>9. b = [c EXCEPT !.cinput = f, !.IMC[k] = [v EXCEPT !.s_imodp = s, !.sinp_num = s],
                    !.first_call = TRUE]
  BY <1>8 DEF enter_IM, v, u, r, c, f, z
<1> HIDE DEF s
<1>10. /\ b.IC = a.IC /\ b.IMC = [a.IMC EXCEPT ![k] = y]
       /\ y = [v EXCEPT !.s_imodp = s, !.sinp_num = s]
       /\ b.cinput = f /\ b.default_im = c.default_im
       /\ b.default_im_sinmd = c.default_im_sinmd
       /\ b.im_focus = c.im_focus /\ b.first_call = TRUE /\ b.mode = c.mode
  BY <1>1, <1>8, <1>9 DEF Memory
<1>11. /\ y.imodp = n /\ y.inp_num = n /\ SameSpot(v, y)
       /\ y.sinp_num = s /\ y.s_imodp = s
       /\ y.inp_state = v.inp_state /\ y.inited = v.inited /\ y.reinit = v.reinit
  BY <1>1, <1>6, <1>10 DEF IMCRec, SameSpot
<1>12. SameSpot(x, y)
  BY <1>4, <1>5, <1>6, <1>11 DEF SameSpot
<1>13. /\ y.inited = IF r /\ "CINPUT" \notin z.inp_state THEN n ELSE z.inited
       /\ y.reinit => z.reinit \/ ("CINPUT" \notin z.inp_state /\ z.inited # NoMod)
  BY <1>5, <1>6, <1>11
<1>14. Grown(a, b) /\ (can_bind(a, n) => Live(b, n))
  BY <1>10, Loads DEF f
<1>15. /\ y.inp_state = Chinese(x.inp_state) /\ y.imodp = n /\ y.inp_num = n
       /\ y.s_imodp = s /\ y.sinp_num = s
  BY <1>5, <1>6, <1>7, <1>11
<1> QED BY <1>8, <1>10, <1>12, <1>13, <1>14, <1>15 DEF s, r, z, EntersIM

-----------------------------------------------------------------------------
\* change_IM() keeps the server ready, whatever it does to the table.
\* A step that only loads modules.
LEMMA ReadyLoad ==
    ASSUME NEW a \in Memory, Ready(a), NEW b, NEW S,
           b = [a EXCEPT !.cinput = load_cinput(@, S)]
    PROVE  Ready(b)
<1>1. /\ b.cinput = load_cinput(a.cinput, S) /\ b.IMC = a.IMC
      /\ b.imc_list = a.imc_list /\ b.default_im = a.default_im
      /\ b.default_im_sinmd = a.default_im_sinmd /\ b.im_focus = a.im_focus
      /\ b.first_call = a.first_call /\ b.mode = a.mode
  BY DEF Memory
<1>2. \A n \in Inp : Live(a, n) => Live(b, n)
  BY <1>1, Loads DEF Grown
<1>3. a.default_im \in Inp /\ a.default_im_sinmd \in Inp /\ a.im_focus \in Inp
  BY DEF Memory
<1>4. \A k \in a.imc_list : a.IMC[k].inp_num \in Inp /\ a.IMC[k].sinp_num \in Inp
  BY DEF Memory, IMCRec
<1> QED BY <1>1, <1>2, <1>3, <1>4 DEF Ready, Table, Fits, Bound, History

LEMMA ReadyEnter ==
    ASSUME NEW a, Sound(a), Ready(a), NEW k \in a.imc_list,
           NEW n \in Inp, can_bind(a, n)
    PROVE  Ready(enter_IM(a, k, n))
<1> DEFINE b == enter_IM(a, k, n)
           x == a.IMC[k]
           y == b.IMC[k]
           z == leave_IM(a, x, n)
           r == reset_inpinfo(a, x, n)
<1>1. a \in Memory /\ k \in ICID /\ a.imc_list \subseteq ICID
  BY DEF Sound, Memory
<1>2. x \in IMCRec /\ n # NoMod
  BY <1>1 DEF Memory, Inp, NoMod
<1>3. /\ b.IMC = [a.IMC EXCEPT ![k] = y]
      /\ Grown(a, b) /\ Live(b, n)
      /\ b.default_im = IF SingleIMC THEN n ELSE a.default_im
      /\ b.default_im_sinmd = a.default_im_sinmd
      /\ b.im_focus = IF "IM_FOCUS" \in a.mode THEN n ELSE a.im_focus
      /\ b.first_call = TRUE
      /\ SameFlags(a.mode, b.mode, Steering)
      /\ y.imodp = n /\ y.inp_num = n
      /\ y.sinp_num = IF "SHOW_CINPUT" \in a.mode THEN n ELSE a.default_im_sinmd
      /\ y.s_imodp = y.sinp_num
      /\ y.inp_state = Chinese(x.inp_state)
      /\ y.inited = IF r /\ "CINPUT" \notin z.inp_state THEN n ELSE z.inited
      /\ y.reinit => z.reinit \/ ("CINPUT" \notin z.inp_state /\ z.inited # NoMod)
  <2>1. EntersIM(a, b, k, n)
    BY <1>1, EnterIs
  <2> QED BY <2>1 DEF EntersIM
<1>4. b.imc_list = a.imc_list
  BY <1>1, EnterIM DEF Steady
<1>5. /\ z.reinit = x.reinit
      /\ z.inp_state = IF LeavesIM(x, n) THEN Unset(x.inp_state) ELSE x.inp_state
      /\ z.inited = IF LeavesIM(x, n) /\ "CINPUT" \in x.inp_state /\ r
                    THEN NoMod ELSE x.inited
  <2>1. Leaves(a, x, z, n)
    BY <1>2, LeaveIs
  <2> QED BY <2>1 DEF Leaves
<1>6. LeavesIM(x, n) <=> x.imodp # NoMod /\ x.imodp # n
  BY DEF LeavesIM
<1>7. r <=> (a.first_call /\ SingleIMC => x.inp_num # n)
  BY DEF reset_inpinfo
<1>8. Fits(a, x)
  BY DEF Ready
<1> HIDE DEF b, y, z, r, x
<1>9. "SHOW_CINPUT" \in b.mode <=> "SHOW_CINPUT" \in a.mode
  BY <1>3 DEF SameFlags, Steering, ModeFlag
<1>10. "IM_FOCUS" \in b.mode <=> "IM_FOCUS" \in a.mode
  BY <1>3 DEF SameFlags, Steering, ModeFlag
<1>11. Live(b, n) /\ \A l \in Inp : Live(a, l) => Live(b, l)
  BY <1>3 DEF Grown
<1>12. a.default_im \in Inp /\ a.default_im_sinmd \in Inp /\ a.im_focus \in Inp
  BY <1>1 DEF Memory
<1>13. Table(b)
  BY <1>3, <1>9, <1>11, <1>12 DEF Ready, Table
<1>14. FlagsFit(y.inp_state)
  BY <1>3, <1>8 DEF Fits, FlagsFit, Chinese
<1>15. Bound(b, y)
  BY <1>3, <1>11, <1>12 DEF Ready, Table, Bound, Chinese
<1>16. History(b, y)
  <2>1. CASE SingleIMC
    <3>1. y.inited = n
      <4>1. CASE LeavesIM(x, n)
        <5>1. "CINPUT" \in x.inp_state /\ x.inp_num # n /\ a.first_call
          BY <1>6, <1>8, <2>1, <4>1 DEF Fits, Bound, History
        <5> QED BY <1>3, <1>5, <1>7, <4>1, <5>1 DEF Unset
      <4>2. CASE ~LeavesIM(x, n) /\ "CINPUT" \in x.inp_state
        <5>1. x.inp_num = n /\ a.first_call /\ x.inited = n
          <6>1. x.imodp = x.inp_num /\ x.inp_num \in Inp
            BY <1>2, <1>8, <4>2 DEF Fits, Bound, IMCRec
          <6>2. x.inp_num = n
            BY <1>6, <4>2, <6>1 DEF Inp, NoMod
          <6> QED BY <1>8, <2>1, <4>2, <6>2 DEF Fits, History
        <5> QED BY <1>3, <1>5, <4>2, <5>1
      <4>3. CASE ~LeavesIM(x, n) /\ "CINPUT" \notin x.inp_state
        BY <1>3, <1>5, <1>7, <1>8, <2>1, <4>3 DEF Fits, History
      <4> QED BY <4>1, <4>2, <4>3
    <3> QED BY <1>3, <1>10, <2>1, <3>1 DEF History
  <2>2. CASE ~SingleIMC
    <3>1. r /\ x.inited = x.imodp /\ ~x.reinit
      BY <1>7, <1>8, <2>2 DEF Fits, History
    <3>2. CASE LeavesIM(x, n)
      <4>1. "CINPUT" \in x.inp_state
        BY <1>6, <1>8, <3>2 DEF Fits, Bound
      <4> QED BY <1>3, <1>5, <2>2, <3>1, <3>2, <4>1 DEF History, Unset
    <3>3. CASE ~LeavesIM(x, n) /\ "CINPUT" \in x.inp_state
      <4>1. x.imodp = x.inp_num /\ x.inp_num \in Inp
        BY <1>2, <1>8, <3>3 DEF Fits, Bound, IMCRec
      <4>2. x.imodp = n
        BY <1>6, <3>3, <4>1 DEF Inp, NoMod
      <4> QED BY <1>3, <1>5, <2>2, <3>1, <3>3, <4>2 DEF History
    <3>4. CASE ~LeavesIM(x, n) /\ "CINPUT" \notin x.inp_state
      <4>1. x.imodp = NoMod
        BY <1>8, <3>4 DEF Fits, Bound
      <4> QED BY <1>3, <1>5, <2>2, <3>1, <3>4, <4>1 DEF History
    <3> QED BY <3>2, <3>3, <3>4
  <2> QED BY <2>1, <2>2
<1>17. ASSUME NEW l \in a.imc_list
       PROVE  Fits(b, b.IMC[l])
  <2>1. CASE l = k
    BY <1>14, <1>15, <1>16, <2>1 DEF Fits, y
  <2>2. CASE l # k
    <3>1. ~SingleIMC
      BY <2>2 DEF Sound, Attached, Owned
    <3>2. l \in ICID /\ b.IMC[l] = a.IMC[l] /\ a.IMC[l] \in IMCRec
      BY <1>1, <1>3, <2>2 DEF Memory
    <3>3. a.IMC[l].inp_num \in Inp /\ a.IMC[l].sinp_num \in Inp
      BY <3>2 DEF IMCRec
    <3>4. Fits(a, a.IMC[l])
      BY DEF Ready
    <3> QED BY <1>11, <3>1, <3>2, <3>3, <3>4 DEF Fits, Bound, History
  <2> QED BY <2>1, <2>2
<1> QED BY <1>4, <1>13, <1>17 DEF Ready, b

\* An IMC is bound to a module in Chinese mode, and then only.
LEMMA BoundIfChinese ==
    ASSUME NEW a, NEW x \in IMCRec, Fits(a, x)
    PROVE  "CINPUT" \in x.inp_state <=> x.imodp # NoMod
<1>1. x.inp_num # NoMod
  BY DEF IMCRec, Inp, NoMod
<1> QED BY <1>1 DEF Fits, Bound

LEMMA ReadyEnglish ==
    ASSUME NEW a, Sound(a), Ready(a), NEW k \in a.imc_list,
           SingleIMC => "CINPUT" \in a.IMC[k].inp_state
    PROVE  Ready(enter_English(a, k))
<1> DEFINE b == enter_English(a, k)
           x == a.IMC[k]
           y == b.IMC[k]
<1>1. a \in Memory /\ k \in ICID /\ a.imc_list \subseteq ICID
  BY DEF Sound, Memory
<1>2. English \notin Inp
  BY StateAssumption DEF English, Inp
<1>3. /\ b.IMC = [a.IMC EXCEPT ![k] = y] /\ b.cinput = a.cinput
      /\ b.default_im = a.default_im
      /\ b.default_im_sinmd = a.default_im_sinmd
      /\ b.im_focus = a.im_focus /\ b.first_call = TRUE
      /\ SameFlags(a.mode, b.mode, Steering)
      /\ y.imodp = NoMod /\ y.inp_num = x.inp_num /\ y.reinit = x.reinit
      /\ y.inp_state = IF x.imodp # NoMod THEN Unset(x.inp_state) ELSE x.inp_state
      /\ y.inited = IF /\ x.imodp # NoMod /\ "CINPUT" \in x.inp_state
                       /\ reset_inpinfo(a, x, English)
                    THEN NoMod ELSE x.inited
  <2>1. EntersEnglish(a, b, k)
    BY <1>1, EnglishIs
  <2> QED BY <2>1 DEF EntersEnglish
<1>4. b.imc_list = a.imc_list
  BY <1>1, EnterEnglish DEF Steady
<1>5. Fits(a, x)
  BY DEF Ready
<1>6. reset_inpinfo(a, x, English) <=> ~(a.first_call /\ SingleIMC)
  BY <1>2 DEF reset_inpinfo
<1> HIDE DEF b, y, x
<1>7. /\ "SHOW_CINPUT" \in b.mode <=> "SHOW_CINPUT" \in a.mode
      /\ "IM_FOCUS" \in b.mode <=> "IM_FOCUS" \in a.mode
  BY <1>3 DEF SameFlags, Steering, ModeFlag
<1>8. Table(b)
  BY <1>3, <1>7 DEF Ready, Table, Live
<1>9. "CINPUT" \notin y.inp_state /\ FlagsFit(y.inp_state)
  <2>1. "CINPUT" \in x.inp_state <=> x.imodp # NoMod
    BY <1>1, <1>5, BoundIfChinese DEF Memory, x
  <2> QED BY <1>3, <1>5, <2>1 DEF Fits, FlagsFit, Unset
<1>10. Bound(b, y)
  BY <1>3, <1>5, <1>9 DEF Fits, Bound, Live
<1>11. History(b, y)
  <2>1. CASE SingleIMC
    BY <1>3, <1>5, <1>6, <1>7, <2>1 DEF Fits, History, x
  <2>2. CASE ~SingleIMC
    BY <1>3, <1>5, <1>6, <2>2 DEF Fits, Bound, History
  <2> QED BY <2>1, <2>2
<1>12. ASSUME NEW l \in a.imc_list
       PROVE  Fits(b, b.IMC[l])
  <2>1. CASE l = k
    BY <1>9, <1>10, <1>11, <2>1 DEF Fits, y
  <2>2. CASE l # k
    <3>1. ~SingleIMC
      BY <2>2 DEF Sound, Attached, Owned
    <3>2. b.IMC[l] = a.IMC[l]
      BY <1>1, <1>3, <2>2 DEF Memory
    <3>3. Fits(a, a.IMC[l])
      BY DEF Ready
    <3> QED BY <1>3, <3>1, <3>2, <3>3 DEF Fits, Bound, History, Live
  <2> QED BY <2>1, <2>2
<1> QED BY <1>4, <1>8, <1>12 DEF Ready, b

\* English mode is asked of a shared IMC only when it is in Chinese mode.
LEMMA ReadyChange ==
    ASSUME NEW a, Sound(a), Ready(a), NEW i \in a.ic_list, NEW n,
           SingleIMC /\ n \notin Inp => is_on(a, i, "CINPUT")
    PROVE  Ready(change_IM(a, i, n))
<1>1. a \in Memory /\ a.IC[i].imc \in a.imc_list
  BY HasIMC DEF Sound
<1>2. CASE n \notin Inp
  BY <1>1, <1>2, ReadyEnglish DEF change_IM, is_on, imc_of
<1>3. CASE n \in Inp /\ can_bind(a, n)
  BY <1>1, <1>3, ReadyEnter DEF change_IM
<1>4. CASE n \in Inp /\ ~can_bind(a, n)
  BY <1>1, <1>4, ReadyLoad DEF change_IM
<1> QED BY <1>2, <1>3, <1>4

LEMMA KeyedLoad ==
    ASSUME NEW a \in Memory, NEW i \in ICID, NEW b, NEW S,
           b = [a EXCEPT !.cinput = load_cinput(@, S)]
    PROVE  Keyed(a, b, i)
<1>1. load_cinput(a.cinput, S) \in [Inp -> CinputState]
  BY LoadType DEF Memory
<1>2. /\ b.IC = a.IC /\ b.IMC = a.IMC /\ b.mode = a.mode /\ b.ic = a.ic
      /\ b.icp = a.icp /\ b.icid = a.icid /\ b.ic_list = a.ic_list
      /\ b.imc_list = a.imc_list
  BY DEF Memory
<1>3. b \in Memory
  BY <1>1, Zenon DEF Memory
<1> QED BY <1>2, <1>3 DEF Keyed, Steady, SameOwner, SameFlags, SameSpot

LEMMA KeyedChange ==
    ASSUME NEW a, Sound(a), NEW i \in a.ic_list, NEW n
    PROVE  Keyed(a, change_IM(a, i, n), i)
<1> DEFINE k == a.IC[i].imc
           b == change_IM(a, i, n)
<1>1. a \in Memory /\ i \in ICID /\ k \in ICID
  BY HasIMC DEF Sound
<1>2. Steady(a, b)
  BY <1>1, ChangeIM
<1>3. CASE n \notin Inp
  <2>1. b = enter_English(a, k)
    BY <1>3 DEF change_IM
  <2>2. EntersEnglish(a, b, k)
    BY <1>1, <2>1, EnglishIs
  <2>3. /\ b.IC = a.IC /\ b.IMC = [a.IMC EXCEPT ![k] = b.IMC[k]]
        /\ SameSpot(a.IMC[k], b.IMC[k]) /\ SameFlags(a.mode, b.mode, Steering)
    BY <2>2 DEF EntersEnglish
  <2>4. SameFlags(a.mode, b.mode, Leaving)
    BY <2>3 DEF SameFlags, Steering, Leaving, ModeFlag
  <2> QED BY <1>1, <1>2, <2>3, <2>4, KeyedIMC
<1>4. CASE n \in Inp /\ can_bind(a, n)
  <2>1. b = enter_IM(a, k, n)
    BY <1>4 DEF change_IM
  <2>2. EntersIM(a, b, k, n)
    BY <1>1, <1>4, <2>1, EnterIs
  <2>3. /\ b.IC = a.IC /\ b.IMC = [a.IMC EXCEPT ![k] = b.IMC[k]]
        /\ SameSpot(a.IMC[k], b.IMC[k]) /\ SameFlags(a.mode, b.mode, Steering)
    BY <2>2 DEF EntersIM
  <2>4. SameFlags(a.mode, b.mode, Leaving)
    BY <2>3 DEF SameFlags, Steering, Leaving, ModeFlag
  <2> QED BY <1>1, <1>2, <2>3, <2>4, KeyedIMC
<1>5. CASE n \in Inp /\ ~can_bind(a, n)
  BY <1>1, <1>5, KeyedLoad DEF change_IM
<1> QED BY <1>3, <1>4, <1>5

\* The flags that change_IM() leaves, and the module it binds.
Switched(a, b, i, n) ==
    /\ imc_of(b, i).inp_state = IF n \notin Inp THEN Unset(imc_of(a, i).inp_state)
                                ELSE IF can_bind(a, n)
                                THEN Chinese(imc_of(a, i).inp_state)
                                ELSE imc_of(a, i).inp_state
    /\ n \in Inp /\ can_bind(a, n) => imc_of(b, i).imodp = n

LEMMA ChangeSwitches ==
    ASSUME NEW a, Sound(a), Ready(a), NEW i \in a.ic_list, NEW n
    PROVE  /\ Switched(a, change_IM(a, i, n), i, n)
           /\ SameFlags(a.mode, change_IM(a, i, n).mode, Steering)
           /\ change_IM(a, i, n).IC = a.IC
<1> DEFINE k == a.IC[i].imc
           b == change_IM(a, i, n)
<1>1. a \in Memory /\ i \in ICID /\ k \in ICID /\ k \in a.imc_list
  BY HasIMC DEF Sound
<1>2. CASE n \notin Inp
  <2>1. b = enter_English(a, k)
    BY <1>2 DEF change_IM
  <2>2. EntersEnglish(a, b, k)
    BY <1>1, <2>1, EnglishIs
  <2>3. /\ b.IC = a.IC /\ SameFlags(a.mode, b.mode, Steering)
        /\ b.IMC[k].inp_state = IF a.IMC[k].imodp # NoMod
                                THEN Unset(a.IMC[k].inp_state)
                                ELSE a.IMC[k].inp_state
    BY <2>2 DEF EntersEnglish
  <2>4. Fits(a, a.IMC[k])
    BY <1>1 DEF Ready
  <2>5. a.IMC[k].imodp = NoMod => "CINPUT" \notin a.IMC[k].inp_state
    BY <1>1, <2>4, BoundIfChinese DEF Memory
  <2>6. a.IMC[k].imodp = NoMod => Unset(a.IMC[k].inp_state) = a.IMC[k].inp_state
    BY <2>4, <2>5 DEF Fits, FlagsFit, Unset
  <2> QED BY <1>2, <2>3, <2>6 DEF Switched, imc_of
<1>3. CASE n \in Inp /\ can_bind(a, n)
  <2>1. b = enter_IM(a, k, n)
    BY <1>3 DEF change_IM
  <2>2. EntersIM(a, b, k, n)
    BY <1>1, <1>3, <2>1, EnterIs
  <2>3. /\ b.IC = a.IC /\ SameFlags(a.mode, b.mode, Steering)
        /\ b.IMC[k].inp_state = Chinese(a.IMC[k].inp_state)
        /\ b.IMC[k].imodp = n
    BY <2>2 DEF EntersIM
  <2> QED BY <1>3, <2>3 DEF Switched, imc_of
<1>4. CASE n \in Inp /\ ~can_bind(a, n)
  <2>1. b.IC = a.IC /\ b.IMC = a.IMC /\ b.mode = a.mode
    BY <1>1, <1>4 DEF change_IM, Memory
  <2> QED BY <1>4, <2>1 DEF Switched, imc_of, SameFlags
<1> QED BY <1>2, <1>3, <1>4

-----------------------------------------------------------------------------
(***************************************************************************)
(* The handlers that switch no input method leave the table and the        *)
(* bindings of the IMCs alone.                                             *)
(***************************************************************************)
SameBinding(x, y) ==
    /\ y.inp_num = x.inp_num /\ y.sinp_num = x.sinp_num
    /\ y.imodp = x.imodp /\ y.s_imodp = x.s_imodp
    /\ y.inited = x.inited /\ y.reinit = x.reinit
    /\ "CINPUT" \in y.inp_state <=> "CINPUT" \in x.inp_state
    /\ FlagsFit(x.inp_state) => FlagsFit(y.inp_state)

Idle(a, b) ==
    /\ b.cinput = a.cinput /\ b.default_im = a.default_im
    /\ b.default_im_sinmd = a.default_im_sinmd
    /\ b.im_focus = a.im_focus /\ b.first_call = a.first_call
    /\ SameFlags(a.mode, b.mode, {"SHOW_CINPUT", "IM_FOCUS"})
    /\ b.imc_list \subseteq a.imc_list
    /\ SingleIMC => b.imc_list = a.imc_list
    /\ \A k \in b.imc_list : SameBinding(a.IMC[k], b.IMC[k])

LEMMA ReadyIdle ==
    ASSUME NEW a, Ready(a), NEW b, Idle(a, b)
    PROVE  Ready(b)
<1>1. Table(b)
  BY DEF Ready, Table, Idle, SameFlags, Live
<1>2. \A n : Live(b, n) <=> Live(a, n)
  BY DEF Idle, Live
<1>3. /\ b.default_im = a.default_im /\ b.im_focus = a.im_focus
      /\ b.first_call = a.first_call
      /\ "IM_FOCUS" \in b.mode <=> "IM_FOCUS" \in a.mode
  BY DEF Idle, SameFlags
<1>4. ASSUME NEW k \in b.imc_list
      PROVE  Fits(b, b.IMC[k])
  <2>1. Fits(a, a.IMC[k]) /\ SameBinding(a.IMC[k], b.IMC[k])
    BY DEF Ready, Idle
  <2>2. FlagsFit(b.IMC[k].inp_state)
    BY <2>1 DEF Fits, SameBinding
  <2>3. Bound(b, b.IMC[k])
    BY <1>2, <2>1 DEF Fits, SameBinding, Bound
  <2>4. History(b, b.IMC[k])
    BY <1>3, <2>1 DEF Fits, SameBinding, History
  <2> QED BY <2>2, <2>3, <2>4 DEF Fits
<1>5. SingleIMC /\ b.imc_list = {} => b.im_focus = b.default_im /\ ~b.first_call
  BY <1>3 DEF Ready, Idle
<1> QED BY <1>1, <1>4, <1>5 DEF Ready

\* A step that writes one IMC, or none.
LEMMA IdleIMC ==
    ASSUME NEW a \in Memory, NEW k \in ICID, NEW b, NEW y,
           b.cinput = a.cinput, b.default_im = a.default_im,
           b.default_im_sinmd = a.default_im_sinmd,
           b.im_focus = a.im_focus, b.first_call = a.first_call,
           SameFlags(a.mode, b.mode, {"SHOW_CINPUT", "IM_FOCUS"}),
           b.imc_list = a.imc_list,
           b.IMC = [a.IMC EXCEPT ![k] = y], SameBinding(a.IMC[k], y)
    PROVE  Idle(a, b)
<1>1. a.imc_list \subseteq ICID /\ a.IMC \in [ICID -> IMCRec]
  BY DEF Memory
<1>2. \A l \in ICID : SameBinding(a.IMC[l], b.IMC[l])
  BY <1>1 DEF SameBinding
<1> QED BY <1>1, <1>2 DEF Idle

LEMMA IdleNoIMC ==
    ASSUME NEW a, NEW b,
           b.cinput = a.cinput, b.default_im = a.default_im,
           b.default_im_sinmd = a.default_im_sinmd,
           b.im_focus = a.im_focus, b.first_call = a.first_call,
           SameFlags(a.mode, b.mode, {"SHOW_CINPUT", "IM_FOCUS"}),
           b.imc_list = a.imc_list, b.IMC = a.IMC
    PROVE  Idle(a, b)
BY DEF Idle, SameBinding

-----------------------------------------------------------------------------
(***************************************************************************)
(* A key that switches the input method enters Chinese mode, leaves it, or *)
(* changes nothing; of the other handlers it relies on nothing but Ready.  *)
(***************************************************************************)
Turned(S, T) == T = S \/ T = Unset(S) \/ T = Chinese(S)

Turns(a, b, i) ==
    /\ Ready(b) /\ Keyed(a, b, i)
    /\ Turned(imc_of(a, i).inp_state, imc_of(b, i).inp_state)
    /\ SameFlags(a.mode, b.mode, Steering)
    /\ b.IC = a.IC

LEMMA TurnsChange ==
    ASSUME NEW a, Sound(a), Ready(a), NEW i \in a.ic_list, NEW n,
           SingleIMC /\ n \notin Inp => is_on(a, i, "CINPUT")
    PROVE  Turns(a, change_IM(a, i, n), i)
<1> DEFINE b == change_IM(a, i, n)
<1>1. Ready(b) /\ Keyed(a, b, i)
  BY ReadyChange, KeyedChange
<1>2. /\ Switched(a, b, i, n)
      /\ SameFlags(a.mode, b.mode, Steering)
      /\ b.IC = a.IC
  BY ChangeSwitches
<1>3. Turned(imc_of(a, i).inp_state, imc_of(b, i).inp_state)
  BY <1>2 DEF Switched, Turned
<1> QED BY <1>1, <1>2, <1>3 DEF Turns

\* From English mode either direction tries the whole table before English.
LEMMA CircleReaches ==
    ASSUME NEW d \in {1, -1}, NEW t \in 1..(NInp + 1),
           circle(English, d, t) \notin Inp, NEW n \in Inp
    PROVE  \E u \in 1..(t - 1) : circle(English, d, u) = n
<1>1. NInp \in Nat \ {0} /\ n \in Nat /\ n < NInp
  BY StateAssumption DEF Inp
<1>2. CASE d = 1
  <2>1. \A u \in 1..(NInp + 1) : (NInp + 1 * u) % (NInp + 1) = u - 1
    <3> SUFFICES ASSUME NEW u \in 1..(NInp + 1)
                 PROVE  (NInp + 1 * u) % (NInp + 1) = u - 1
      OBVIOUS
    <3> DEFINE c == NInp + 1
               r == u - 1
    <3>1. c \in Nat \ {0} /\ r \in 0..(c - 1) /\ NInp + 1 * u = c + r
      BY <1>1
    <3> HIDE DEF c, r
    <3>2. (c + r) % c = r
      BY <3>1
    <3> QED BY <3>1, <3>2 DEF c, r
  <2>2. t = NInp + 1
    BY <1>1, <1>2, <2>1 DEF circle, English, Inp
  <2>3. n + 1 \in 1..(t - 1) /\ circle(English, d, n + 1) = n
    BY <1>1, <1>2, <2>1, <2>2 DEF circle, English
  <2> QED BY <2>3
<1>3. CASE d = -1
  <2>1. \A u \in 1..NInp : (NInp + (-1) * u) % (NInp + 1) = NInp - u
    <3> SUFFICES ASSUME NEW u \in 1..NInp
                 PROVE  (NInp + (-1) * u) % (NInp + 1) = NInp - u
      OBVIOUS
    <3> DEFINE c == NInp + 1
               r == NInp - u
    <3>1. c \in Nat \ {0} /\ r \in 0..(c - 1) /\ NInp + (-1) * u = r
      BY <1>1
    <3> HIDE DEF c, r
    <3>2. r % c = r
      BY <3>1
    <3> QED BY <3>1, <3>2 DEF c, r
  <2>2. t = NInp + 1
    <3> SUFFICES ASSUME t # NInp + 1
                 PROVE  FALSE
      OBVIOUS
    <3>1. t \in 1..NInp /\ NInp - t \in 0..(NInp - 1)
      BY <1>1
    <3>2. circle(English, d, t) = NInp - t
      BY <1>3, <2>1, <3>1 DEF circle, English
    <3> QED BY <3>1, <3>2 DEF Inp
  <2> DEFINE u == NInp - n
  <2>3. u \in 1..NInp /\ u \in 1..(t - 1) /\ NInp - u = n
    BY <1>1, <2>2
  <2> HIDE DEF u
  <2>4. circle(English, d, u) = NInp - u
    BY <1>3, <2>1, <2>3 DEF circle, English
  <2> QED BY <2>3, <2>4
<1> QED BY <1>2, <1>3

LEMMA LoadedKept ==
    ASSUME NEW a \in Memory, NEW S, NEW b,
           b = [a EXCEPT !.cinput = load_cinput(@, S)]
    PROVE  /\ b.IC = a.IC /\ b.IMC = a.IMC /\ b.mode = a.mode
           /\ b.ic_list = a.ic_list /\ b.imc_list = a.imc_list
BY DEF Memory

LEMMA TurnsTrans ==
    ASSUME NEW a, NEW b, NEW c, NEW i \in ICID, Keyed(a, b, i),
           b.IC = a.IC, b.IMC = a.IMC, b.mode = a.mode, Turns(b, c, i)
    PROVE  Turns(a, c, i)
<1>1. Keyed(a, c, i)
  BY KeyedTrans DEF Turns
<1>2. imc_of(b, i) = imc_of(a, i)
  BY DEF imc_of
<1> QED BY <1>1, <1>2 DEF Turns

LEMMA TurnsCircle ==
    ASSUME NEW a, Sound(a), Ready(a), NEW i \in a.ic_list, NEW d \in {1, -1},
           NEW b \in circular_change_IM(a, i, d)
    PROVE  Turns(a, b, i)
<1> DEFINE x == imc_of(a, i)
           s == IF "CINPUT" \in x.inp_state THEN x.inp_num ELSE English
           passed(t) == {circle(s, d, u) : u \in 1..(t - 1)}
           c(t) == [a EXCEPT !.cinput = load_cinput(@, passed(t))]
<1>1. PICK t \in 1..(NInp + 1) :
        /\ \A n \in passed(t) : ~change_IM_ok(a, n)
        /\ b = change_IM(c(t), i, circle(s, d, t))
  BY DEF circular_change_IM, imc_of
<1> DEFINE n == circle(s, d, t)
           e == c(t)
<1>2. a \in Memory /\ i \in ICID /\ a.IC[i].imc \in ICID
      /\ a.IC[i].imc \in a.imc_list
  BY HasIMC DEF Sound
<1>3. Ready(e) /\ Keyed(a, e, i)
  BY <1>2, ReadyLoad, KeyedLoad
<1>4. e.IC = a.IC /\ e.IMC = a.IMC /\ e.mode = a.mode /\ e.ic_list = a.ic_list
  BY <1>2, LoadedKept
<1>5. Sound(e)
  BY <1>3, SteadySound DEF Keyed
<1>6. n \notin Inp => is_on(a, i, "CINPUT")
  <2> SUFFICES ASSUME n \notin Inp, "CINPUT" \notin x.inp_state
               PROVE  FALSE
    BY DEF is_on
  <2>1. x \in IMCRec /\ x.inp_num \in Inp
    BY <1>2 DEF imc_of, Memory, IMCRec
  <2>2. x.inp_num \in passed(t)
    <3>1. \E u \in 1..(t - 1) : circle(English, d, u) = x.inp_num
      BY <2>1, CircleReaches
    <3> QED BY <3>1
  <2>3. Live(a, x.inp_num)
    BY <1>2 DEF Ready, Fits, Bound, imc_of
  <2> HIDE DEF passed
  <2> QED BY <1>1, <2>2, <2>3 DEF change_IM_ok, can_bind, Live
<1>7. is_on(e, i, "CINPUT") <=> is_on(a, i, "CINPUT")
  BY <1>4 DEF is_on, imc_of
<1> HIDE DEF e, n
<1>8. Turns(e, change_IM(e, i, n), i)
  BY <1>3, <1>4, <1>5, <1>6, <1>7, TurnsChange
<1>9. b = change_IM(e, i, n)
  BY <1>1 DEF e, n
<1> QED BY <1>2, <1>3, <1>4, <1>8, <1>9, TurnsTrans

-----------------------------------------------------------------------------
(***************************************************************************)
(* A functional key that the client forwards.                              *)
(***************************************************************************)
\* The Chinese focus status that goes with an IC that has the input focus.
FocusFits(S) == "XIMFOCUS" \in S <=> "CINPUT" \in S

Acts(a, b, i) ==
    /\ Ready(b) /\ Keyed(a, b, i) /\ b.IC = a.IC
    /\ FocusFits(imc_of(a, i).inp_state) => FocusFits(imc_of(b, i).inp_state)

LEMMA ActsTurns ==
    ASSUME NEW a, NEW b, NEW i, Turns(a, b, i)
    PROVE  Acts(a, b, i)
BY DEF Turns, Turned, Acts, FocusFits, Unset, Chinese

\* The keystroke display moves to the entry n, when those of S were tried.
MovesSimd(a, b, k, S, n) ==
    /\ can_bind(a, n) /\ n \in S
    /\ \/ b = [a EXCEPT !.cinput = load_cinput(@, S)]
       \/ b = [a EXCEPT !.cinput = load_cinput(@, S),
                        !.IMC[k].sinp_num = n, !.IMC[k].s_imodp = n,
                        !.default_im_sinmd = n, !.mode = @ \ {"SHOW_CINPUT"}]

LEMMA SimdIs ==
    ASSUME NEW a \in Memory, NEW i \in ICID, a.IC[i].imc \in ICID,
           NEW b \in change_simd(a, i)
    PROVE  \E S, n : n \in Inp /\ MovesSimd(a, b, a.IC[i].imc, S, n)
<1> DEFINE k == a.IC[i].imc
           s == a.IMC[k].sinp_num
           next(t) == (s + t) % NInp
           tried(t) == {next(u) : u \in 1..t}
           loaded(t) == [a EXCEPT !.cinput = load_cinput(@, tried(t))]
<1>1. PICK t \in 1..NInp :
        /\ can_bind(a, next(t))
        /\ b = IF next(t) = s THEN loaded(t)
               ELSE [loaded(t) EXCEPT !.IMC[k].sinp_num = next(t),
                                      !.IMC[k].s_imodp = next(t),
                                      !.default_im_sinmd = next(t),
                                      !.mode = @ \ {"SHOW_CINPUT"}]
  BY DEF change_simd
<1> DEFINE n == next(t)
           S == tried(t)
<1>2. s \in Inp
  BY DEF Memory, IMCRec
<1>3. n \in Inp
  BY <1>2, StateAssumption DEF Inp
<1>4. n \in S
  OBVIOUS
<1> HIDE DEF n, S, k
<1>5. \/ b = [a EXCEPT !.cinput = load_cinput(@, S)]
      \/ b = [[a EXCEPT !.cinput = load_cinput(@, S)]
                EXCEPT !.IMC[k].sinp_num = n, !.IMC[k].s_imodp = n,
                       !.default_im_sinmd = n, !.mode = @ \ {"SHOW_CINPUT"}]
  BY <1>1 DEF n, S
<1>6. \/ b = [a EXCEPT !.cinput = load_cinput(@, S)]
      \/ b = [a EXCEPT !.cinput = load_cinput(@, S),
                       !.IMC[k].sinp_num = n, !.IMC[k].s_imodp = n,
                       !.default_im_sinmd = n, !.mode = @ \ {"SHOW_CINPUT"}]
  BY <1>5 DEF Memory
<1>7. MovesSimd(a, b, k, S, n)
  BY <1>1, <1>4, <1>6 DEF MovesSimd, n
<1> QED BY <1>3, <1>7 DEF k

LEMMA ActsSimd ==
    ASSUME NEW a, Sound(a), Ready(a), NEW i \in a.ic_list,
           NEW b \in change_simd(a, i)
    PROVE  Acts(a, b, i)
<1> DEFINE k == a.IC[i].imc
           x == a.IMC[k]
<1>1. a \in Memory /\ i \in ICID /\ k \in ICID /\ k \in a.imc_list
  BY HasIMC DEF Sound
<1>2. PICK S, n : n \in Inp /\ MovesSimd(a, b, k, S, n)
  BY <1>1, SimdIs
<1>3. CASE b = [a EXCEPT !.cinput = load_cinput(@, S)]
  <2>1. Ready(b) /\ Keyed(a, b, i)
    BY <1>1, <1>3, ReadyLoad, KeyedLoad
  <2>2. b.IC = a.IC /\ b.IMC = a.IMC
    BY <1>1, <1>3, LoadedKept
  <2> QED BY <2>1, <2>2 DEF Acts, imc_of
<1>4. CASE b = [a EXCEPT !.cinput = load_cinput(@, S),
                         !.IMC[k].sinp_num = n, !.IMC[k].s_imodp = n,
                         !.default_im_sinmd = n, !.mode = @ \ {"SHOW_CINPUT"}]
  <2> DEFINE y == [x EXCEPT !.sinp_num = n, !.s_imodp = n]
             f == load_cinput(a.cinput, S)
             mode == a.mode \ {"SHOW_CINPUT"}
  <2>1. x \in IMCRec /\ a.IMC \in [ICID -> IMCRec] /\ a.imc_list \subseteq ICID
    BY <1>1 DEF Memory
  <2> HIDE DEF k
  <2>2. b = [a EXCEPT !.cinput = f, !.IMC[k] = y, !.default_im_sinmd = n,
                      !.mode = mode]
    BY <1>1, <1>4 DEF Memory
  <2>3. /\ y.sinp_num = n /\ y.s_imodp = n /\ y.inp_num = x.inp_num
        /\ y.imodp = x.imodp /\ y.inited = x.inited /\ y.reinit = x.reinit
        /\ y.inp_state = x.inp_state /\ SameSpot(x, y)
    BY <2>1 DEF IMCRec, SameSpot
  <2> HIDE DEF y, x
  <2>4. /\ b.cinput = f /\ b.IMC = [a.IMC EXCEPT ![k] = y] /\ b.IC = a.IC
        /\ b.imc_list = a.imc_list /\ b.default_im = a.default_im
        /\ b.default_im_sinmd = n /\ b.im_focus = a.im_focus
        /\ b.first_call = a.first_call /\ b.mode = mode
    BY <1>1, <2>2 DEF Memory
  <2>5. Steady(a, b)
    BY <1>1, ChangeSimd DEF k
  <2>6. Grown(a, b) /\ Live(b, n)
    BY <1>2, <2>4, Loads DEF MovesSimd
  <2>7. Keyed(a, b, i)
    BY <1>1, <2>3, <2>4, <2>5, KeyedIMC DEF SameFlags, Leaving, k, x
  <2>8. ASSUME NEW l \in Inp, Live(a, l)
        PROVE  Live(b, l)
    BY <2>6, <2>8 DEF Grown
  <2>9. a.default_im \in Inp /\ a.im_focus \in Inp
    BY <1>1 DEF Memory
  <2>10. Table(b)
    BY <2>4, <2>6, <2>8, <2>9 DEF Ready, Table
  <2>11. ASSUME NEW l \in a.imc_list
         PROVE  Fits(b, b.IMC[l])
    <3>1. a.IMC[l].inp_num \in Inp /\ a.IMC[l].sinp_num \in Inp /\ l \in ICID
      BY <2>1 DEF IMCRec
    <3>2. Fits(a, a.IMC[l])
      BY DEF Ready
    <3>3. "IM_FOCUS" \in b.mode <=> "IM_FOCUS" \in a.mode
      BY <2>4
    <3>4. CASE l = k
      <4>1. b.IMC[l] = y /\ a.IMC[l] = x
        BY <1>1, <2>1, <2>4, <3>4 DEF k, x
      <4>2. Bound(b, y)
        BY <2>3, <2>6, <2>8, <3>1, <3>2, <4>1 DEF Fits, Bound
      <4>3. History(b, y)
        BY <2>3, <2>4, <3>2, <3>3, <4>1 DEF Fits, History
      <4>4. FlagsFit(y.inp_state)
        BY <2>3, <3>2, <4>1 DEF Fits
      <4> QED BY <4>1, <4>2, <4>3, <4>4 DEF Fits
    <3>5. CASE l # k
      <4>1. b.IMC[l] = a.IMC[l]
        BY <2>1, <2>4, <3>1, <3>5
      <4>2. Bound(b, a.IMC[l])
        BY <2>8, <3>1, <3>2 DEF Fits, Bound
      <4>3. History(b, a.IMC[l])
        BY <2>4, <3>2, <3>3 DEF Fits, History
      <4> QED BY <3>2, <4>1, <4>2, <4>3 DEF Fits
    <3> QED BY <3>4, <3>5
  <2>12. Ready(b)
    BY <2>4, <2>10, <2>11 DEF Ready
  <2>13. imc_of(b, i).inp_state = imc_of(a, i).inp_state
    BY <1>1, <2>1, <2>3, <2>4 DEF imc_of, k, x
  <2> QED BY <2>4, <2>7, <2>12, <2>13 DEF Acts
<1> QED BY <1>2, <1>3, <1>4 DEF MovesSimd

LEMMA ActsWide ==
    ASSUME NEW a, Sound(a), Ready(a), NEW i \in a.ic_list, NEW b,
           \/ b = enter_2bytes(a, a.IC[i].imc)
           \/ b = leave_2bytes(a, a.IC[i].imc)
    PROVE  Acts(a, b, i)
<1> DEFINE k == a.IC[i].imc
           x == a.IMC[k]
           y == b.IMC[k]
<1>1. a \in Memory /\ i \in ICID /\ k \in ICID /\ x \in IMCRec
  BY HasIMC DEF Sound, Memory
<1>2. Steady(a, b)
  BY <1>1, TwoBytes
<1>3. /\ b.cinput = a.cinput /\ b.default_im = a.default_im
      /\ b.default_im_sinmd = a.default_im_sinmd /\ b.IC = a.IC
      /\ b.im_focus = a.im_focus /\ b.first_call = a.first_call
      /\ b.imc_list = a.imc_list /\ b.IMC = [a.IMC EXCEPT ![k] = y]
      /\ SameFlags(a.mode, b.mode, ModeFlag \ {"RUN_2B_FOCUS"})
  <2> HIDE DEF k
  <2>1. CASE b = enter_2bytes(a, k)
    BY <1>1, <2>1 DEF enter_2bytes, Memory, SameFlags
  <2>2. CASE b = leave_2bytes(a, k)
    BY <1>1, <2>2 DEF leave_2bytes, Memory, SameFlags
  <2> QED BY <2>1, <2>2 DEF k
<1>4. /\ SameBinding(x, y) /\ SameSpot(x, y)
      /\ FocusFits(x.inp_state) => FocusFits(y.inp_state)
  <2> HIDE DEF k
  <2>1. CASE b = enter_2bytes(a, k)
    <3>1. y = [x EXCEPT !.inp_state = @ \cup {"2BYTES", "2BFOCUS"}]
      BY <1>1, <2>1 DEF enter_2bytes, Memory
    <3> HIDE DEF x, y
    <3> QED BY <1>1, <3>1 DEF SameBinding, SameSpot, FocusFits, FlagsFit, IMCRec
  <2>2. CASE b = leave_2bytes(a, k)
    <3>1. y = [x EXCEPT !.inp_state = @ \ {"2BYTES", "2BFOCUS"}]
      BY <1>1, <2>2 DEF leave_2bytes, Memory
    <3> HIDE DEF x, y
    <3> QED BY <1>1, <3>1 DEF SameBinding, SameSpot, FocusFits, FlagsFit, IMCRec
  <2> QED BY <2>1, <2>2 DEF k
<1> HIDE DEF y
<1>5. Idle(a, b)
  BY <1>1, <1>3, <1>4, IdleIMC DEF SameFlags, ModeFlag
<1>6. Keyed(a, b, i)
  BY <1>1, <1>2, <1>3, <1>4, KeyedIMC DEF SameFlags, ModeFlag, Leaving
<1>7. imc_of(a, i) = x /\ imc_of(b, i) = y
  BY <1>3 DEF imc_of, y
<1> QED BY <1>3, <1>4, <1>5, <1>6, <1>7, ReadyIdle DEF Acts

LEMMA ActsToggle ==
    ASSUME NEW a, Sound(a), Ready(a), NEW i \in a.ic_list
    PROVE  Acts(a, toggle_im_focus(a, i), i)
<1> DEFINE k == a.IC[i].imc
           b == toggle_im_focus(a, i)
           n == imc_of(a, i).inp_num
<1>1. a \in Memory /\ i \in ICID /\ k \in ICID /\ k \in a.imc_list
  BY HasIMC DEF Sound
<1>2. Steady(a, b)
  BY <1>1, ToggleIMFocus
<1>3. /\ b.cinput = a.cinput /\ b.default_im = a.default_im
      /\ b.default_im_sinmd = a.default_im_sinmd /\ b.IC = a.IC
      /\ b.first_call = a.first_call
      /\ b.imc_list = a.imc_list /\ b.IMC = a.IMC
      /\ SameFlags(a.mode, b.mode,
                   ModeFlag \ {"IM_FOCUS", "RUN_IM_FOCUS", "RUN_2B_FOCUS"})
      /\ b.im_focus = n \/ ("IM_FOCUS" \notin b.mode /\ b.im_focus = a.im_focus)
  BY <1>1 DEF toggle_im_focus, Memory, SameFlags
<1> HIDE DEF b
<1>4. Fits(a, a.IMC[k]) /\ n = a.IMC[k].inp_num
  BY <1>1 DEF Ready, imc_of
<1>5. Live(a, n)
  BY <1>4 DEF Fits, Bound
<1>6. "SHOW_CINPUT" \in b.mode <=> "SHOW_CINPUT" \in a.mode
  BY <1>3 DEF SameFlags, ModeFlag
<1>7. Table(b)
  BY <1>3, <1>5, <1>6 DEF Ready, Table, Live
<1>8. ASSUME NEW l \in a.imc_list
      PROVE  Fits(b, b.IMC[l])
  <2>1. Fits(a, a.IMC[l])
    BY DEF Ready
  <2>2. SingleIMC => l = k
    BY <1>1 DEF Sound, Attached, Owned
  <2>3. Bound(b, a.IMC[l])
    BY <1>3, <2>1 DEF Fits, Bound, Live
  <2>4. History(b, a.IMC[l])
    BY <1>3, <1>4, <2>1, <2>2 DEF Fits, History
  <2> QED BY <1>3, <2>1, <2>3, <2>4 DEF Fits
<1>9. Ready(b)
  BY <1>1, <1>3, <1>7, <1>8 DEF Ready
<1>10. Keyed(a, b, i)
  BY <1>1, <1>2, <1>3 DEF Keyed, SameOwner, SameSpot, SameFlags, Leaving, ModeFlag
<1> QED BY <1>3, <1>9, <1>10 DEF Acts, imc_of, b

LEMMA ActsFunckey ==
    ASSUME NEW a, Sound(a), Ready(a), NEW i \in a.ic_list, NEW key \in FKey,
           NEW b \in funckey(a, i, key)
    PROVE  Acts(a, b, i)
<1>1. a \in Memory /\ i \in ICID
  BY HasIMC DEF Sound
<1>2. Acts(a, a, i)
  BY <1>1, KeyedStutter DEF Acts
<1>3. ASSUME NEW n, SingleIMC /\ n \notin Inp => is_on(a, i, "CINPUT")
      PROVE  Acts(a, change_IM(a, i, n), i)
  BY <1>3, TurnsChange, ActsTurns
<1>4. Acts(a, ZhEn(a, i), i)
  <2>1. imc_of(a, i).inp_num \in Inp
    BY HasIMC DEF imc_of, Sound, Memory, IMCRec
  <2> QED BY <1>3, <2>1 DEF ZhEn
<1>5. \A d \in {1, -1} : \A c \in circular_change_IM(a, i, d) : Acts(a, c, i)
  BY TurnsCircle, ActsTurns
<1>6. \A c \in change_simd(a, i) : Acts(a, c, i)
  BY ActsSimd
<1>7. Acts(a, enter_2bytes(a, a.IC[i].imc), i)
      /\ Acts(a, leave_2bytes(a, a.IC[i].imc), i)
  BY ActsWide
<1>8. Acts(a, toggle_im_focus(a, i), i)
  BY ActsToggle
<1>9. key[1] = "IMN" => key[2] \in Inp
  BY DEF FKey, Plain
<1>10. key[1] = "IMN" => Acts(a, change_IM(a, i, key[2]), i)
  BY <1>3, <1>9
<1> QED BY <1>2, <1>4, <1>5, <1>6, <1>7, <1>8, <1>10 DEF funckey

-----------------------------------------------------------------------------
\* A step that writes the ic_state of one IC.
ICStateSet(a, b, i, S) ==
    /\ b.ic = a.ic /\ b.icp = a.icp /\ b.icid = a.icid
    /\ b.ic_list = a.ic_list /\ b.imc_list = a.imc_list
    /\ b.IMC = a.IMC /\ b.mode = a.mode /\ Idle(a, b)
    /\ SameOwner(a.IC[i], b.IC[i]) /\ b.IC[i].imc = a.IC[i].imc
    /\ b.IC[i].ic_state = S
    /\ b.IC[i].input_style = a.IC[i].input_style
    /\ \A j \in ICID : j # i => b.IC[j] = a.IC[j]

LEMMA ICStateIs ==
    ASSUME NEW a \in Memory, NEW i \in ICID, NEW S
    PROVE  ICStateSet(a, [a EXCEPT !.IC[i].ic_state = S], i, S)
<1> DEFINE b == [a EXCEPT !.IC[i].ic_state = S]
<1>1. a.IC \in [ICID -> ICRec] /\ a.IC[i] \in ICRec
  BY DEF Memory
<1>2. /\ b.ic = a.ic /\ b.icp = a.icp /\ b.icid = a.icid
      /\ b.ic_list = a.ic_list /\ b.imc_list = a.imc_list
      /\ b.IMC = a.IMC /\ b.mode = a.mode
      /\ b.cinput = a.cinput /\ b.default_im = a.default_im
      /\ b.default_im_sinmd = a.default_im_sinmd
      /\ b.im_focus = a.im_focus /\ b.first_call = a.first_call
      /\ b.IC = [a.IC EXCEPT ![i] = [a.IC[i] EXCEPT !.ic_state = S]]
  BY DEF Memory
<1> HIDE DEF b
<1>3. Idle(a, b)
  BY <1>2, IdleNoIMC DEF SameFlags
<1>4. /\ SameOwner(a.IC[i], b.IC[i]) /\ b.IC[i].imc = a.IC[i].imc
      /\ b.IC[i].ic_state = S
      /\ b.IC[i].input_style = a.IC[i].input_style
  BY <1>1, <1>2 DEF ICRec, SameOwner
<1> QED BY <1>1, <1>2, <1>3, <1>4 DEF ICStateSet, b

\* Opening and closing the connection.
LEMMA ConnectKeyed ==
    ASSUME NEW a \in Memory, NEW i \in ICID, NEW b,
           b = xim_connect(a, i) \/ b = xim_disconnect(a, i)
    PROVE  /\ Keyed(a, b, i) /\ Idle(a, b) /\ imc_of(b, i) = imc_of(a, i)
           /\ b.mode = a.mode /\ b.IMC = a.IMC /\ b.ic_list = a.ic_list
           /\ "CONNECT" \in b.IC[i].ic_state <=> b = xim_connect(a, i)
<1> DEFINE S == a.IC[i].ic_state
<1>1. PICK T : /\ T = S \cup {"CONNECT"} \/ T = S \ {"CONNECT"}
               /\ b = [a EXCEPT !.IC[i].ic_state = T]
  BY DEF xim_connect, xim_disconnect, Memory
<1>2. ICStateSet(a, b, i, T)
  BY <1>1, ICStateIs
<1>3. Steady(a, b)
  BY Connect
<1>4. SameFlags(S, T, {"NEWIC", "FOCUS"})
  BY <1>1 DEF SameFlags
<1>5. Keyed(a, b, i)
  BY <1>2, <1>3, <1>4 DEF ICStateSet, Keyed, SameOwner, SameSpot, SameFlags
<1>6. xim_connect(a, i).IC[i].ic_state = S \cup {"CONNECT"}
      /\ xim_disconnect(a, i).IC[i].ic_state = S \ {"CONNECT"}
  <2>1. a.IC[i] \in ICRec
    BY DEF Memory
  <2> QED BY <2>1 DEF xim_connect, xim_disconnect, Memory, ICRec
<1>7. "CONNECT" \in b.IC[i].ic_state <=> b = xim_connect(a, i)
  BY <1>6
<1> QED BY <1>2, <1>5, <1>7 DEF ICStateSet, imc_of

\* An IC is connected exactly when it is in Chinese or wide ASCII mode, and
\* has the Chinese focus status in Chinese mode with the input focus.
Told(a, i) == "CONNECT" \in a.IC[i].ic_state
              <=> is_on(a, i, "CINPUT") \/ is_on(a, i, "2BYTES")

Lit(a, i) == is_on(a, i, "XIMFOCUS")
             <=> is_on(a, i, "CINPUT") /\ "FOCUS" \in a.IC[i].ic_state

\* After the functional key, XIM_FORWARD_EVENT closes a connection that no
\* input mode needs any more.
LEMMA ForwardIs ==
    ASSUME NEW a, Sound(a), Ready(a), NEW i \in a.ic_list, NEW key \in FKey,
           NEW b \in forward(a, i, key)
    PROVE  /\ Ready(b) /\ Keyed(a, b, i)
           /\ "CONNECT" \in a.IC[i].ic_state => Told(b, i)
           /\ FocusFits(imc_of(a, i).inp_state) => FocusFits(imc_of(b, i).inp_state)
<1>1. PICK c \in funckey(a, i, key) :
        b = IF is_on(c, i, "CINPUT") \/ is_on(c, i, "2BYTES") THEN c
            ELSE xim_disconnect(c, i)
  BY DEF forward
<1>2. Acts(a, c, i)
  BY ActsFunckey
<1>3. Ready(c) /\ Keyed(a, c, i) /\ c.IC = a.IC /\ c \in Memory /\ i \in ICID
  BY <1>2, HasIMC DEF Acts, Keyed, Steady
<1>4. CASE is_on(c, i, "CINPUT") \/ is_on(c, i, "2BYTES")
  BY <1>1, <1>2, <1>3, <1>4 DEF Told, Acts
<1>5. CASE ~(is_on(c, i, "CINPUT") \/ is_on(c, i, "2BYTES"))
  <2>1. b = xim_disconnect(c, i)
    BY <1>1, <1>5
  <2>2. /\ Keyed(c, b, i) /\ Idle(c, b) /\ imc_of(b, i) = imc_of(c, i)
        /\ "CONNECT" \in b.IC[i].ic_state <=> b = xim_connect(c, i)
    BY <1>3, <2>1, ConnectKeyed
  <2>3. "CONNECT" \notin b.IC[i].ic_state
    <3>1. c.IC[i] \in ICRec
      BY <1>3 DEF Memory
    <3> QED BY <1>3, <2>1, <3>1 DEF xim_disconnect, Memory, ICRec
  <2>4. Told(b, i)
    BY <1>5, <2>2, <2>3 DEF Told, is_on
  <2>5. Keyed(a, b, i)
    BY <1>3, <2>2, KeyedTrans
  <2> QED BY <1>2, <1>3, <2>2, <2>4, <2>5, ReadyIdle DEF Acts
<1> QED BY <1>4, <1>5

-----------------------------------------------------------------------------
(***************************************************************************)
(* A handler called for the IC i touches i and its IMC only.               *)
(***************************************************************************)
Local(a, b, i) ==
    /\ b.ic_list = a.ic_list /\ b.imc_list = a.imc_list
    /\ \A j \in ICID : j # i => b.IC[j] = a.IC[j]
    /\ b.IC[i].imc = a.IC[i].imc /\ SameOwner(a.IC[i], b.IC[i])
    /\ \A l \in ICID : l # a.IC[i].imc => b.IMC[l] = a.IMC[l]
    /\ ~SingleIMC => SameSpot(a.IMC[a.IC[i].imc], b.IMC[a.IC[i].imc])
    /\ SameFlags(a.mode, b.mode, Leaving)

LEMMA LocalKeyed ==
    ASSUME NEW a, NEW b, NEW i \in ICID, Keyed(a, b, i)
    PROVE  Local(a, b, i)
BY DEF Keyed, Local, Steady

LEMMA LocalTrans ==
    ASSUME NEW a, NEW b, NEW c, NEW i \in ICID, Local(a, b, i), Local(b, c, i)
    PROVE  Local(a, c, i)
BY DEF Local, SameOwner, SameSpot, SameFlags

LEMMA LocalStutter ==
    ASSUME NEW a, NEW i
    PROVE  Local(a, a, i)
BY DEF Local, SameOwner, SameSpot, SameFlags

\* The handlers that make an IC current, or take the focus from it, first
\* write the icid and the flags of its IMC, its ic_state and a pointer.
Written(a, i, p, q, g, S, T) ==
    [a EXCEPT !.ic = p, !.icp = q,
              !.IC[i] = [a.IC[i] EXCEPT !.ic_state = T],
              !.IMC[a.IC[i].imc] = [a.IMC[a.IC[i].imc] EXCEPT !.icid = g,
                                                             !.inp_state = S]]

SameStatus(S, T) == /\ "CINPUT" \in S <=> "CINPUT" \in T
                    /\ FlagsFit(S) => FlagsFit(T)

Writes(a, b, i, S, T) ==
    /\ Local(a, b, i) /\ Idle(a, b)
    /\ b.IC[i].ic_state = T /\ b.mode = a.mode
    /\ b.im_focus = a.im_focus
    /\ imc_of(b, i).inp_state = S
    /\ imc_of(b, i).inp_num = imc_of(a, i).inp_num

LEMMA WriteLocal ==
    ASSUME NEW a \in Memory, NEW i \in ICID, a.IC[i].imc \in ICID,
           NEW p, NEW q, NEW g, NEW S, NEW T,
           SameStatus(imc_of(a, i).inp_state, S)
    PROVE  Writes(a, Written(a, i, p, q, g, S, T), i, S, T)
<1> DEFINE b == Written(a, i, p, q, g, S, T)
           k == a.IC[i].imc
           x == [a.IC[i] EXCEPT !.ic_state = T]
           y == [a.IMC[k] EXCEPT !.icid = g, !.inp_state = S]
<1>1. /\ a.IC \in [ICID -> ICRec] /\ a.IMC \in [ICID -> IMCRec]
      /\ a.IC[i] \in ICRec /\ a.IMC[k] \in IMCRec
  BY DEF Memory
<1>2. /\ x.imc = k /\ SameOwner(a.IC[i], x) /\ x.ic_state = T
      /\ SameSpot(a.IMC[k], y) /\ y.inp_state = S
      /\ y.inp_num = a.IMC[k].inp_num /\ y.sinp_num = a.IMC[k].sinp_num
      /\ y.imodp = a.IMC[k].imodp /\ y.s_imodp = a.IMC[k].s_imodp
      /\ y.inited = a.IMC[k].inited /\ y.reinit = a.IMC[k].reinit
  BY <1>1 DEF SameOwner, SameSpot, ICRec, IMCRec
<1>3. b = [a EXCEPT !.ic = p, !.icp = q, !.IC[i] = x, !.IMC[k] = y]
  BY DEF Written
<1> HIDE DEF b, x, y, k
<1>4. /\ b.IC = [a.IC EXCEPT ![i] = x] /\ b.IMC = [a.IMC EXCEPT ![k] = y]
      /\ b.cinput = a.cinput /\ b.default_im = a.default_im
      /\ b.default_im_sinmd = a.default_im_sinmd
      /\ b.im_focus = a.im_focus /\ b.first_call = a.first_call
      /\ b.mode = a.mode /\ b.imc_list = a.imc_list /\ b.ic_list = a.ic_list
  BY <1>3 DEF Memory
<1>5. b.IC[i] = x /\ b.IMC[k] = y /\ k \in ICID
  BY <1>1, <1>4 DEF k
<1>6. SameBinding(a.IMC[k], y)
  BY <1>2 DEF SameBinding, SameStatus, imc_of, k
<1>7. Idle(a, b)
  BY <1>4, <1>5, <1>6, IdleIMC DEF SameFlags
<1>8. /\ \A j \in ICID : j # i => b.IC[j] = a.IC[j]
      /\ \A l \in ICID : l # k => b.IMC[l] = a.IMC[l]
  BY <1>1, <1>4
<1>9. Local(a, b, i)
  BY <1>2, <1>4, <1>5, <1>8 DEF Local, SameFlags, k
<1>10. imc_of(b, i) = y /\ imc_of(a, i) = a.IMC[k]
  BY <1>2, <1>5 DEF imc_of, k
<1> QED BY <1>2, <1>4, <1>5, <1>7, <1>9, <1>10 DEF Writes, b

LEMMA TriggerBaseIs ==
    ASSUME NEW a, Sound(a), Ready(a), NEW i \in a.ic_list
    PROVE  LET c == trigger_base(a, i)
           IN  /\ Sound(c) /\ Ready(c) /\ Local(a, c, i) /\ i \in c.ic_list
               /\ {"FOCUS", "CONNECT"} \subseteq c.IC[i].ic_state
               /\ SameFlags(a.IC[i].ic_state, c.IC[i].ic_state, {"NEWIC"})
               /\ c.mode = a.mode
               /\ imc_of(c, i).inp_state = imc_of(a, i).inp_state
<1> DEFINE c == trigger_base(a, i)
           k == a.IC[i].imc
           T == a.IC[i].ic_state \cup {"FOCUS", "CONNECT"}
           S == a.IMC[k].inp_state
<1>1. a \in Memory /\ i \in ICID /\ k \in ICID
  BY HasIMC DEF Sound
<1>2. c = Written(a, i, i, a.ic, i, S, T)
  <2>1. a.IMC[k] \in IMCRec /\ a.IC[i] \in ICRec
    BY <1>1 DEF Memory
  <2>2. [a.IMC[k] EXCEPT !.icid = i, !.inp_state = S] = [a.IMC[k] EXCEPT !.icid = i]
    BY <2>1 DEF IMCRec
  <2>3. c = [a EXCEPT !.icp = a.ic, !.ic = i,
                      !.IC[i].ic_state = @ \cup {"FOCUS", "CONNECT"},
                      !.IMC[k].icid = i]
    BY DEF trigger_base
  <2> HIDE DEF k, S, c
  <2> QED BY <1>1, <2>2, <2>3 DEF Memory, Written, k
<1>3. Sound(c) /\ i \in c.ic_list
  BY TriggerBase
<1>4. S = imc_of(a, i).inp_state /\ SameStatus(S, S)
  BY DEF imc_of, SameStatus
<1> HIDE DEF c, S, T
<1>5. Writes(a, c, i, S, T)
  BY <1>1, <1>2, <1>4, WriteLocal
<1>6. SameFlags(a.IC[i].ic_state, c.IC[i].ic_state, {"NEWIC"})
  BY <1>5 DEF T, Writes, SameFlags
<1> QED BY <1>3, <1>4, <1>5, <1>6, ReadyIdle DEF T, c, Writes

(***************************************************************************)
(* What a trigger key does once its IC is current and connected: the key   *)
(* is one that make_trigger_keys() registers, or nothing is claimed of the *)
(* connection.                                                             *)
(***************************************************************************)
OnCodes == {"ZHEN", "2BSB", "CIRIM", "CIRRIM", "QPHRASE", "IMN"}

Off(a, i) == ~is_on(a, i, "CINPUT") /\ ~is_on(a, i, "2BYTES")

Answers(c, b, i) ==
    /\ Ready(b) /\ Keyed(c, b, i)
    /\ FocusFits(imc_of(c, i).inp_state) => FocusFits(imc_of(b, i).inp_state)

LEMMA AnswersHangUp ==
    ASSUME NEW c, NEW b, NEW i \in ICID, Answers(c, b, i)
    PROVE  /\ Answers(c, xim_disconnect(b, i), i)
           /\ Off(b, i) => Told(xim_disconnect(b, i), i)
<1> DEFINE e == xim_disconnect(b, i)
<1>1. b \in Memory /\ Ready(b) /\ Keyed(c, b, i)
  BY DEF Answers, Keyed, Steady
<1>2. Keyed(b, e, i) /\ Idle(b, e) /\ imc_of(e, i) = imc_of(b, i)
  BY <1>1, ConnectKeyed
<1>3. "CONNECT" \notin e.IC[i].ic_state
  <2>1. b.IC[i] \in ICRec
    BY <1>1 DEF Memory
  <2> QED BY <1>1, <2>1 DEF xim_disconnect, Memory, ICRec
<1> HIDE DEF e
<1>4. Ready(e) /\ Keyed(c, e, i)
  BY <1>1, <1>2, KeyedTrans, ReadyIdle
<1>5. Answers(c, e, i)
  BY <1>2, <1>4 DEF Answers
<1>6. Off(b, i) => Told(e, i)
  BY <1>2, <1>3 DEF Off, Told, is_on
<1> QED BY <1>5, <1>6 DEF e

LEMMA TriggerIMIs ==
    ASSUME NEW c, Sound(c), Ready(c), NEW i \in c.ic_list, NEW n \in Inp,
           "CONNECT" \in c.IC[i].ic_state
    PROVE  /\ Answers(c, trigger_IM(c, i, n), i)
           /\ Off(c, i) => Told(trigger_IM(c, i, n), i)
<1> DEFINE d == change_IM(c, i, n)
<1>1. i \in ICID /\ Turns(c, d, i) /\ Switched(c, d, i, n)
  BY HasIMC, TurnsChange, ChangeSwitches
<1>2. Answers(c, d, i) /\ d.IC = c.IC
  BY <1>1, ActsTurns DEF Acts, Answers
<1>3. CASE change_IM_ok(c, n)
  <2>1. trigger_IM(c, i, n) = d
    BY <1>3 DEF trigger_IM
  <2>2. is_on(d, i, "CINPUT")
    BY <1>1, <1>3 DEF Switched, change_IM_ok, is_on, Chinese
  <2>3. Told(d, i)
    BY <1>2, <2>2 DEF Told
  <2> QED BY <1>2, <2>1, <2>3
<1>4. CASE ~change_IM_ok(c, n)
  <2>1. trigger_IM(c, i, n) = xim_disconnect(d, i)
    BY <1>4 DEF trigger_IM
  <2>2. Off(c, i) => Off(d, i)
    BY <1>1, <1>4 DEF Switched, change_IM_ok, is_on, Off
  <2> QED BY <1>1, <1>2, <2>1, <2>2, AnswersHangUp
<1> QED BY <1>3, <1>4

LEMMA TriggerCircleIs ==
    ASSUME NEW c, Sound(c), Ready(c), NEW i \in c.ic_list, NEW t \in {1, -1},
           "CONNECT" \in c.IC[i].ic_state,
           NEW b \in trigger_circle(c, i, t)
    PROVE  Answers(c, b, i) /\ (Off(c, i) => Told(b, i))
<1>1. PICK d \in circular_change_IM(c, i, t) :
        b = IF is_on(d, i, "CINPUT") THEN d ELSE xim_disconnect(d, i)
  BY DEF trigger_circle
<1>2. i \in ICID /\ Turns(c, d, i)
  BY HasIMC, TurnsCircle
<1>3. Answers(c, d, i) /\ d.IC = c.IC
  BY <1>2, ActsTurns DEF Acts, Answers
<1>4. CASE is_on(d, i, "CINPUT")
  BY <1>1, <1>3, <1>4 DEF Told
<1>5. CASE ~is_on(d, i, "CINPUT")
  <2>1. Off(c, i) => Off(d, i)
    BY <1>2, <1>5 DEF Turns, Turned, Off, is_on, Unset, Chinese
  <2> QED BY <1>1, <1>2, <1>3, <1>5, <2>1, AnswersHangUp
<1> QED BY <1>4, <1>5

LEMMA TriggerIs ==
    ASSUME NEW a, Sound(a), Ready(a), NEW i \in a.ic_list, NEW key \in FKey,
           NEW b \in trigger(a, i, key)
    PROVE  /\ Ready(b) /\ Local(a, b, i)
           /\ "FOCUS" \in b.IC[i].ic_state
           /\ SameFlags(a.IC[i].ic_state, b.IC[i].ic_state, {"NEWIC"})
           /\ FocusFits(imc_of(a, i).inp_state) => FocusFits(imc_of(b, i).inp_state)
           /\ key[1] \in OnCodes /\ Off(a, i) => Told(b, i)
<1> DEFINE c == trigger_base(a, i)
<1>1. /\ Sound(c) /\ Ready(c) /\ Local(a, c, i) /\ i \in c.ic_list
      /\ {"FOCUS", "CONNECT"} \subseteq c.IC[i].ic_state
      /\ SameFlags(a.IC[i].ic_state, c.IC[i].ic_state, {"NEWIC"})
      /\ imc_of(c, i).inp_state = imc_of(a, i).inp_state
  BY TriggerBaseIs
<1>2. b \in CASE key[1] = "ZHEN"    -> {trigger_IM(c, i, imc_of(c, i).inp_num)}
              [] key[1] = "2BSB"    -> {enter_2bytes(c, c.IC[i].imc)}
              [] key[1] = "CIRIM"   -> trigger_circle(c, i, 1)
              [] key[1] = "CIRRIM"  -> trigger_circle(c, i, -1)
              [] key[1] = "IMN"     -> {trigger_IM(c, i, key[2])}
              [] key[1] = "QPHRASE" -> {xim_disconnect(c, i)}
              [] OTHER              -> {c}
  BY DEF trigger
<1> HIDE DEF c
<1>3. /\ c \in Memory /\ i \in ICID /\ c.IC[i].imc \in ICID
      /\ imc_of(c, i).inp_num \in Inp /\ imc_of(c, i) \in IMCRec
      /\ imc_of(c, i).inp_state \in SUBSET InpState
  <2>1. c \in Memory /\ i \in ICID /\ c.IC[i].imc \in ICID
    BY <1>1, HasIMC DEF Sound
  <2> QED BY <2>1 DEF imc_of, Memory, IMCRec
<1>4. Off(c, i) <=> Off(a, i)
  BY <1>1 DEF Off, is_on
<1>5. Answers(c, c, i)
  BY <1>1, <1>3, KeyedStutter DEF Answers
<1>6. Answers(c, b, i) /\ (key[1] \in OnCodes /\ Off(c, i) => Told(b, i))
  <2>1. CASE key[1] = "ZHEN"
    BY <1>1, <1>2, <1>3, <2>1, TriggerIMIs
  <2>2. CASE key[1] = "2BSB"
    <3>1. b = enter_2bytes(c, c.IC[i].imc)
      BY <1>2, <2>2
    <3>2. Acts(c, b, i)
      BY <1>1, <3>1, ActsWide
    <3>3. is_on(b, i, "2BYTES")
      BY <1>3, <3>1 DEF enter_2bytes, Memory, IMCRec, is_on, imc_of
    <3> QED BY <1>1, <3>2, <3>3 DEF Acts, Answers, Told
  <2>3. CASE key[1] = "CIRIM"
    BY <1>1, <1>2, <2>3, TriggerCircleIs
  <2>4. CASE key[1] = "CIRRIM"
    BY <1>1, <1>2, <2>4, TriggerCircleIs
  <2>5. CASE key[1] = "IMN"
    <3>1. key[2] \in Inp
      BY <2>5 DEF FKey, Plain
    <3> QED BY <1>1, <1>2, <2>5, <3>1, TriggerIMIs
  <2>6. CASE key[1] = "QPHRASE"
    BY <1>2, <1>3, <1>5, <2>6, AnswersHangUp
  <2>7. CASE key[1] \notin OnCodes
    BY <1>2, <1>5, <2>7 DEF OnCodes
  <2> QED BY <2>1, <2>2, <2>3, <2>4, <2>5, <2>6, <2>7 DEF OnCodes
<1>7. Ready(b) /\ Local(c, b, i)
      /\ ("FOCUS" \in b.IC[i].ic_state <=> "FOCUS" \in c.IC[i].ic_state)
  BY <1>3, <1>6, LocalKeyed DEF Answers, Keyed, SameFlags
<1>8. Local(a, b, i)
  BY <1>1, <1>3, <1>7, LocalTrans
<1>9. SameFlags(a.IC[i].ic_state, b.IC[i].ic_state, {"NEWIC"})
  BY <1>1, <1>6 DEF Answers, Keyed, SameFlags
<1> QED BY <1>1, <1>4, <1>6, <1>7, <1>8, <1>9 DEF Answers

-----------------------------------------------------------------------------
(***************************************************************************)
(* XIM_SET_IC_FOCUS and XIM_UNSET_IC_FOCUS.                                *)
(***************************************************************************)
\* The IC i is connected and in the focused input method of a.
Welcome(a, b, i) == /\ "CONNECT" \in b.IC[i].ic_state
                    /\ is_on(b, i, "CINPUT")
                    /\ imc_of(b, i).imodp = a.im_focus

Focuses(a, b, i) ==
    /\ Sound(b) /\ Ready(b) /\ Local(a, b, i)
    /\ "FOCUS" \in b.IC[i].ic_state <=> "FOCUS" \in a.IC[i].ic_state
    /\ FocusFits(imc_of(a, i).inp_state) => FocusFits(imc_of(b, i).inp_state)
    /\ "RUN_2B_FOCUS" \notin a.mode /\ Told(a, i) => Told(b, i)
    /\ "RUN_IM_FOCUS" \in a.mode => Welcome(a, b, i)
    /\ SameFlags(a.mode, b.mode, Steering)
    /\ is_on(b, i, "2BYTES") <=> is_on(a, i, "2BYTES")

LEMMA FocusNewIs ==
    ASSUME NEW a, Sound(a), Ready(a), NEW i \in a.ic_list
    PROVE  Focuses(a, focus_new(a, i), i)
<1> DEFINE run == a.mode \cap {"RUN_IM_FOCUS", "RUN_2B_FOCUS"}
           b == IF run # {} THEN xim_connect(a, i) ELSE a
           c == IF "RUN_IM_FOCUS" \in run THEN change_IM(b, i, a.im_focus) ELSE b
           S == c.IC[i].ic_state \ {"NEWIC"}
           e == focus_new(a, i)
<1>1. a \in Memory /\ i \in ICID /\ a.im_focus \in Inp /\ a.IC[i].imc \in ICID
  BY HasIMC DEF Sound, Memory
<1>2. /\ Keyed(a, b, i) /\ Ready(b) /\ imc_of(b, i) = imc_of(a, i)
      /\ b.mode = a.mode /\ b.ic_list = a.ic_list
      /\ run # {} => "CONNECT" \in b.IC[i].ic_state
      /\ run = {} => b = a
      /\ b.im_focus = a.im_focus /\ b.cinput = a.cinput
  <2>1. CASE run # {}
    <3>1. b = xim_connect(a, i)
      BY <2>1
    <3> HIDE DEF b
    <3>2. /\ Keyed(a, b, i) /\ Idle(a, b) /\ imc_of(b, i) = imc_of(a, i)
          /\ b.mode = a.mode /\ b.ic_list = a.ic_list
          /\ "CONNECT" \in b.IC[i].ic_state
      BY <1>1, <3>1, ConnectKeyed
    <3> QED BY <2>1, <3>2, ReadyIdle DEF Idle
  <2>2. CASE run = {}
    BY <1>1, <2>2, KeyedStutter
  <2> QED BY <2>1, <2>2
<1> HIDE DEF b
<1>3. Sound(b)
  BY <1>2, SteadySound DEF Keyed
<1>4. /\ Acts(b, c, i)
      /\ "RUN_IM_FOCUS" \in run => /\ is_on(c, i, "CINPUT")
                                   /\ imc_of(c, i).imodp = a.im_focus
      /\ "RUN_IM_FOCUS" \notin run => c = b
      /\ SameFlags(b.mode, c.mode, Steering)
      /\ is_on(c, i, "2BYTES") <=> is_on(b, i, "2BYTES")
  <2>1. CASE "RUN_IM_FOCUS" \in run
    <3>1. c = change_IM(b, i, a.im_focus)
      BY <2>1
    <3> HIDE DEF c, run
    <3>2. Turns(b, c, i) /\ Switched(b, c, i, a.im_focus)
      BY <1>1, <1>2, <1>3, <3>1, TurnsChange, ChangeSwitches
    <3>3. can_bind(b, a.im_focus)
      BY <1>2 DEF Ready, Table, Live, can_bind
    <3>4. Acts(b, c, i)
      BY <3>2, ActsTurns
    <3>5. is_on(c, i, "CINPUT") /\ imc_of(c, i).imodp = a.im_focus
      BY <1>1, <3>2, <3>3 DEF Switched, is_on, Chinese
    <3>6. is_on(c, i, "2BYTES") <=> is_on(b, i, "2BYTES")
      BY <3>2 DEF Turns, Turned, is_on, Unset, Chinese
    <3> QED BY <2>1, <3>2, <3>4, <3>5, <3>6 DEF Turns
  <2>2. CASE "RUN_IM_FOCUS" \notin run
    <3>1. c = b
      BY <2>2
    <3>2. Keyed(b, b, i)
      BY <1>1, <1>3, KeyedStutter DEF Sound
    <3> QED BY <1>2, <2>2, <3>1, <3>2 DEF Acts, SameFlags
  <2> QED BY <2>1, <2>2
<1>5. e = [c EXCEPT !.IC[i].ic_state = S]
  <2>1. e = [c EXCEPT !.IC[i].ic_state = @ \ {"NEWIC"}]
    BY DEF focus_new, b
  <2>2. c \in Memory
    BY <1>4 DEF Acts, Keyed, Steady
  <2> HIDE DEF c, e
  <2> QED BY <2>1, <2>2 DEF Memory
<1> HIDE DEF c, S
<1>6. Keyed(a, c, i) /\ Ready(c) /\ c \in Memory
  <2>1. Ready(c) /\ Keyed(b, c, i)
    BY <1>4 DEF Acts
  <2>2. c \in Memory
    BY <2>1 DEF Keyed, Steady
  <2> QED BY <1>1, <1>2, <2>1, <2>2, KeyedTrans
<1>7. ICStateSet(c, e, i, S)
  BY <1>1, <1>5, <1>6, ICStateIs
<1> HIDE DEF e
<1>8. Ready(e)
  BY <1>6, <1>7, ReadyIdle DEF ICStateSet
<1>9. Sound(e)
  BY <1>1, FocusNew, SteadySound DEF e
<1>10. imc_of(e, i) = imc_of(c, i) /\ e.mode = c.mode
  BY <1>7 DEF ICStateSet, imc_of
<1>11. Local(a, e, i)
  <2>1. Local(a, c, i)
    BY <1>1, <1>6, LocalKeyed
  <2>2. Local(c, e, i)
    BY <1>7 DEF ICStateSet, Local, SameSpot, SameFlags
  <2> QED BY <1>1, <2>1, <2>2, LocalTrans
<1>12. /\ "FOCUS" \in e.IC[i].ic_state <=> "FOCUS" \in c.IC[i].ic_state
       /\ "CONNECT" \in e.IC[i].ic_state <=> "CONNECT" \in c.IC[i].ic_state
  BY <1>7 DEF ICStateSet, S
<1>13. "FOCUS" \in c.IC[i].ic_state <=> "FOCUS" \in a.IC[i].ic_state
  BY <1>6 DEF Keyed, SameFlags
<1>14. c.IC = b.IC
  BY <1>4 DEF Acts
<1>15. "RUN_IM_FOCUS" \in a.mode => Welcome(a, e, i)
  BY <1>2, <1>4, <1>10, <1>12, <1>14 DEF Welcome, is_on
<1>16. "RUN_2B_FOCUS" \notin a.mode /\ Told(a, i) => Told(e, i)
  <2>1. CASE "RUN_IM_FOCUS" \in a.mode
    BY <1>15, <2>1 DEF Welcome, Told
  <2>2. CASE "RUN_IM_FOCUS" \notin a.mode /\ "RUN_2B_FOCUS" \notin a.mode
    BY <1>2, <1>4, <1>10, <1>12, <2>2 DEF Told, is_on
  <2> QED BY <2>1, <2>2
<1>17. FocusFits(imc_of(a, i).inp_state) => FocusFits(imc_of(e, i).inp_state)
  BY <1>2, <1>4, <1>10 DEF Acts
<1>18. SameFlags(a.mode, e.mode, Steering)
  BY <1>2, <1>4, <1>10
<1>19. is_on(e, i, "2BYTES") <=> is_on(a, i, "2BYTES")
  BY <1>2, <1>4, <1>10 DEF is_on
<1> QED BY <1>8, <1>9, <1>11, <1>12, <1>13, <1>15, <1>16, <1>17, <1>18, <1>19
        DEF Focuses, e

\* Under a shared IMC the connection follows the mode of the IMC.
LEMMA FocusSharedIs ==
    ASSUME SingleIMC, NEW a, Sound(a), Ready(a), NEW i \in a.ic_list
    PROVE  LET b == focus_shared(a, i)
           IN  /\ Ready(b) /\ Local(a, b, i) /\ Told(b, i)
               /\ SameFlags(a.IC[i].ic_state, b.IC[i].ic_state, {"NEWIC", "FOCUS"})
               /\ imc_of(b, i).inp_state = imc_of(a, i).inp_state
               /\ imc_of(b, i).imodp = imc_of(a, i).imodp
               /\ b.mode = a.mode
<1> DEFINE b == focus_shared(a, i)
           c == IF is_on(a, i, "CINPUT") \/ is_on(a, i, "2BYTES")
                THEN xim_connect(a, i) ELSE xim_disconnect(a, i)
           k == c.IC[i].imc
           y == [c.IMC[k] EXCEPT !.ic_rec = i]
<1>1. a \in Memory /\ i \in ICID /\ a.IC[i].imc \in ICID
  BY HasIMC DEF Sound
<1>2. /\ Keyed(a, c, i) /\ Idle(a, c) /\ imc_of(c, i) = imc_of(a, i)
      /\ c.mode = a.mode
  BY <1>1, ConnectKeyed
<1>3. Told(c, i)
  <2>1. a.IC[i] \in ICRec
    BY <1>1 DEF Memory
  <2>2. "CONNECT" \in c.IC[i].ic_state
        <=> is_on(a, i, "CINPUT") \/ is_on(a, i, "2BYTES")
    BY <1>1, <2>1 DEF xim_connect, xim_disconnect, Memory, ICRec
  <2> HIDE DEF c
  <2> QED BY <1>2, <2>2 DEF Told, is_on
<1>4. b = [c EXCEPT !.IMC[k].ic_rec = i]
  BY DEF focus_shared
<1> HIDE DEF c, b
<1>5. c \in Memory /\ k = a.IC[i].imc /\ k \in ICID
  BY <1>1, <1>2 DEF Keyed, Steady
<1> HIDE DEF k
<1>6. /\ c.IMC[k] \in IMCRec /\ c.IMC \in [ICID -> IMCRec]
      /\ y.inp_state = c.IMC[k].inp_state /\ y.imodp = c.IMC[k].imodp
      /\ SameBinding(c.IMC[k], y)
  <2>1. c.IMC[k] \in IMCRec /\ c.IMC \in [ICID -> IMCRec]
    BY <1>5 DEF Memory
  <2> QED BY <2>1 DEF IMCRec, SameBinding
<1>7. b = [c EXCEPT !.IMC[k] = y]
  BY <1>4, <1>5 DEF Memory
<1> HIDE DEF y
<1>8. /\ b.cinput = c.cinput /\ b.default_im = c.default_im
      /\ b.default_im_sinmd = c.default_im_sinmd
      /\ b.im_focus = c.im_focus /\ b.first_call = c.first_call
      /\ b.mode = c.mode /\ b.imc_list = c.imc_list /\ b.ic_list = c.ic_list
      /\ b.IC = c.IC /\ b.IMC = [c.IMC EXCEPT ![k] = y]
  BY <1>5, <1>7 DEF Memory
<1>9. Idle(c, b)
  BY <1>5, <1>6, <1>8, IdleIMC DEF SameFlags
<1>10. Ready(b)
  BY <1>2, <1>9, ReadyIdle
<1>11. b.IMC[k] = y /\ \A l \in ICID : l # k => b.IMC[l] = c.IMC[l]
  BY <1>5, <1>6, <1>8
<1>12. Local(c, b, i)
  <2>1. c.IC[i].imc = k
    BY <1>1, <1>2, <1>5 DEF Keyed, Steady
  <2> QED BY <1>8, <1>11, <2>1 DEF Local, SameOwner, SameFlags
<1>13. Local(a, b, i)
  <2>1. Local(a, c, i)
    BY <1>1, <1>2, LocalKeyed
  <2> QED BY <1>1, <1>12, <2>1, LocalTrans
<1>14. imc_of(b, i) = y /\ imc_of(c, i) = c.IMC[k]
  BY <1>1, <1>2, <1>5, <1>8, <1>11 DEF imc_of, Keyed, Steady
<1>15. Told(b, i)
  BY <1>3, <1>6, <1>8, <1>14 DEF Told, is_on
<1>16. SameFlags(a.IC[i].ic_state, b.IC[i].ic_state, {"NEWIC", "FOCUS"})
  BY <1>2, <1>8 DEF Keyed
<1> QED BY <1>2, <1>6, <1>8, <1>10, <1>13, <1>14, <1>15, <1>16 DEF b

LEMMA WriteSound ==
    ASSUME NEW a, Sound(a), NEW i \in a.ic_list,
           NEW p, NEW q, {p, q} \subseteq {a.ic, a.icp, i},
           NEW g, g \in {i, imc_of(a, i).icid},
           NEW S \in SUBSET InpState, NEW T \in SUBSET ICState
    PROVE  /\ Sound(Written(a, i, p, q, g, S, T))
           /\ Written(a, i, p, q, g, S, T).ic_list = a.ic_list
<1> DEFINE b == Written(a, i, p, q, g, S, T)
           k == a.IC[i].imc
           x == [a.IC[i] EXCEPT !.ic_state = T]
           y == [a.IMC[k] EXCEPT !.icid = g, !.inp_state = S]
<1>1. /\ a \in Memory /\ i \in ICID /\ k \in ICID
      /\ a.ic \in ICID \cup {NULL} /\ a.icp \in ICID \cup {NULL}
  BY HasIMC DEF Sound, Memory
<1>2. a.IMC[k] \in IMCRec /\ a.IC[i] \in ICRec
  BY <1>1 DEF Memory
<1>3. imc_of(a, i) = a.IMC[k]
  BY DEF imc_of
<1>4. g \in ICID \cup {NULL}
  BY <1>1, <1>2, <1>3 DEF IMCRec
<1>5. y \in IMCRec /\ y.icid \in {i, a.IMC[k].icid}
  BY <1>2, <1>3, <1>4 DEF IMCRec
<1>6. x \in ICRec /\ x.imc = k
  BY <1>2 DEF ICRec
<1>7. p \in ICID \cup {NULL} /\ q \in ICID \cup {NULL}
  BY <1>1
<1> HIDE DEF x, y, b
<1>8. b = [a EXCEPT !.ic = p, !.icp = q, !.IC[i] = x, !.IMC[k] = y]
  BY DEF b, Written, x, y
<1> HIDE DEF k
<1>9. b \in Memory
  BY <1>1, <1>5, <1>6, <1>7, <1>8, Zenon DEF Memory
<1>10. /\ b.IC = [a.IC EXCEPT ![i] = x] /\ b.IMC = [a.IMC EXCEPT ![k] = y]
       /\ b.ic = p /\ b.icp = q /\ b.icid = a.icid
       /\ b.ic_list = a.ic_list /\ b.imc_list = a.imc_list
  BY <1>1, <1>8 DEF Memory
<1>11. Sound(b)
  BY <1>5, <1>6, <1>9, <1>10, Attach DEF k
<1> QED BY <1>10, <1>11 DEF b

(***************************************************************************)
(* What XIM_SET_IC_FOCUS does to an IC that does not have the focus.       *)
(***************************************************************************)
SetsFocus(a, b, i) ==
    /\ Ready(b) /\ Local(a, b, i)
    /\ "FOCUS" \in b.IC[i].ic_state
    /\ SingleIMC \/ FocusFits(imc_of(b, i).inp_state)
    /\ SingleIMC \/ ("RUN_2B_FOCUS" \notin a.mode /\ Told(a, i) => Told(b, i))
    /\ "NEWIC" \in a.IC[i].ic_state /\ "RUN_IM_FOCUS" \in a.mode
       => Welcome(a, b, i)
    /\ SameFlags(a.mode, b.mode, Steering)
    /\ is_on(b, i, "2BYTES") <=> is_on(a, i, "2BYTES")

LEMMA SetFocusIs ==
    ASSUME NEW a, Sound(a), Ready(a), NEW i \in a.ic_list,
           "FOCUS" \notin a.IC[i].ic_state
    PROVE  SetsFocus(a, set_focus(a, i), i)
<1> DEFINE k == a.IC[i].imc
           S == IF "CINPUT" \in a.IMC[k].inp_state
                THEN a.IMC[k].inp_state \cup {"XIMFOCUS"} ELSE a.IMC[k].inp_state
           T == a.IC[i].ic_state \cup {"FOCUS"}
           c == Written(a, i, i, a.icp, i, S, T)
           d == IF "NEWIC" \in a.IC[i].ic_state THEN focus_new(c, i) ELSE c
           b == set_focus(a, i)
<1>1. a \in Memory /\ i \in ICID /\ k \in ICID /\ k \in a.imc_list
  BY HasIMC DEF Sound
<1>2. a.IMC[k] \in IMCRec /\ a.IC[i] \in ICRec
  BY <1>1 DEF Memory
<1>3. b = IF SingleIMC THEN focus_shared(d, i) ELSE d
  <2> DEFINE z == [a.IMC[k] EXCEPT !.icid = i,
                                   !.inp_state = IF "CINPUT" \in @
                                                 THEN @ \cup {"XIMFOCUS"} ELSE @]
             y == [a.IMC[k] EXCEPT !.icid = i, !.inp_state = S]
  <2>1. z = y
    BY <1>2 DEF IMCRec
  <2>2. [a EXCEPT !.IMC[k] = y, !.IC[i].ic_state = @ \cup {"FOCUS"}, !.ic = i] = c
    <3> HIDE DEF S
    <3> QED BY <1>1, <1>2 DEF Memory, Written
  <2>3. set_focus(a, i)
          = LET e == [a EXCEPT !.IMC[k] = z,
                               !.IC[i].ic_state = @ \cup {"FOCUS"}, !.ic = i]
                f == IF "NEWIC" \in a.IC[i].ic_state THEN focus_new(e, i) ELSE e
            IN  IF "FOCUS" \in a.IC[i].ic_state THEN a
                ELSE IF SingleIMC THEN focus_shared(f, i) ELSE f
    BY DEF set_focus
  <2> HIDE DEF z, y, c
  <2> QED BY <2>1, <2>2, <2>3
<1>4. S \in SUBSET InpState /\ T \in SUBSET ICState
  BY <1>2 DEF IMCRec, ICRec, InpState, ICState
<1>5. Sound(c) /\ c.ic_list = a.ic_list
  <2> HIDE DEF S, T, c
  <2>1. {i, a.icp} \subseteq {a.ic, a.icp, i} /\ i \in {i, imc_of(a, i).icid}
    OBVIOUS
  <2>2. /\ Sound(Written(a, i, i, a.icp, i, S, T))
        /\ Written(a, i, i, a.icp, i, S, T).ic_list = a.ic_list
    BY <1>4, <2>1, WriteSound
  <2> QED BY <2>2 DEF c
<1>6. Fits(a, a.IMC[k]) /\ imc_of(a, i) = a.IMC[k]
  BY <1>1 DEF Ready, imc_of
<1>7. /\ SameStatus(a.IMC[k].inp_state, S) /\ FocusFits(S)
      /\ "2BYTES" \in S <=> "2BYTES" \in a.IMC[k].inp_state
  BY <1>6 DEF Fits, SameStatus, FlagsFit, FocusFits
<1>8. Writes(a, c, i, S, T)
  BY <1>1, <1>6, <1>7, WriteLocal
<1>9. /\ "FOCUS" \in T
      /\ "CONNECT" \in T <=> "CONNECT" \in a.IC[i].ic_state
  OBVIOUS
<1> HIDE DEF b, c, S, T
<1>10. /\ Local(a, c, i) /\ Ready(c) /\ c.mode = a.mode
       /\ c.im_focus = a.im_focus
       /\ "FOCUS" \in c.IC[i].ic_state
       /\ imc_of(c, i).inp_state = S
       /\ Told(a, i) => Told(c, i)
  <2>1. /\ Local(a, c, i) /\ Ready(c) /\ c.mode = a.mode /\ c.IC[i].ic_state = T
        /\ imc_of(c, i).inp_state = S /\ c.im_focus = a.im_focus
    BY <1>8, ReadyIdle DEF Writes
  <2>2. "CINPUT" \in S <=> "CINPUT" \in a.IMC[k].inp_state
    BY <1>7 DEF SameStatus
  <2> QED BY <1>6, <1>7, <1>9, <2>1, <2>2 DEF Told, is_on
<1>11. /\ Sound(d) /\ Ready(d) /\ Local(c, d, i)
       /\ "FOCUS" \in d.IC[i].ic_state
       /\ FocusFits(imc_of(d, i).inp_state)
       /\ "RUN_2B_FOCUS" \notin a.mode /\ Told(a, i) => Told(d, i)
       /\ "NEWIC" \in a.IC[i].ic_state /\ "RUN_IM_FOCUS" \in a.mode
          => Welcome(a, d, i)
       /\ SameFlags(a.mode, d.mode, Steering)
       /\ is_on(d, i, "2BYTES") <=> is_on(a, i, "2BYTES")
  <2>1. CASE "NEWIC" \in a.IC[i].ic_state
    <3>1. d = focus_new(c, i)
      BY <2>1
    <3> HIDE DEF d
    <3>2. Focuses(c, d, i)
      BY <1>5, <1>10, <3>1, FocusNewIs
    <3>3. "RUN_IM_FOCUS" \in a.mode => Welcome(a, d, i)
      BY <1>10, <3>2 DEF Focuses, Welcome
    <3>4. is_on(d, i, "2BYTES") <=> is_on(a, i, "2BYTES")
      BY <1>6, <1>7, <1>10, <3>2 DEF Focuses, is_on
    <3> QED BY <1>7, <1>10, <3>2, <3>3, <3>4 DEF Focuses
  <2>2. CASE "NEWIC" \notin a.IC[i].ic_state
    <3>1. d = c
      BY <2>2
    <3>2. Local(c, c, i)
      BY LocalStutter
    <3> QED BY <1>5, <1>6, <1>7, <1>10, <2>2, <3>1, <3>2 DEF is_on, SameFlags
  <2> QED BY <2>1, <2>2
<1> HIDE DEF d
<1>12. Local(a, d, i)
  BY <1>1, <1>10, <1>11, LocalTrans
<1>13. CASE ~SingleIMC
  BY <1>3, <1>11, <1>12, <1>13 DEF SetsFocus, b
<1>14. CASE SingleIMC
  <2>1. b = focus_shared(d, i)
    BY <1>3, <1>14
  <2>2. i \in d.ic_list
    BY <1>12 DEF Local
  <2>3. /\ Ready(b) /\ Local(d, b, i) /\ Told(b, i)
        /\ SameFlags(d.IC[i].ic_state, b.IC[i].ic_state, {"NEWIC", "FOCUS"})
        /\ imc_of(b, i).inp_state = imc_of(d, i).inp_state
        /\ imc_of(b, i).imodp = imc_of(d, i).imodp
        /\ b.mode = d.mode
    BY <1>11, <1>14, <2>1, <2>2, FocusSharedIs
  <2>4. Local(a, b, i)
    BY <1>1, <1>12, <2>3, LocalTrans
  <2>5. "FOCUS" \in b.IC[i].ic_state
    BY <1>11, <2>3 DEF SameFlags
  <2>6. Welcome(a, d, i) => Welcome(a, b, i)
    BY <2>3 DEF Welcome, Told, is_on
  <2>7. is_on(b, i, "2BYTES") <=> is_on(a, i, "2BYTES")
    BY <1>11, <2>3 DEF is_on
  <2> QED BY <1>11, <1>14, <2>3, <2>4, <2>5, <2>6, <2>7 DEF SetsFocus, b
<1> QED BY <1>13, <1>14

(***************************************************************************)
(* What XIM_UNSET_IC_FOCUS does.                                           *)
(***************************************************************************)
UnsetsFocus(a, b, i) ==
    /\ Ready(b) /\ Local(a, b, i) /\ b.mode = a.mode
    /\ SameFlags(a.IC[i].ic_state, b.IC[i].ic_state, {"NEWIC", "CONNECT"})
    /\ SameFlags(imc_of(a, i).inp_state, imc_of(b, i).inp_state,
                 {"CINPUT", "2BYTES"})
    /\ Lit(a, i) /\ ~SingleIMC => Lit(b, i)

LEMMA UnsetFocusIs ==
    ASSUME NEW a, Sound(a), Ready(a), NEW i \in a.ic_list
    PROVE  UnsetsFocus(a, unset_focus(a, i), i)
<1> DEFINE k == a.IC[i].imc
           old == a.IMC[k].inp_state
           S == IF SingleIMC THEN old ELSE old \ lost_focus(old)
           T == a.IC[i].ic_state \ {"FOCUS"}
           g == a.IMC[k].icid
           b == Written(a, i, a.ic, i, g, S, T)
<1>1. a \in Memory /\ i \in ICID /\ k \in ICID /\ k \in a.imc_list
  BY HasIMC DEF Sound
<1>2. a.IMC[k] \in IMCRec /\ a.IC[i] \in ICRec
  BY <1>1 DEF Memory
<1>3. CASE "FOCUS" \notin a.IC[i].ic_state
  <2>1. unset_focus(a, i) = a
    BY <1>3 DEF unset_focus
  <2> QED BY <2>1, LocalStutter DEF UnsetsFocus, SameFlags
<1>4. CASE "FOCUS" \in a.IC[i].ic_state
  <2>1. unset_focus(a, i) = b
    <3> DEFINE y == [a.IMC[k] EXCEPT !.inp_state = S]
               z == [a.IMC[k] EXCEPT !.icid = g, !.inp_state = S]
    <3>1. y = z
      BY <1>2 DEF IMCRec
    <3>2. unset_focus(a, i) = [a EXCEPT !.IMC[k] = y, !.icp = i,
                                        !.IC[i].ic_state = @ \ {"FOCUS"}]
      BY <1>1, <1>4 DEF unset_focus, Memory
    <3> HIDE DEF y, S, g
    <3>3. b = [a EXCEPT !.ic = a.ic, !.icp = i,
                        !.IC[i] = [a.IC[i] EXCEPT !.ic_state = T], !.IMC[k] = z]
      BY DEF Written
    <3> HIDE DEF z, b
    <3> QED BY <1>1, <3>1, <3>2, <3>3 DEF Memory
  <2>2. imc_of(a, i).inp_state = old /\ Fits(a, a.IMC[k])
    BY <1>1 DEF Ready, imc_of
  <2>3. /\ SameStatus(old, S) /\ SameFlags(old, S, {"CINPUT", "2BYTES"})
        /\ ~SingleIMC => "XIMFOCUS" \notin S
    BY <2>2 DEF Fits, SameStatus, FlagsFit, lost_focus, SameFlags
  <2>4. Writes(a, b, i, S, T)
    BY <1>1, <2>2, <2>3, WriteLocal
  <2>5. /\ SameFlags(a.IC[i].ic_state, T, {"NEWIC", "CONNECT"})
        /\ "FOCUS" \notin T
    BY DEF SameFlags
  <2> HIDE DEF b, S, T, old
  <2>6. Ready(b) /\ Local(a, b, i) /\ b.mode = a.mode
    BY <2>4, ReadyIdle DEF Writes
  <2>7. ~SingleIMC => Lit(b, i)
    BY <2>3, <2>4, <2>5 DEF Lit, Writes, is_on
  <2> QED BY <2>1, <2>2, <2>3, <2>4, <2>5, <2>6, <2>7 DEF UnsetsFocus, Writes
<1> QED BY <1>3, <1>4

-----------------------------------------------------------------------------
(***************************************************************************)
(* The steps that are not about the input modes: attributes, deletion,     *)
(* the sweep, the candidate window, the clock and the end of the server.   *)
(***************************************************************************)
SpotFits(a, k) == a.IMC[k].overspot_win => a.IMC[k].ic_rec = k

Calm(a, b) ==
    /\ Idle(a, b) /\ b.ic_list \subseteq a.ic_list
    /\ SameFlags(a.mode, b.mode, {"IM_FOCUS", "RUN_IM_FOCUS", "RUN_2B_FOCUS"})
    /\ "RUN_EXIT" \in a.mode => "RUN_EXIT" \in b.mode
    /\ \A i \in b.ic_list :
          /\ b.IC[i].imc = a.IC[i].imc
          /\ SameFlags(a.IC[i].ic_state, b.IC[i].ic_state,
                       IF "RUN_EXIT" \in b.mode THEN {"NEWIC", "FOCUS"}
                                                ELSE ICState)
    /\ \A k \in b.imc_list :
          /\ b.IMC[k].inp_state = a.IMC[k].inp_state
          /\ ~SingleIMC => (SpotFits(a, k) => SpotFits(b, k))

\* A step that writes only IC records, and keeps what matters of them.
LEMMA CalmICs ==
    ASSUME NEW a \in Memory, NEW b,
           b.cinput = a.cinput, b.default_im = a.default_im,
           b.default_im_sinmd = a.default_im_sinmd,
           b.im_focus = a.im_focus, b.first_call = a.first_call,
           b.mode = a.mode, b.imc_list = a.imc_list, b.IMC = a.IMC,
           b.ic_list = a.ic_list,
           \A i \in ICID : /\ b.IC[i].imc = a.IC[i].imc
                           /\ b.IC[i].ic_state = a.IC[i].ic_state
    PROVE  Calm(a, b)
<1>1. a.ic_list \subseteq ICID
  BY DEF Memory
<1>2. Idle(a, b)
  BY IdleNoIMC DEF SameFlags
<1> QED BY <1>1, <1>2 DEF Calm, SameFlags, SpotFits

LEMMA CalmValues ==
    ASSUME NEW a \in Memory, NEW i \in ICID, NEW v
    PROVE  Calm(a, ic_set_values(a, i, v))
<1> DEFINE b == ic_set_values(a, i, v)
           x == set_values(a.IC[i], v)
<1>1. a.IC[i] \in ICRec /\ a.IC \in [ICID -> ICRec]
  BY DEF Memory
<1>2. x.imc = a.IC[i].imc /\ x.ic_state = a.IC[i].ic_state
  BY <1>1 DEF set_values, ICRec
<1>3. b = [a EXCEPT !.IC[i] = x]
  BY DEF ic_set_values, Memory
<1> HIDE DEF x, b
<1>4. /\ b.cinput = a.cinput /\ b.default_im = a.default_im
      /\ b.default_im_sinmd = a.default_im_sinmd
      /\ b.im_focus = a.im_focus /\ b.first_call = a.first_call
      /\ b.mode = a.mode /\ b.imc_list = a.imc_list /\ b.IMC = a.IMC
      /\ b.ic_list = a.ic_list /\ b.IC = [a.IC EXCEPT ![i] = x]
  BY <1>3 DEF Memory
<1>5. \A j \in ICID : /\ b.IC[j].imc = a.IC[j].imc
                      /\ b.IC[j].ic_state = a.IC[j].ic_state
  BY <1>1, <1>2, <1>4
<1> QED BY <1>4, <1>5, CalmICs DEF b

LEMMA CalmTick ==
    ASSUME NEW a \in Memory
    PROVE  Calm(a, tick(a))
<1> DEFINE f == [i \in ICID |-> IF i \in a.ic_list THEN older(a.IC[i]) ELSE a.IC[i]]
           t == IF a.check_age > TIMECHECK_STEP THEN a.check_age ELSE a.check_age + 1
           b == tick(a)
<1>1. \A i \in ICID : f[i].imc = a.IC[i].imc /\ f[i].ic_state = a.IC[i].ic_state
  <2>1. \A rec \in ICRec : /\ older(rec).imc = rec.imc
                           /\ older(rec).ic_state = rec.ic_state
    BY DEF older, ICRec
  <2> QED BY <2>1 DEF Memory
<1>2. b = [a EXCEPT !.check_age = t, !.IC = f]
  BY DEF tick, Memory
<1> HIDE DEF t, f, b
<1>3. /\ b.cinput = a.cinput /\ b.default_im = a.default_im
      /\ b.default_im_sinmd = a.default_im_sinmd
      /\ b.im_focus = a.im_focus /\ b.first_call = a.first_call
      /\ b.mode = a.mode /\ b.imc_list = a.imc_list /\ b.IMC = a.IMC
      /\ b.ic_list = a.ic_list /\ b.IC = f
  BY <1>2 DEF Memory
<1> QED BY <1>1, <1>3, CalmICs DEF b

\* A step that writes only flags of xcin_mode.
LEMMA CalmMode ==
    ASSUME NEW a \in Memory, NEW S, NEW b, b = [a EXCEPT !.mode = S],
           SameFlags(a.mode, S, {"SHOW_CINPUT", "IM_FOCUS", "RUN_IM_FOCUS",
                                 "RUN_2B_FOCUS"}),
           "RUN_EXIT" \in a.mode => "RUN_EXIT" \in S
    PROVE  Calm(a, b)
<1>1. /\ b.cinput = a.cinput /\ b.default_im = a.default_im
      /\ b.default_im_sinmd = a.default_im_sinmd
      /\ b.im_focus = a.im_focus /\ b.first_call = a.first_call
      /\ b.mode = S /\ b.imc_list = a.imc_list /\ b.IMC = a.IMC
      /\ b.ic_list = a.ic_list /\ b.IC = a.IC
  BY DEF Memory
<1>2. Idle(a, b)
  BY <1>1, IdleNoIMC DEF SameFlags
<1> QED BY <1>1, <1>2 DEF Calm, SameFlags, SpotFits

LEMMA CalmTrans ==
    ASSUME NEW a, NEW b, NEW c, Calm(a, b), Calm(b, c)
    PROVE  Calm(a, c)
BY DEF Calm, Idle, SameBinding, SameFlags, ICState

LEMMA CalmStutter ==
    ASSUME NEW a
    PROVE  Calm(a, a)
BY DEF Calm, Idle, SameBinding, SameFlags, SpotFits

LEMMA CalmClose ==
    ASSUME NEW a, Sound(a)
    PROVE  Calm(a, xim_close(a)) /\ Calm(a, sync_reply(a))
<1>1. a \in Memory
  BY DEF Sound
<1>2. Calm(a, sync_reply(a))
  <2>1. CASE sync_reply(a) = a
    BY <2>1, CalmStutter
  <2>2. CASE sync_reply(a) # a
    <3> DEFINE S == a.mode \cup {"RUN_EXITALL"}
    <3>1. sync_reply(a) = [a EXCEPT !.mode = S]
      BY <1>1, <2>2 DEF sync_reply, Memory
    <3>2. /\ SameFlags(a.mode, S, {"SHOW_CINPUT", "IM_FOCUS", "RUN_IM_FOCUS",
                                   "RUN_2B_FOCUS"})
          /\ "RUN_EXIT" \in a.mode => "RUN_EXIT" \in S
      BY DEF SameFlags
    <3> HIDE DEF S
    <3> QED BY <1>1, <3>1, <3>2, CalmMode
  <2> QED BY <2>1, <2>2
<1>3. Calm(a, xim_close(a))
  <2> DEFINE S == a.mode \cup {"RUN_EXIT", "ICCHECK_OFF"}
             T == S \cup {"RUN_EXITALL"}
             b == [a EXCEPT !.mode = S]
             c == [a EXCEPT !.mode = T]
  <2>1. xim_close(a) = IF a.ic = NULL THEN c ELSE xim_disconnect(b, a.ic)
    <3>1. xim_close(a) = IF a.ic = NULL THEN [b EXCEPT !.mode = @ \cup {"RUN_EXITALL"}]
                         ELSE xim_disconnect(b, a.ic)
      BY <1>1 DEF xim_close, Memory
    <3> HIDE DEF S
    <3>2. [b EXCEPT !.mode = @ \cup {"RUN_EXITALL"}] = c
      BY <1>1 DEF Memory
    <3> QED BY <3>1, <3>2
  <2>2. /\ SameFlags(a.mode, S, {"SHOW_CINPUT", "IM_FOCUS", "RUN_IM_FOCUS",
                                 "RUN_2B_FOCUS"})
        /\ SameFlags(a.mode, T, {"SHOW_CINPUT", "IM_FOCUS", "RUN_IM_FOCUS",
                                 "RUN_2B_FOCUS"})
        /\ "RUN_EXIT" \in S /\ "RUN_EXIT" \in T
    BY DEF SameFlags
  <2>3. a.mode \in SUBSET ModeFlag /\ S \in SUBSET ModeFlag
    BY <1>1 DEF Memory, ModeFlag
  <2> HIDE DEF S, T
  <2>4. Calm(a, c) /\ Calm(a, b)
    BY <1>1, <2>2, CalmMode
  <2>5. CASE a.ic = NULL
    BY <2>1, <2>4, <2>5
  <2>6. CASE a.ic # NULL
    <3> DEFINE e == xim_disconnect(b, a.ic)
    <3>1. a.ic \in ICID
      BY <2>6, CurrentIMC
    <3>2. Steady(a, b)
      BY <1>1, <2>3, SetMode
    <3>3. b \in Memory /\ b.mode = S
      BY <1>1, <3>2 DEF Steady, Memory
    <3> HIDE DEF b
    <3>4. /\ Keyed(b, e, a.ic) /\ Idle(b, e) /\ e.mode = b.mode
          /\ e.IMC = b.IMC /\ e.ic_list = b.ic_list
      BY <3>1, <3>3, ConnectKeyed
    <3> HIDE DEF e
    <3>5. b.ic_list \subseteq ICID
      BY <3>3 DEF Memory
    <3>6. \A j \in ICID : /\ e.IC[j].imc = b.IC[j].imc
                          /\ SameFlags(b.IC[j].ic_state, e.IC[j].ic_state,
                                       {"NEWIC", "FOCUS"})
      <4> SUFFICES ASSUME NEW j \in ICID
                   PROVE  /\ e.IC[j].imc = b.IC[j].imc
                          /\ SameFlags(b.IC[j].ic_state, e.IC[j].ic_state,
                                       {"NEWIC", "FOCUS"})
        OBVIOUS
      <4>1. CASE j = a.ic
        BY <3>4, <4>1 DEF Keyed, Steady
      <4>2. CASE j # a.ic
        BY <3>4, <4>2 DEF Keyed, SameFlags
      <4> QED BY <4>1, <4>2
    <3>7. Calm(b, e)
      BY <2>2, <3>3, <3>4, <3>5, <3>6 DEF Calm, SameFlags, SpotFits
    <3> QED BY <2>1, <2>4, <2>6, <3>7, CalmTrans DEF e, b
  <2> QED BY <2>5, <2>6
<1> QED BY <1>2, <1>3

\* A step that writes one IMC, and neither its modes nor its module.
LEMMA CalmIMC ==
    ASSUME NEW a \in Memory, NEW k \in ICID, NEW y, NEW b,
           SameBinding(a.IMC[k], y), y.inp_state = a.IMC[k].inp_state,
           ~SingleIMC => (y.overspot_win => y.ic_rec = k),
           b = [a EXCEPT !.IMC[k] = y]
    PROVE  Calm(a, b)
<1>1. /\ b.cinput = a.cinput /\ b.default_im = a.default_im
      /\ b.default_im_sinmd = a.default_im_sinmd
      /\ b.im_focus = a.im_focus /\ b.first_call = a.first_call
      /\ b.mode = a.mode /\ b.imc_list = a.imc_list
      /\ b.ic_list = a.ic_list /\ b.IC = a.IC
      /\ b.IMC = [a.IMC EXCEPT ![k] = y]
  BY DEF Memory
<1>2. Idle(a, b)
  BY <1>1, IdleIMC DEF SameFlags
<1>3. /\ a.IMC \in [ICID -> IMCRec] /\ a.imc_list \subseteq ICID
  BY DEF Memory
<1>4. \A l \in ICID : /\ b.IMC[l].inp_state = a.IMC[l].inp_state
                      /\ ~SingleIMC => (SpotFits(a, l) => SpotFits(b, l))
  BY <1>1, <1>3 DEF SpotFits
<1> QED BY <1>1, <1>2, <1>3, <1>4 DEF Calm, SameFlags

LEMMA CalmFreeSpot ==
    ASSUME NEW a, Sound(a)
    PROVE  Calm(a, free_spot(a))
<1>1. CASE a.ic = NULL
  BY <1>1, CalmStutter DEF free_spot
<1>2. CASE a.ic # NULL
  <2> DEFINE k == a.IC[a.ic].imc
             y == [a.IMC[k] EXCEPT !.overspot_win = FALSE]
  <2>1. a \in Memory /\ k \in ICID
    BY <1>2, CurrentIMC DEF Sound
  <2>2. free_spot(a) = [a EXCEPT !.IMC[k] = y]
    BY <1>2, <2>1 DEF free_spot, Memory
  <2> HIDE DEF k
  <2>3. a.IMC[k] \in IMCRec
    BY <2>1 DEF Memory
  <2>4. /\ SameBinding(a.IMC[k], y) /\ y.inp_state = a.IMC[k].inp_state
        /\ ~y.overspot_win
    BY <2>3 DEF SameBinding, IMCRec
  <2> HIDE DEF y
  <2> QED BY <2>1, <2>2, <2>4, CalmIMC
<1> QED BY <1>1, <1>2

LEMMA CalmWinlist ==
    ASSUME NEW a, Sound(a)
    PROVE  Calm(a, gui_update_winlist(a))
<1>1. CASE ~needs_spot(a)
  BY <1>1, CalmStutter DEF gui_update_winlist
<1>2. CASE needs_spot(a)
  <2> DEFINE k == a.IC[a.ic].imc
             y == [a.IMC[k] EXCEPT !.ic_rec = a.ic, !.overspot_win = TRUE]
  <2>1. a \in Memory /\ k \in ICID /\ a.ic \in a.ic_list
    BY <1>2, CurrentIMC DEF Sound, needs_spot, spot_on
  <2>2. ~SingleIMC => k = a.ic
    BY <2>1 DEF Sound, Attached, Owned
  <2>3. gui_update_winlist(a) = [a EXCEPT !.IMC[k] = y]
    <3>1. gui_update_winlist(a)
            = [a EXCEPT !.IMC[k].ic_rec = a.ic, !.IMC[k].overspot_win = TRUE]
      BY <1>2 DEF gui_update_winlist
    <3> HIDE DEF k
    <3> QED BY <2>1, <3>1 DEF Memory
  <2> HIDE DEF k
  <2>4. a.IMC[k] \in IMCRec
    BY <2>1 DEF Memory
  <2>5. /\ SameBinding(a.IMC[k], y) /\ y.inp_state = a.IMC[k].inp_state
        /\ y.ic_rec = a.ic
    BY <2>4 DEF SameBinding, IMCRec
  <2> HIDE DEF y
  <2> QED BY <2>1, <2>2, <2>3, <2>5, CalmIMC
<1> QED BY <1>1, <1>2

\* Deletion, with the IMCs that the deleted ICs own.
LEMMA CalmDelete ==
    ASSUME NEW a, Sound(a), NEW D
    PROVE  Calm(a, delete_ICs(a, D))
<1> DEFINE own == own_IMCs(a, D)
           p == IF a.ic \in D THEN NULL ELSE a.ic
           q == IF a.icp \in D THEN NULL ELSE a.icp
           L == a.ic_list \ D
           M == a.imc_list \ own
           f == [i \in ICID |-> IF i \in D THEN forget(a.IC[i]) ELSE a.IC[i]]
           g == [k \in ICID |-> IF k \in own THEN ZeroIMC ELSE a.IMC[k]]
           b == delete_ICs(a, D)
<1>1. a \in Memory /\ a.ic_list \subseteq ICID /\ a.imc_list \subseteq ICID
  BY DEF Sound, Memory
<1>2. b = [a EXCEPT !.ic = p, !.icp = q, !.ic_list = L, !.IC = f,
                    !.imc_list = M, !.IMC = g]
  <2>1. unpoint(a, D) = [a EXCEPT !.ic = p, !.icp = q]
    BY <1>1 DEF unpoint, Memory
  <2>2. /\ unpoint(a, D).ic_list = a.ic_list /\ unpoint(a, D).IC = a.IC
        /\ unpoint(a, D).imc_list = a.imc_list /\ unpoint(a, D).IMC = a.IMC
    BY <1>1, <2>1 DEF Memory
  <2>3. delete_ICs(a, D) = [unpoint(a, D) EXCEPT !.ic_list = L, !.IC = f,
                                                 !.imc_list = M, !.IMC = g]
    BY <2>2 DEF delete_ICs
  <2> HIDE DEF p, q, L, M, f, g
  <2> QED BY <1>1, <2>1, <2>3 DEF Memory
<1>3. /\ b.cinput = a.cinput /\ b.default_im = a.default_im
      /\ b.default_im_sinmd = a.default_im_sinmd
      /\ b.im_focus = a.im_focus /\ b.first_call = a.first_call
      /\ b.mode = a.mode /\ b.imc_list = M /\ b.IMC = g
      /\ b.ic_list = L /\ b.IC = f
  <2> HIDE DEF p, q, L, M, f, g
  <2> QED BY <1>1, <1>2 DEF Memory
<1>4. \A i \in L : f[i] = a.IC[i]
  BY <1>1
<1>5. \A k \in M : g[k] = a.IMC[k] /\ k \in a.imc_list
  BY <1>1
<1>6. SingleIMC => M = a.imc_list
  BY DEF own_IMCs
<1> HIDE DEF b, f, g, M, own
<1>7. Idle(a, b)
  BY <1>3, <1>5, <1>6 DEF Idle, SameBinding, SameFlags
<1> QED BY <1>3, <1>4, <1>5, <1>7 DEF Calm, SameFlags, SpotFits, b

LEMMA CalmSweep ==
    ASSUME NEW a, Sound(a), NEW r, NEW S
    PROVE  Calm(a, check_ic_exist(a, r, S))
<1> DEFINE gone == {i \in probed(a, r) : a.IC[i].client_win \notin S}
           f == [i \in ICID |-> IF i \in stamped(a, r)
                                THEN [a.IC[i] EXCEPT !.exec_age = 0]
                                ELSE a.IC[i]]
           b == [a EXCEPT !.check_age = 0, !.IC = f]
           D == shadowed(a, r) \cup gone
<1>1. a \in Memory /\ a.IC \in [ICID -> ICRec]
  BY DEF Sound, Memory
<1>2. check_ic_exist(a, r, S) = IF sweeps(a, r) THEN delete_ICs(b, D) ELSE a
  BY <1>1 DEF check_ic_exist, Memory
<1>3. f \in [ICID -> ICRec]
      /\ \A i \in ICID : f[i].imc = a.IC[i].imc /\ f[i].ic_state = a.IC[i].ic_state
  <2>1. \A rec \in ICRec : LET x == [rec EXCEPT !.exec_age = 0]
                           IN  /\ x \in ICRec /\ x.imc = rec.imc
                               /\ x.ic_state = rec.ic_state
    BY StateAssumption DEF ICRec
  <2> HIDE DEF gone, D
  <2> QED BY <1>1, <2>1
<1>4. 0 \in 0..(TIMECHECK_STEP + 1)
  BY StateAssumption
<1> HIDE DEF f, D
<1>5. b \in Memory
  BY <1>1, <1>3, <1>4, Zenon DEF Memory
<1>6. /\ b.cinput = a.cinput /\ b.default_im = a.default_im
      /\ b.default_im_sinmd = a.default_im_sinmd
      /\ b.im_focus = a.im_focus /\ b.first_call = a.first_call
      /\ b.mode = a.mode /\ b.imc_list = a.imc_list /\ b.IMC = a.IMC
      /\ b.ic_list = a.ic_list /\ b.IC = f
      /\ b.ic = a.ic /\ b.icp = a.icp /\ b.icid = a.icid
  BY <1>1 DEF Memory
<1> HIDE DEF b
<1>7. Calm(a, b)
  BY <1>1, <1>3, <1>6, CalmICs
<1>8. Steady(a, b)
  BY <1>3, <1>5, <1>6 DEF Steady
<1>9. Sound(b)
  BY <1>8, SteadySound
<1>10. Calm(b, delete_ICs(b, D))
  BY <1>9, CalmDelete
<1> QED BY <1>2, <1>7, <1>10, CalmTrans, CalmStutter

-----------------------------------------------------------------------------
(***************************************************************************)
(* XIM_CREATE_IC: a new IC with a blank IMC, or with the shared one.       *)
(***************************************************************************)
Fresh(a) == ~(SingleIMC /\ a.imc_list # {})

Creates(a, b, i, c, v) ==
    LET k == imc_for(a, i)
        x == IF Fresh(a) THEN ZeroIMC ELSE a.IMC[k]
        y == b.IMC[k]
    IN  /\ b.ic_list = a.ic_list \cup {i} /\ b.imc_list = a.imc_list \cup {k}
        /\ b.cinput = a.cinput /\ b.default_im = a.default_im
        /\ b.default_im_sinmd = a.default_im_sinmd
        /\ b.im_focus = a.im_focus /\ b.first_call = a.first_call
        /\ b.mode = a.mode
        /\ \A j \in ICID : j # i => b.IC[j] = a.IC[j]
        /\ \A l \in ICID : l # k => b.IMC[l] = a.IMC[l]
        /\ b.IC[i].connect_id = c /\ b.IC[i].imc = k
        /\ b.IC[i].ic_state = {"NEWIC"}
        /\ b.IC[i].client_win = v.client_win /\ b.IC[i].focus_win = v.focus_win
        /\ y.inp_num = IF "IM_FOCUS" \in a.mode THEN a.im_focus ELSE a.default_im
        /\ y.inp_state = x.inp_state /\ y.imodp = x.imodp
        /\ y.sinp_num = x.sinp_num /\ y.s_imodp = x.s_imodp
        /\ y.inited = x.inited /\ y.reinit = x.reinit /\ SameSpot(x, y)

LEMMA CreateIs ==
    ASSUME NEW a, Sound(a), NEW i \in new_ids(a), NEW c \in Client,
           NEW v \in ICValues
    PROVE  Creates(a, ic_create(a, i, c, v), i, c, v)
<1> DEFINE k == imc_for(a, i)
           z == IF SingleIMC /\ a.imc_list # {} THEN a.IMC[k] ELSE ZeroIMC
           w == [z EXCEPT !.icid = i]
           num == IF "IM_FOCUS" \in a.mode THEN a.im_focus ELSE a.default_im
           y == [w EXCEPT !.inp_num = num]
           r == [ZeroIC EXCEPT !.imc = k]
           s == [r EXCEPT !.connect_id = c, !.ic_state = {"NEWIC"}]
           x == set_values(s, v)
           n == IF i > a.icid THEN i ELSE a.icid
           L == a.imc_list \cup {k}
           M == a.ic_list \cup {i}
           d == new_IC(a, i)
           b == ic_create(a, i, c, v)
<1>1. /\ a \in Memory /\ i \in ICID /\ k \in ICID
      /\ a.IC \in [ICID -> ICRec] /\ a.IMC \in [ICID -> IMCRec]
  BY NewId, NewIMC DEF Sound, Memory
<1>2. z \in IMCRec
  <2>1. ZeroIMC \in IMCRec
    BY StateAssumption DEF ZeroIMC, IMCRec, Inp, NULL, NoMod
  <2> QED BY <1>1, <2>1
<1>3. z = IF Fresh(a) THEN ZeroIMC ELSE a.IMC[k]
  BY DEF Fresh
<1> HIDE DEF z
<1>4. /\ y.inp_num = num
      /\ y.inp_state = z.inp_state /\ y.imodp = z.imodp
      /\ y.sinp_num = z.sinp_num /\ y.s_imodp = z.s_imodp
      /\ y.inited = z.inited /\ y.reinit = z.reinit /\ SameSpot(z, y)
  BY <1>2 DEF IMCRec, SameSpot
<1>5. /\ x.imc = k /\ x.connect_id = c /\ x.ic_state = {"NEWIC"}
      /\ x.client_win = v.client_win /\ x.focus_win = v.focus_win
  <2>1. /\ s.imc = k /\ s.connect_id = c /\ s.ic_state = {"NEWIC"}
        /\ s.client_win = NoWindow /\ s.focus_win = NoWindow
    BY DEF ZeroIC
  <2>2. s \in ICRec
    <3>1. ZeroIC \in ICRec
      BY StateAssumption DEF ZeroIC, ICRec, NULL
    <3>2. r \in ICRec
      BY <1>1, <3>1, Zenon DEF ICRec
    <3> QED BY <3>2 DEF ICRec, ICState
  <2> HIDE DEF s
  <2>3. /\ x.imc = s.imc /\ x.connect_id = s.connect_id /\ x.ic_state = s.ic_state
        /\ x.client_win = given_window(v.client_win, s.client_win)
        /\ x.focus_win = given_window(v.focus_win, s.focus_win)
    BY <2>2 DEF set_values, ICRec
  <2> QED BY <2>1, <2>3 DEF given_window
<1>6. d = [a EXCEPT !.imc_list = L, !.IMC[k] = w, !.icid = n, !.ic_list = M,
                    !.IC[i] = r]
  <2>1. new_IMC(a, i) = [a EXCEPT !.imc_list = L, !.IMC[k] = w]
    <3>1. new_IMC(a, i) = [a EXCEPT !.imc_list = @ \cup {k}, !.IMC[k] = w]
      BY DEF new_IMC, z
    <3> HIDE DEF w, k
    <3> QED BY <1>1, <3>1 DEF Memory, L
  <2>2. /\ new_IMC(a, i).icid = a.icid /\ new_IMC(a, i).ic_list = a.ic_list
        /\ new_IMC(a, i).IC = a.IC
    BY <1>1, <2>1 DEF Memory
  <2>3. d = [new_IMC(a, i) EXCEPT !.icid = n, !.ic_list = M, !.IC[i] = r]
    BY <2>2 DEF new_IC
  <2> HIDE DEF L, M, n, r, w, k, d
  <2> QED BY <1>1, <2>1, <2>3 DEF Memory
<1>7. b = ic_set_values([d EXCEPT !.IC[i] = [d.IC[i] EXCEPT !.connect_id = c,
                                                           !.ic_state = {"NEWIC"}],
                                  !.IMC[d.IC[i].imc].inp_num = num], i, v)
  BY DEF ic_create
<1>8. r.imc = k
  BY DEF ZeroIC
<1> HIDE DEF d, r, w, L, M, n, num
<1>9. d.IC[i] = r /\ d.IMC[k] = w
  BY <1>1, <1>6 DEF Memory
<1>10. b = ic_set_values([d EXCEPT !.IC[i] = s, !.IMC[k] = y], i, v)
  <2>1. [d EXCEPT !.IC[i] = s, !.IMC[k].inp_num = num]
          = [d EXCEPT !.IC[i] = s, !.IMC[k] = y]
    <3> HIDE DEF s, k
    <3> QED BY <1>1, <1>6, <1>9 DEF Memory
  <2> HIDE DEF y, k
  <2> QED BY <1>7, <1>8, <1>9, <2>1
<1> HIDE DEF s, y, k
<1>11. b = [a EXCEPT !.imc_list = L, !.IMC[k] = y, !.icid = n, !.ic_list = M,
                     !.IC[i] = x]
  <2>1. [d EXCEPT !.IC[i] = s, !.IMC[k] = y]
          = [a EXCEPT !.imc_list = L, !.IMC[k] = y, !.icid = n, !.ic_list = M,
                      !.IC[i] = s]
    BY <1>1, <1>6 DEF Memory
  <2> DEFINE e == [a EXCEPT !.imc_list = L, !.IMC[k] = y, !.icid = n,
                            !.ic_list = M, !.IC[i] = s]
  <2>2. b = [e EXCEPT !.IC[i] = set_values(@, v)]
    BY <1>10, <2>1 DEF ic_set_values
  <2>3. e.IC[i] = s
    BY <1>1 DEF Memory
  <2>4. b = [e EXCEPT !.IC[i] = x]
    <3> HIDE DEF e, b
    <3> QED BY <2>2, <2>3 DEF x
  <2> HIDE DEF b, x
  <2> QED BY <1>1, <2>4 DEF Memory
<1> HIDE DEF x, b
<1>12. /\ b.ic_list = M /\ b.imc_list = L
       /\ b.cinput = a.cinput /\ b.default_im = a.default_im
       /\ b.default_im_sinmd = a.default_im_sinmd
       /\ b.im_focus = a.im_focus /\ b.first_call = a.first_call
       /\ b.mode = a.mode /\ b.IC = [a.IC EXCEPT ![i] = x]
       /\ b.IMC = [a.IMC EXCEPT ![k] = y]
  BY <1>1, <1>11 DEF Memory
<1>13. /\ b.IC[i] = x /\ b.IMC[k] = y
       /\ \A j \in ICID : j # i => b.IC[j] = a.IC[j]
       /\ \A l \in ICID : l # k => b.IMC[l] = a.IMC[l]
  BY <1>1, <1>12
<1> QED BY <1>3, <1>4, <1>5, <1>12, <1>13 DEF Creates, L, M, k, b, num

\* The entry that the new IC gets is a loaded one.  If its IMC is shared, the
\* IMC has that entry already.
LEMMA ReadyCreate ==
    ASSUME NEW a, Sound(a), Ready(a), NEW i, NEW b, NEW c, NEW v,
           imc_for(a, i) \in ICID, Creates(a, b, i, c, v)
    PROVE  Ready(b)
<1> DEFINE k == imc_for(a, i)
           x == IF Fresh(a) THEN ZeroIMC ELSE a.IMC[k]
           y == b.IMC[k]
<1>1. /\ b.imc_list = a.imc_list \cup {k}
      /\ b.cinput = a.cinput /\ b.default_im = a.default_im
      /\ b.default_im_sinmd = a.default_im_sinmd
      /\ b.im_focus = a.im_focus /\ b.first_call = a.first_call
      /\ b.mode = a.mode
      /\ \A l \in ICID : l # k => b.IMC[l] = a.IMC[l]
      /\ y.inp_num = IF "IM_FOCUS" \in a.mode THEN a.im_focus ELSE a.default_im
      /\ y.inp_state = x.inp_state /\ y.imodp = x.imodp
      /\ y.sinp_num = x.sinp_num /\ y.s_imodp = x.s_imodp
      /\ y.inited = x.inited /\ y.reinit = x.reinit
  BY DEF Creates
<1>2. /\ Table(a) /\ \A l \in a.imc_list : Fits(a, a.IMC[l])
      /\ SingleIMC /\ a.imc_list = {} => a.im_focus = a.default_im /\ ~a.first_call
      /\ a.imc_list \subseteq ICID
  BY DEF Ready, Sound, Memory
<1>3. Table(b)
  BY <1>1, <1>2 DEF Table, Live
<1>4. ASSUME NEW l \in a.imc_list, l # k
      PROVE  Fits(b, b.IMC[l])
  <2>1. b.IMC[l] = a.IMC[l] /\ Fits(a, a.IMC[l])
    BY <1>1, <1>2, <1>4
  <2> QED BY <1>1, <2>1 DEF Fits, Bound, History, Live
<1>5. Live(b, y.inp_num)
  BY <1>1, <1>3 DEF Table
<1>6. ASSUME Fresh(a)
      PROVE  Fits(b, y)
  <2>1. /\ x.inp_state = {} /\ x.imodp = NoMod /\ x.inited = NoMod
        /\ x.reinit = FALSE
    BY <1>6 DEF ZeroIMC
  <2>2. y.inp_state = {} /\ y.imodp = NoMod /\ y.inited = NoMod /\ y.reinit = FALSE
    BY <1>1, <2>1
  <2>3. SingleIMC => a.im_focus = a.default_im /\ ~a.first_call
    BY <1>2, <1>6 DEF Fresh
  <2> HIDE DEF k, x, y
  <2> QED BY <1>1, <1>5, <2>2, <2>3 DEF Fits, FlagsFit, Bound, History
<1>7. ASSUME ~Fresh(a)
      PROVE  Fits(b, y)
  <2>1. SingleIMC /\ k \in a.imc_list /\ x = a.IMC[k]
    BY <1>7 DEF Fresh, imc_for
  <2>2. Fits(a, x)
    BY <1>2, <2>1
  <2>3. y.inp_num = x.inp_num
    BY <1>1, <2>1, <2>2 DEF Fits, History
  <2> HIDE DEF k, x, y
  <2> QED BY <1>1, <2>1, <2>2, <2>3 DEF Fits, FlagsFit, Bound, History, Live
<1>8. \A l \in b.imc_list : Fits(b, b.IMC[l])
  BY <1>1, <1>4, <1>6, <1>7
<1> QED BY <1>1, <1>3, <1>8 DEF Ready

\* The start: the entries that the configuration names are loaded.
LEMMA StartReady ==
    ASSUME NEW mode, NEW d, NEW s
    PROVE  Ready(StartMemory(mode, Named, d, s))
<1> DEFINE n == default_cinput(Named, d)
           f == load_default_cinput(Named, d)
           g == load_cinput(f, {s})
           b == StartMemory(mode, Named, d, s)
<1>1. n \in Inp /\ f[n] = "loaded"
  <2>1. n \in Named \cap Loadable /\ n \in Inp
    <3>1. n \in Named \cap Loadable
      BY DefaultCinput
    <3> HIDE DEF n
    <3> QED BY <3>1, ServerAssumption
  <2>2. n \in {d} \cup {e \in Inp : d # n /\ e <= n}
    <3> HIDE DEF n
    <3> QED BY <2>1 DEF Inp
  <2>3. f = load_cinput([e \in Inp |-> IF e \in Named THEN "named" ELSE "free"],
                        {d} \cup {e \in Inp : d # n /\ e <= n})
    BY DEF load_default_cinput
  <2> HIDE DEF n, f
  <2> QED BY <2>1, <2>2, <2>3 DEF load_cinput
<1>2. g[n] = "loaded"
  <2> HIDE DEF n, f
  <2> QED BY <1>1 DEF load_cinput
<1>3. /\ b.cinput = g /\ b.default_im = n /\ b.im_focus = n
      /\ b.imc_list = {} /\ b.first_call = FALSE
      /\ "SHOW_CINPUT" \notin b.mode => g[b.default_im_sinmd] = "loaded"
  BY DEF StartMemory, load_default_sinmd
<1> HIDE DEF n, f, g, b
<1>4. Ready(b)
  BY <1>2, <1>3 DEF Ready, Table, Live
<1> QED BY <1>4 DEF b
=============================================================================
