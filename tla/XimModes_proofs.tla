-------------------------- MODULE XimModes_proofs --------------------------
(***************************************************************************)
(* Proofs about the input modes of the server: the bindings of the IMCs,   *)
(* the shared IMC, the IM focus, the candidate window's IC, the focus      *)
(* status, the connection and the circular keys; and about how long ICs    *)
(* live, at the end.                                                       *)
(*                                                                         *)
(* NextMoves sums up every step of the server by what it does to the       *)
(* memory.  The invariants of this module add to ReadyInv one conjunct     *)
(* each, and are proved by cases on that summary.                          *)
(***************************************************************************)
EXTENDS XimHandlers_proofs, FiniteSetTheorems

-----------------------------------------------------------------------------
(***************************************************************************)
(* The steps of the server, by what they do to its memory.                 *)
(***************************************************************************)
Creation == \E c \in clients, v \in CreateValues, i \in new_ids(m) :
                Creates(m, m', i, c, v)

Focusing(i) == "FOCUS" \notin m.IC[i].ic_state /\ SetsFocus(m, m', i)

Triggering(i) == \E key \in TriggerKeys :
    /\ InStep => InFocus(i) /\ ~Connected(i)
    /\ m' \in trigger(m, i, key)

Forwarding(i) == \E key \in ForwardKeys :
    /\ InStep => InFocus(i) /\ Connected(i)
    /\ m' \in forward(m, i, key)

Serving == \/ Creation
           \/ \E i \in m.ic_list : \/ Focusing(i) \/ UnsetsFocus(m, m', i)
                                   \/ Triggering(i) \/ Forwarding(i)

Moving == Calm(m, m') \/ (~Exiting /\ Serving)

LEMMA HandledMoves ==
    ASSUME NEW r, NEW outcomes, Handled(r, outcomes)
    PROVE  m' = m \/ (~Exiting /\ m' \in outcomes)
BY DEF Handled

LEMMA MessageMoves ==
    ASSUME IInv, Ready(m), NEW c \in clients, Message(c)
    PROVE  Moving
<1>1. Sound(m) /\ m \in Memory /\ c \in Client /\ held \in [Client -> SUBSET ICID]
  BY DEF IInv, TypeOK, Sound
<1>2. m' = m => Moving
  BY CalmStutter DEF Moving
<1>3. CASE CreateIC(c)
  <2>1. PICK v \in CreateValues, i \in new_ids(m) :
          Handled(NULL, {ic_create(m, i, c, v)})
    BY <1>3 DEF CreateIC
  <2>2. Creates(m, ic_create(m, i, c, v), i, c, v)
    BY <1>1, CreateIs, ServerAssumption
  <2>3. m' = m \/ (~Exiting /\ Creates(m, m', i, c, v))
    BY <2>1, <2>2, HandledMoves
  <2> QED BY <1>2, <2>3 DEF Moving, Serving, Creation
<1>4. CASE Close(c)
  <2>1. Calm(m, ic_clean_all(m, c))
    BY <1>1, CalmDelete DEF ic_clean_all
  <2>2. m' = m \/ m' = ic_clean_all(m, c)
    BY <1>4, HandledMoves DEF Close
  <2> QED BY <1>2, <2>1, <2>2 DEF Moving
<1>5. CASE SyncReply(c)
  <2>1. Calm(m, sync_reply(m))
    BY <1>1, CalmClose
  <2>2. m' = m \/ m' = sync_reply(m)
    BY <1>5 DEF SyncReply
  <2> QED BY <1>2, <2>1, <2>2 DEF Moving
<1>6. ASSUME NEW i \in held[c],
             \/ DestroyIC(c, i) \/ SetFocus(c, i) \/ UnsetFocus(c, i)
             \/ SetICValues(c, i) \/ GetICValues(c, i)
             \/ Trigger(c, i) \/ Forward(c, i) \/ PlainKey(c, i)
      PROVE  Moving
  <2>1. i \in ICID
    BY <1>1
  <2>2. ASSUME NEW outcomes, HandledIC(i, outcomes)
        PROVE  m' = m \/ (~Exiting /\ i \in m.ic_list /\ m' \in outcomes)
    BY <2>2, HandledMoves DEF HandledIC
  <2>3. CASE DestroyIC(c, i)
    <3>1. Calm(m, ic_destroy(m, i))
      BY <1>1, CalmDelete DEF ic_destroy
    <3>2. m' = m \/ m' = ic_destroy(m, i)
      BY <2>3, HandledMoves DEF DestroyIC
    <3> QED BY <1>2, <3>1, <3>2 DEF Moving
  <2>4. CASE SetFocus(c, i)
    <3>1. m' = m \/ (~Exiting /\ i \in m.ic_list /\ m' = set_focus(m, i))
      BY <2>2, <2>4 DEF SetFocus
    <3>2. CASE ~Exiting /\ i \in m.ic_list /\ m' = set_focus(m, i)
      <4>1. CASE "FOCUS" \in m.IC[i].ic_state
        BY <1>2, <3>2, <4>1 DEF set_focus
      <4>2. CASE "FOCUS" \notin m.IC[i].ic_state
        <5>1. SetsFocus(m, set_focus(m, i), i)
          BY <1>1, <3>2, <4>2, SetFocusIs
        <5> QED BY <3>2, <4>2, <5>1 DEF Moving, Serving, Focusing
      <4> QED BY <4>1, <4>2
    <3> QED BY <1>2, <3>1, <3>2
  <2>5. CASE UnsetFocus(c, i)
    <3>1. m' = m \/ (~Exiting /\ i \in m.ic_list /\ m' = unset_focus(m, i))
      BY <2>2, <2>5 DEF UnsetFocus
    <3>2. i \in m.ic_list => UnsetsFocus(m, unset_focus(m, i), i)
      BY <1>1, UnsetFocusIs
    <3> QED BY <1>2, <3>1, <3>2 DEF Moving, Serving
  <2>6. CASE SetICValues(c, i)
    <3>1. PICK v \in ChangeValues : HandledIC(i, {ic_set_values(m, i, v)})
      BY <2>6 DEF SetICValues
    <3>2. m' = m \/ m' = ic_set_values(m, i, v)
      BY <2>2, <3>1
    <3>3. Calm(m, ic_set_values(m, i, v))
      BY <1>1, <2>1, CalmValues
    <3> QED BY <1>2, <3>2, <3>3 DEF Moving
  <2>7. CASE GetICValues(c, i) \/ PlainKey(c, i)
    <3>1. HandledIC(i, {m})
      BY <2>7 DEF GetICValues, PlainKey
    <3> QED BY <1>2, <2>2, <3>1
  <2>8. CASE Trigger(c, i)
    <3>1. PICK key \in TriggerKeys : /\ InStep => InFocus(i) /\ ~Connected(i)
                                     /\ HandledIC(i, trigger(m, i, key))
      BY <2>8 DEF Trigger
    <3>2. \/ m' = m
          \/ ~Exiting /\ i \in m.ic_list /\ m' \in trigger(m, i, key)
      BY <2>2, <3>1
    <3> QED BY <1>2, <3>1, <3>2 DEF Moving, Serving, Triggering
  <2>9. CASE Forward(c, i)
    <3>1. PICK key \in ForwardKeys : /\ InStep => InFocus(i) /\ Connected(i)
                                     /\ HandledIC(i, forward(m, i, key))
      BY <2>9 DEF Forward
    <3>2. \/ m' = m
          \/ ~Exiting /\ i \in m.ic_list /\ m' \in forward(m, i, key)
      BY <2>2, <3>1
    <3> QED BY <1>2, <3>1, <3>2 DEF Moving, Serving, Forwarding
  <2> QED BY <1>6, <2>3, <2>4, <2>5, <2>6, <2>7, <2>8, <2>9
<1> QED BY <1>3, <1>4, <1>5, <1>6 DEF Message

LEMMA NextMoves ==
    ASSUME IInv, Ready(m), [Next]_vars
    PROVE  Moving
<1>1. Sound(m) /\ m \in Memory
  BY DEF IInv, TypeOK, Sound
<1>2. m' = m => Moving
  BY CalmStutter DEF Moving
<1>3. ASSUME NEW c \in clients, Message(c)
      PROVE  Moving
  BY <1>3, MessageMoves
<1>4. CASE CheckICs
  <2>1. Calm(m, check_ic_exist(m, ref, alive))
    BY <1>1, CalmSweep
  <2>2. m' = m \/ m' = check_ic_exist(m, ref, alive)
    BY <1>4 DEF CheckICs
  <2> QED BY <1>2, <2>1, <2>2 DEF Moving
<1>5. CASE UpdateWinlist
  <2>1. Calm(m, gui_update_winlist(m))
    BY <1>1, CalmWinlist
  <2> QED BY <1>5, <2>1 DEF Moving, UpdateWinlist
<1>6. CASE Signal
  <2>1. Calm(m, xim_close(m))
    BY <1>1, CalmClose
  <2>2. m' = xim_close(m)
    BY <1>6 DEF Signal, XimClose
  <2> QED BY <2>1, <2>2 DEF Moving
<1>7. CASE CloseMainWindow
  <2>1. Sound(free_spot(m))
    BY <1>1, FreeSpotSteady, SteadySound
  <2>2. Calm(m, free_spot(m)) /\ Calm(free_spot(m), xim_close(free_spot(m)))
    BY <1>1, <2>1, CalmFreeSpot, CalmClose
  <2>3. m' = xim_close(free_spot(m))
    BY <1>7 DEF CloseMainWindow, XimClose
  <2> QED BY <2>2, <2>3, CalmTrans DEF Moving
<1>8. CASE Tick
  <2>1. Calm(m, tick(m))
    BY <1>1, CalmTick
  <2> QED BY <1>8, <2>1 DEF Moving, Tick
<1>9. CASE \/ LoopExit \/ Expose \/ UNCHANGED vars
           \/ \E w \in Window : WindowGone(w)
           \/ \E c \in clients : Die(c)
  BY <1>2, <1>9 DEF LoopExit, Expose, vars, WindowGone, Die
<1> QED BY <1>3, <1>4, <1>5, <1>6, <1>7, <1>8, <1>9 DEF Next, Server, Environment

-----------------------------------------------------------------------------
\* The inductive invariant.
ReadyInv == IInv /\ Ready(m)

LEMMA InitReady == Init => ReadyInv
<1> SUFFICES ASSUME Init
             PROVE  Ready(m)
  BY InitIInv DEF ReadyInv
<1> QED BY StartReady DEF Init

LEMMA NextReady == ReadyInv /\ [Next]_vars => ReadyInv'
<1> SUFFICES ASSUME ReadyInv, [Next]_vars
             PROVE  Ready(m')
  BY NextIInv DEF ReadyInv
<1>1. IInv /\ Sound(m) /\ Ready(m)
  BY DEF ReadyInv, IInv, TypeOK, Sound
<1>2. Moving
  BY <1>1, NextMoves
<1>3. CASE Calm(m, m')
  BY <1>1, <1>3, ReadyIdle DEF Calm
<1>4. CASE Creation
  <2>1. PICK c \in clients, v \in CreateValues, i \in new_ids(m) :
          Creates(m, m', i, c, v)
    BY <1>4 DEF Creation
  <2>2. imc_for(m, i) \in ICID
    BY <1>1, NewIMC
  <2> QED BY <1>1, <2>1, <2>2, ReadyCreate
<1>5. ASSUME NEW i \in m.ic_list,
             \/ Focusing(i) \/ UnsetsFocus(m, m', i)
             \/ Triggering(i) \/ Forwarding(i)
      PROVE  Ready(m')
  <2>1. CASE Focusing(i)
    BY <2>1 DEF Focusing, SetsFocus
  <2>2. CASE UnsetsFocus(m, m', i)
    BY <2>2 DEF UnsetsFocus
  <2>3. CASE Triggering(i)
    BY <1>1, <2>3, TriggerIs, ServerAssumption DEF Triggering
  <2>4. CASE Forwarding(i)
    BY <1>1, <2>4, ForwardIs, ServerAssumption DEF Forwarding
  <2> QED BY <1>5, <2>1, <2>2, <2>3, <2>4
<1> QED BY <1>2, <1>3, <1>4, <1>5 DEF Moving, Serving

THEOREM ReadyInvariance == Spec => []ReadyInv
<1> QED BY InitReady, NextReady, PTL DEF Spec

\* A message that is handled for an IC touches that IC and its IMC only.
LEMMA ServingLocal ==
    ASSUME IInv, Ready(m), NEW i \in m.ic_list,
           \/ Focusing(i) \/ UnsetsFocus(m, m', i)
           \/ Triggering(i) \/ Forwarding(i)
    PROVE  Local(m, m', i)
<1>1. Sound(m) /\ i \in ICID
  BY DEF IInv, TypeOK, Sound, Memory
<1>2. CASE Focusing(i)
  BY <1>2 DEF Focusing, SetsFocus
<1>3. CASE UnsetsFocus(m, m', i)
  BY <1>3 DEF UnsetsFocus
<1>4. CASE Triggering(i)
  BY <1>1, <1>4, TriggerIs, ServerAssumption DEF Triggering
<1>5. CASE Forwarding(i)
  BY <1>1, <1>5, ForwardIs, LocalKeyed, ServerAssumption DEF Forwarding
<1> QED BY <1>2, <1>3, <1>4, <1>5

-----------------------------------------------------------------------------
\* The binding part of ImReady, which holds of a shared IMC as well: in
\* Chinese mode, and only then, an IMC is bound to the loaded module of its
\* entry, and its keystroke display to a loaded module.  The handlers of
\* xim.c call through both pointers without a test (xim.c:763, 378).
Bindings ==
    \A k \in m.imc_list : LET x == m.IMC[k] IN
        /\ IF "CINPUT" \in x.inp_state
           THEN /\ x.imodp = x.inp_num /\ Loaded(x.imodp)
                /\ x.s_imodp = x.sinp_num /\ Loaded(x.s_imodp)
           ELSE x.imodp = NoMod
        /\ "XIMFOCUS" \in x.inp_state => "CINPUT" \in x.inp_state
        /\ "2BFOCUS" \in x.inp_state => "2BYTES" \in x.inp_state

LEMMA BindingsHold == ReadyInv => Bindings
<1> SUFFICES ASSUME ReadyInv, NEW k \in m.imc_list
             PROVE  LET x == m.IMC[k] IN
                    /\ IF "CINPUT" \in x.inp_state
                       THEN /\ x.imodp = x.inp_num /\ Loaded(x.imodp)
                            /\ x.s_imodp = x.sinp_num /\ Loaded(x.s_imodp)
                       ELSE x.imodp = NoMod
                    /\ "XIMFOCUS" \in x.inp_state => "CINPUT" \in x.inp_state
                    /\ "2BFOCUS" \in x.inp_state => "2BYTES" \in x.inp_state
  BY DEF Bindings
<1>1. Fits(m, m.IMC[k])
  BY DEF ReadyInv, Ready
<1>2. m.IMC[k].inp_num \in Inp /\ m.IMC[k].sinp_num \in Inp
  <2>1. m \in Memory
    BY DEF ReadyInv, IInv, TypeOK
  <2> QED BY <2>1 DEF Memory, IMCRec
<1> QED BY <1>1, <1>2 DEF Fits, FlagsFit, Bound, Live, Loaded

\* Whatever keys are pressed in whatever order, and however many ICs share an
\* IMC, an IMC in Chinese mode is bound to loaded modules.
THEOREM ImBindings == Spec => []Bindings
<1> QED BY BindingsHold, ReadyInvariance, PTL

\* With an IMC each, the ICs are bound like that and, besides, xim_init() and
\* xim_end() alternate on every inpinfo (xim.c:269-330).
THEOREM ImsAreReady ==
    ASSUME ~SingleIMC
    PROVE  Spec => []ImReady
<1>1. ReadyInv => ImReady
  <2> SUFFICES ASSUME ReadyInv
               PROVE  ImReady
    OBVIOUS
  <2>1. \A k \in m.imc_list : ~m.IMC[k].reinit
    BY DEF ReadyInv, Ready, Fits, History
  <2>2. Bindings
    BY BindingsHold
  <2> QED BY <2>1, <2>2 DEF Bindings, ImReady
<1> QED BY <1>1, ReadyInvariance, PTL

\* A shared IMC names the default entry, and the focused one while the IM
\* focus is on, and in Chinese mode it was prepared by the module it is bound
\* to: ic_create() never changes the entry under an IC (xim_IC.c:530-533).
THEOREM SharedImAgrees ==
    ASSUME SingleIMC
    PROVE  Spec => []SharedImAgree
<1>1. ReadyInv => SharedImAgree
  BY DEF ReadyInv, Ready, Fits, Bound, History, SharedImAgree, Flags
<1> QED BY <1>1, ReadyInvariance, PTL

-----------------------------------------------------------------------------
\* NEWIC is cleared by XIM_SET_IC_FOCUS alone, of the IC that it is for.
LEMMA NewIcKept ==
    ASSUME IInv, Ready(m), NEW i \in m.ic_list, i \in m'.ic_list, Moving,
           "NEWIC" \in m.IC[i].ic_state, "NEWIC" \notin m'.IC[i].ic_state
    PROVE  Focusing(i)
<1>1. Sound(m) /\ m.ic_list \subseteq ICID
  BY DEF IInv, TypeOK, Sound, Memory
<1>2. ~Calm(m, m')
  BY DEF Calm, SameFlags, ICState
<1>3. ~Creation
  <2>1. ASSUME NEW c \in clients, NEW v \in CreateValues, NEW j \in new_ids(m),
               Creates(m, m', j, c, v)
        PROVE  FALSE
    <3>1. i # j
      BY <1>1, NewId
    <3> QED BY <1>1, <2>1, <3>1 DEF Creates
  <2> QED BY <2>1 DEF Creation
<1>4. PICK j \in m.ic_list : \/ Focusing(j) \/ UnsetsFocus(m, m', j)
                             \/ Triggering(j) \/ Forwarding(j)
  BY <1>2, <1>3 DEF Moving, Serving
<1>5. CASE Focusing(j)
  <2>1. Local(m, m', j)
    BY <1>5 DEF Focusing, SetsFocus
  <2> QED BY <1>1, <1>5, <2>1 DEF Local
<1>6. CASE UnsetsFocus(m, m', j)
  <2>1. Local(m, m', j) /\ SameFlags(m.IC[j].ic_state, m'.IC[j].ic_state,
                                     {"NEWIC", "CONNECT"})
    BY <1>6 DEF UnsetsFocus
  <2> QED BY <1>1, <2>1 DEF Local, SameFlags
<1>7. CASE Triggering(j)
  <2>1. PICK key \in FKey : m' \in trigger(m, j, key)
    BY <1>7, ServerAssumption DEF Triggering
  <2>2. Local(m, m', j) /\ SameFlags(m.IC[j].ic_state, m'.IC[j].ic_state, {"NEWIC"})
    BY <1>1, <2>1, TriggerIs
  <2> QED BY <1>1, <2>2 DEF Local, SameFlags
<1>8. CASE Forwarding(j)
  <2>1. PICK key \in FKey : m' \in forward(m, j, key)
    BY <1>8, ServerAssumption DEF Forwarding
  <2>2. Keyed(m, m', j)
    BY <1>1, <2>1, ForwardIs
  <2> QED BY <1>1, <2>2 DEF Keyed, SameFlags
<1> QED BY <1>4, <1>5, <1>6, <1>7, <1>8

\* A new IC that gets the focus while the IM focus is running is connected
\* and in the focused input method, whatever happened to it and to the input
\* methods since XIM_CREATE_IC (xim_set_focus_handler, xim.c:838-848).
THEOREM NewIcsFollowFocus == Spec => NewIcFollowsFocus
<1> DEFINE A == \A i \in m.ic_list \cap m'.ic_list :
                    Welcomed(i) /\ "RUN_IM_FOCUS" \in m.mode
                    => /\ Connected(i)'
                       /\ is_on(m', i, "CINPUT")
                       /\ imc_of(m', i).imodp = m.im_focus
<1>1. ReadyInv /\ [Next]_vars => [A]_vars
  <2> SUFFICES ASSUME ReadyInv, [Next]_vars,
                      NEW i \in m.ic_list, i \in m'.ic_list,
                      Welcomed(i), "RUN_IM_FOCUS" \in m.mode
               PROVE  /\ Connected(i)'
                      /\ is_on(m', i, "CINPUT")
                      /\ imc_of(m', i).imodp = m.im_focus
    OBVIOUS
  <2>1. IInv /\ Ready(m) /\ Moving
    BY NextMoves DEF ReadyInv
  <2>2. "NEWIC" \in m.IC[i].ic_state /\ "NEWIC" \notin m'.IC[i].ic_state
    BY DEF Welcomed, ICFlags
  <2>3. Focusing(i)
    BY <2>1, <2>2, NewIcKept
  <2>4. Welcome(m, m', i)
    BY <2>2, <2>3 DEF Focusing, SetsFocus
  <2> QED BY <2>4 DEF Welcome, Connected
<1>2. Spec => [][A]_vars
  BY <1>1, ReadyInvariance, PTL DEF Spec
<1> QED BY <1>2 DEF NewIcFollowsFocus

-----------------------------------------------------------------------------
\* With an IMC each, the ic_rec of an IMC with a candidate window is the IC
\* that it belongs to.
SpotInv == ReadyInv /\ \A k \in m.imc_list : SpotFits(m, k)

LEMMA NextSpot ==
    ASSUME ~SingleIMC
    PROVE  SpotInv /\ [Next]_vars => SpotInv'
<1> SUFFICES ASSUME SpotInv, [Next]_vars, NEW k \in m'.imc_list
             PROVE  SpotFits(m', k)
  BY NextReady DEF SpotInv
<1>1. /\ IInv /\ Sound(m) /\ Ready(m) /\ Moving
      /\ \A l \in m.imc_list : SpotFits(m, l)
      /\ m.imc_list \subseteq ICID /\ m.ic_list \subseteq ICID
  BY NextMoves DEF SpotInv, ReadyInv, IInv, TypeOK, Sound, Memory
<1>2. CASE Calm(m, m')
  <2>1. k \in m.imc_list
    BY <1>2 DEF Calm, Idle
  <2> QED BY <1>1, <1>2, <2>1 DEF Calm
<1>3. CASE Creation
  <2>1. PICK c \in clients, v \in CreateValues, i \in new_ids(m) :
          Creates(m, m', i, c, v)
    BY <1>3 DEF Creation
  <2>2. imc_for(m, i) \in ICID /\ Fresh(m)
    BY <1>1, NewIMC DEF Fresh
  <2>3. CASE k = imc_for(m, i)
    BY <2>1, <2>2, <2>3 DEF Creates, SameSpot, ZeroIMC, SpotFits
  <2>4. CASE k # imc_for(m, i)
    <3>1. k \in m.imc_list /\ m'.IMC[k] = m.IMC[k]
      BY <1>1, <2>1, <2>4 DEF Creates
    <3> QED BY <1>1, <3>1 DEF SpotFits
  <2> QED BY <2>3, <2>4
<1>4. ASSUME NEW i \in m.ic_list, Local(m, m', i)
      PROVE  SpotFits(m', k)
  <2>1. k \in m.imc_list
    BY <1>4 DEF Local
  <2>2. SameSpot(m.IMC[k], m'.IMC[k])
    BY <1>1, <1>4, <2>1 DEF Local, SameSpot
  <2> QED BY <1>1, <2>1, <2>2 DEF SameSpot, SpotFits
<1> QED BY <1>1, <1>2, <1>3, <1>4, ServingLocal DEF Moving, Serving

\* With an IMC each, an Expose never redraws a candidate window from the
\* record of a deleted or a foreign IC, whatever the garbage collection does
\* (gui_overspot.c, gui_update_winlist).
THEOREM SpotRecsLive ==
    ASSUME ~SingleIMC
    PROVE  Spec => []SpotRecLive
<1>1. Init => SpotInv
  <2>1. Init => m.imc_list = {}
    BY DEF Init, StartMemory, load_default_sinmd
  <2> QED BY <2>1, InitReady DEF SpotInv
<1>2. SpotInv => SpotRecLive
  BY DEF SpotInv, SpotFits, SpotRecLive, ReadyInv, IInv, Attached, Owned
<1> QED BY <1>1, <1>2, NextSpot, PTL DEF Spec

-----------------------------------------------------------------------------
(***************************************************************************)
(* Which keys turn on the wide ASCII mode, the IM focus, and the two       *)
(* together.                                                               *)
(***************************************************************************)
Widens(a, b, i, code) ==
    /\ "IM_FOCUS" \in b.mode => "IM_FOCUS" \in a.mode \/ code = "IMFOCUS"
    /\ is_on(b, i, "2BYTES") => is_on(a, i, "2BYTES") \/ code = "2BSB"
    /\ "RUN_2B_FOCUS" \in b.mode
       => \/ "RUN_2B_FOCUS" \in a.mode
          \/ code = "2BSB" /\ "IM_FOCUS" \in a.mode
          \/ code = "IMFOCUS" /\ ~is_on(a, i, "CINPUT")

\* A step that changes neither the two flags nor the wide ASCII mode.
LEMMA WidensSame ==
    ASSUME NEW a, NEW b, NEW i, NEW code,
           SameFlags(a.mode, b.mode, {"IM_FOCUS", "RUN_2B_FOCUS"}),
           is_on(b, i, "2BYTES") <=> is_on(a, i, "2BYTES")
    PROVE  Widens(a, b, i, code)
BY DEF Widens, SameFlags

LEMMA WidensTurns ==
    ASSUME NEW a, NEW b, NEW i, NEW code, Turns(a, b, i)
    PROVE  Widens(a, b, i, code)
<1>1. SameFlags(a.mode, b.mode, {"IM_FOCUS", "RUN_2B_FOCUS"})
  BY DEF Turns, SameFlags, Steering, ModeFlag
<1>2. is_on(b, i, "2BYTES") <=> is_on(a, i, "2BYTES")
  BY DEF Turns, Turned, Unset, Chinese, is_on
<1> QED BY <1>1, <1>2, WidensSame

LEMMA WidensWide ==
    ASSUME NEW a \in Memory, NEW i \in ICID, NEW b,
           \/ b = enter_2bytes(a, a.IC[i].imc)
           \/ b = leave_2bytes(a, a.IC[i].imc)
    PROVE  Widens(a, b, i, "2BSB")
<1>1. \/ b.mode = IF "IM_FOCUS" \in a.mode THEN a.mode \cup {"RUN_2B_FOCUS"}
                                           ELSE a.mode
      \/ b.mode = IF "IM_FOCUS" \in a.mode THEN a.mode \ {"RUN_2B_FOCUS"}
                                           ELSE a.mode
  BY DEF enter_2bytes, leave_2bytes, Memory
<1> QED BY <1>1 DEF Widens

LEMMA WidensToggle ==
    ASSUME NEW a \in Memory, NEW i \in ICID
    PROVE  Widens(a, toggle_im_focus(a, i), i, "IMFOCUS")
<1> DEFINE b == toggle_im_focus(a, i)
<1>1. /\ b.IC = a.IC /\ b.IMC = a.IMC
      /\ b.mode = IF "IM_FOCUS" \in a.mode
                  THEN a.mode \ {"IM_FOCUS", "RUN_IM_FOCUS", "RUN_2B_FOCUS"}
                  ELSE a.mode \cup {"IM_FOCUS", IF is_on(a, i, "CINPUT")
                                                THEN "RUN_IM_FOCUS"
                                                ELSE "RUN_2B_FOCUS"}
  BY DEF toggle_im_focus, Memory
<1> HIDE DEF b
<1>2. is_on(b, i, "2BYTES") <=> is_on(a, i, "2BYTES")
  BY <1>1 DEF is_on, imc_of
<1> QED BY <1>1, <1>2 DEF Widens, b

LEMMA WidensSimd ==
    ASSUME NEW a, Sound(a), NEW i \in a.ic_list, NEW code,
           NEW b \in change_simd(a, i)
    PROVE  Widens(a, b, i, code)
<1> DEFINE k == a.IC[i].imc
<1>1. a \in Memory /\ i \in ICID /\ k \in ICID /\ a.IMC[k] \in IMCRec
  BY HasIMC DEF Sound, Memory
<1>2. PICK S, n : n \in Inp /\ MovesSimd(a, b, k, S, n)
  BY <1>1, SimdIs
<1>3. CASE b = [a EXCEPT !.cinput = load_cinput(@, S)]
  BY <1>1, <1>3, LoadedKept, WidensSame DEF SameFlags, is_on, imc_of
<1>4. CASE b = [a EXCEPT !.cinput = load_cinput(@, S),
                         !.IMC[k].sinp_num = n, !.IMC[k].s_imodp = n,
                         !.default_im_sinmd = n, !.mode = @ \ {"SHOW_CINPUT"}]
  <2> DEFINE x == a.IMC[k]
             y == [x EXCEPT !.sinp_num = n, !.s_imodp = n]
             f == load_cinput(a.cinput, S)
             mode == a.mode \ {"SHOW_CINPUT"}
  <2>1. y.inp_state = x.inp_state
    BY <1>1 DEF IMCRec
  <2> HIDE DEF k
  <2>2. b = [a EXCEPT !.cinput = f, !.IMC[k] = y, !.default_im_sinmd = n,
                      !.mode = mode]
    BY <1>1, <1>4 DEF Memory
  <2> HIDE DEF y
  <2>3. b.IC = a.IC /\ b.mode = mode /\ b.IMC[k] = y
    BY <1>1, <2>2 DEF Memory
  <2>4. is_on(b, i, "2BYTES") <=> is_on(a, i, "2BYTES")
    BY <2>1, <2>3 DEF is_on, imc_of, k
  <2> QED BY <2>3, <2>4, WidensSame DEF SameFlags
<1> QED BY <1>2, <1>3, <1>4 DEF MovesSimd

LEMMA WidensHangUp ==
    ASSUME NEW a, NEW b \in Memory, NEW i \in ICID, NEW code,
           Widens(a, b, i, code)
    PROVE  Widens(a, xim_disconnect(b, i), i, code)
<1> DEFINE c == xim_disconnect(b, i)
<1>1. imc_of(c, i) = imc_of(b, i) /\ c.mode = b.mode
  BY ConnectKeyed
<1> QED BY <1>1 DEF Widens, is_on

LEMMA WidensFunckey ==
    ASSUME NEW a, Sound(a), Ready(a), NEW i \in a.ic_list, NEW key \in FKey,
           NEW b \in funckey(a, i, key)
    PROVE  Widens(a, b, i, key[1])
<1>1. a \in Memory /\ i \in ICID
  BY HasIMC DEF Sound
<1>2. Widens(a, a, i, key[1])
  BY WidensSame DEF SameFlags
<1>3. ASSUME NEW n, SingleIMC /\ n \notin Inp => is_on(a, i, "CINPUT")
      PROVE  Widens(a, change_IM(a, i, n), i, key[1])
  BY <1>3, TurnsChange, WidensTurns
<1>4. Widens(a, ZhEn(a, i), i, key[1])
  <2>1. imc_of(a, i).inp_num \in Inp
    BY HasIMC DEF imc_of, Sound, Memory, IMCRec
  <2> QED BY <1>3, <2>1 DEF ZhEn
<1>5. \A d \in {1, -1} : \A c \in circular_change_IM(a, i, d) :
         Widens(a, c, i, key[1])
  BY TurnsCircle, WidensTurns
<1>6. \A c \in change_simd(a, i) : Widens(a, c, i, key[1])
  BY WidensSimd
<1>7. Widens(a, enter_2bytes(a, a.IC[i].imc), i, "2BSB")
      /\ Widens(a, leave_2bytes(a, a.IC[i].imc), i, "2BSB")
  BY <1>1, WidensWide
<1>8. Widens(a, toggle_im_focus(a, i), i, "IMFOCUS")
  BY <1>1, WidensToggle
<1>9. key[1] = "IMN" => key[2] \in Inp
  BY DEF FKey, Plain
<1>10. key[1] = "IMN" => Widens(a, change_IM(a, i, key[2]), i, key[1])
  BY <1>3, <1>9
<1> QED BY <1>2, <1>4, <1>5, <1>6, <1>7, <1>8, <1>10 DEF funckey

LEMMA WidensForward ==
    ASSUME NEW a, Sound(a), Ready(a), NEW i \in a.ic_list, NEW key \in FKey,
           NEW b \in forward(a, i, key)
    PROVE  Widens(a, b, i, key[1])
<1>1. PICK c \in funckey(a, i, key) : b = c \/ b = xim_disconnect(c, i)
  BY DEF forward
<1>2. Widens(a, c, i, key[1])
  BY WidensFunckey
<1>3. c \in Memory /\ i \in ICID
  BY ActsFunckey, HasIMC DEF Acts, Keyed, Steady
<1> QED BY <1>1, <1>2, <1>3, WidensHangUp

LEMMA WidensTrigger ==
    ASSUME NEW a, Sound(a), Ready(a), NEW i \in a.ic_list, NEW key \in FKey,
           NEW b \in trigger(a, i, key)
    PROVE  Widens(a, b, i, key[1])
<1> DEFINE c == trigger_base(a, i)
<1>1. /\ Sound(c) /\ Ready(c) /\ i \in c.ic_list /\ c.mode = a.mode
      /\ imc_of(c, i).inp_state = imc_of(a, i).inp_state
  BY TriggerBaseIs
<1>2. b \in CASE key[1] = "ZHEN"    -> {trigger_IM(c, i, imc_of(c, i).inp_num)}
              [] key[1] = "2BSB"    -> {enter_2bytes(c, c.IC[i].imc)}
              [] key[1] = "CIRIM"   -> trigger_circle(c, i, 1)
              [] key[1] = "CIRRIM"  -> trigger_circle(c, i, -1)
              [] key[1] = "IMN"     -> {trigger_IM(c, i, key[2])}
              [] key[1] = "QPHRASE" -> {xim_disconnect(c, i)}
              [] OTHER              -> {c}
  BY DEF trigger
<1> HIDE DEF c
<1>3. c \in Memory /\ i \in ICID /\ imc_of(c, i).inp_num \in Inp
  BY <1>1, HasIMC DEF Sound, imc_of, Memory, IMCRec
<1>4. Widens(c, c, i, key[1])
  BY WidensSame DEF SameFlags
<1>5. ASSUME NEW d, Turns(c, d, i)
      PROVE  /\ Widens(c, d, i, key[1])
             /\ Widens(c, xim_disconnect(d, i), i, key[1])
  <2>1. Widens(c, d, i, key[1]) /\ d \in Memory
    BY <1>5, WidensTurns DEF Turns, Keyed, Steady
  <2> QED BY <1>3, <2>1, WidensHangUp
<1>6. ASSUME NEW n \in Inp
      PROVE  Widens(c, trigger_IM(c, i, n), i, key[1])
  <2>1. Turns(c, change_IM(c, i, n), i)
    BY <1>1, TurnsChange
  <2> QED BY <1>5, <2>1 DEF trigger_IM
<1>7. ASSUME NEW t \in {1, -1}, NEW e \in trigger_circle(c, i, t)
      PROVE  Widens(c, e, i, key[1])
  <2>1. PICK d \in circular_change_IM(c, i, t) : e = d \/ e = xim_disconnect(d, i)
    BY <1>7 DEF trigger_circle
  <2>2. Turns(c, d, i)
    BY <1>1, TurnsCircle
  <2> QED BY <1>5, <2>1, <2>2
<1>8. Widens(c, enter_2bytes(c, c.IC[i].imc), i, "2BSB")
  BY <1>3, WidensWide
<1>9. Widens(c, xim_disconnect(c, i), i, key[1])
  BY <1>3, <1>4, WidensHangUp
<1>10. key[1] = "IMN" => key[2] \in Inp
  BY DEF FKey, Plain
<1>11. Widens(c, b, i, key[1])
  BY <1>2, <1>3, <1>4, <1>6, <1>7, <1>8, <1>9, <1>10
<1> QED BY <1>1, <1>11 DEF Widens, is_on

-----------------------------------------------------------------------------
(***************************************************************************)
(* The connection and the focus status of each IC.  With an IMC each, what *)
(* is done for one IC does not change those of another.                    *)
(***************************************************************************)
LEMMA OthersKept ==
    ASSUME ~SingleIMC, NEW a, Sound(a), NEW b, NEW i \in a.ic_list,
           Local(a, b, i), NEW j \in a.ic_list, j # i
    PROVE  (Told(a, j) => Told(b, j)) /\ (Lit(a, j) => Lit(b, j))
<1>1. i \in ICID /\ j \in ICID /\ a.IC[i].imc = i /\ a.IC[j].imc = j
  BY HasIMC DEF Sound, Attached, Owned
<1>2. b.IC[j] = a.IC[j] /\ b.IMC[j] = a.IMC[j]
  BY <1>1 DEF Local
<1>3. imc_of(b, j) = imc_of(a, j)
  BY <1>1, <1>2 DEF imc_of
<1> QED BY <1>2, <1>3 DEF Told, Lit, is_on

\* A new IC is neither connected nor in an input mode, and the others keep
\* what they have.
LEMMA CreateTells ==
    ASSUME ~SingleIMC, NEW a, Sound(a), NEW i \in new_ids(a), NEW b, NEW c, NEW v,
           Creates(a, b, i, c, v), NEW j \in b.ic_list
    PROVE  /\ j = i => Told(b, j) /\ Lit(b, j)
           /\ j # i => /\ j \in a.ic_list
                       /\ Told(a, j) => Told(b, j)
                       /\ Lit(a, j) => Lit(b, j)
<1>1. Fresh(a) /\ imc_for(a, i) = i /\ i \in ICID
  BY NewIMC, NewId DEF Fresh
<1>2. CASE j = i
  <2>1. b.IC[j].imc = i /\ b.IC[j].ic_state = {"NEWIC"} /\ b.IMC[i].inp_state = {}
    BY <1>1, <1>2 DEF Creates, ZeroIMC
  <2> QED BY <1>2, <2>1 DEF Told, Lit, is_on, imc_of
<1>3. CASE j # i
  <2>1. j \in a.ic_list /\ b.ic_list = a.ic_list \cup {i}
    BY <1>3 DEF Creates
  <2>2. j \in ICID /\ a.IC[j].imc = j
    BY <2>1, HasIMC DEF Sound, Attached, Owned
  <2>3. b.IC[j] = a.IC[j] /\ b.IMC[j] = a.IMC[j]
    BY <1>1, <1>3, <2>2 DEF Creates
  <2>4. imc_of(b, j) = imc_of(a, j)
    BY <2>2, <2>3 DEF imc_of
  <2> QED BY <1>3, <2>1, <2>3, <2>4 DEF Told, Lit, is_on
<1> QED BY <1>2, <1>3

\* A calm step keeps them too, and the connections unless the server exits.
LEMMA CalmTells ==
    ASSUME NEW a, NEW b, Sound(b), Calm(a, b), NEW j \in b.ic_list
    PROVE  /\ j \in a.ic_list
           /\ "RUN_EXIT" \notin b.mode => (Told(a, j) => Told(b, j))
           /\ Lit(a, j) => Lit(b, j)
<1>1. b.IC[j].imc \in b.imc_list
  BY HasIMC
<1>2. /\ j \in a.ic_list /\ b.IC[j].imc = a.IC[j].imc
      /\ SameFlags(a.IC[j].ic_state, b.IC[j].ic_state,
                   IF "RUN_EXIT" \in b.mode THEN {"NEWIC", "FOCUS"} ELSE ICState)
      /\ b.IMC[b.IC[j].imc].inp_state = a.IMC[b.IC[j].imc].inp_state
  BY <1>1 DEF Calm
<1>3. \A f : is_on(b, j, f) <=> is_on(a, j, f)
  BY <1>2 DEF is_on, imc_of
<1>4. "FOCUS" \in b.IC[j].ic_state <=> "FOCUS" \in a.IC[j].ic_state
  BY <1>2 DEF SameFlags, ICState
<1>5. "RUN_EXIT" \notin b.mode
      => ("CONNECT" \in b.IC[j].ic_state <=> "CONNECT" \in a.IC[j].ic_state)
  BY <1>2 DEF SameFlags, ICState
<1> QED BY <1>2, <1>3, <1>4, <1>5 DEF Told, Lit

-----------------------------------------------------------------------------
\* The Chinese focus status.
LitInv == ReadyInv /\ \A i \in m.ic_list : Lit(m, i)

LEMMA NextLit ==
    ASSUME ~SingleIMC, InStep
    PROVE  LitInv /\ [Next]_vars => LitInv'
<1> SUFFICES ASSUME LitInv, [Next]_vars, NEW j \in m'.ic_list
             PROVE  Lit(m', j)
  BY NextReady DEF LitInv
<1>1. /\ IInv /\ Sound(m) /\ Ready(m) /\ Moving
      /\ \A i \in m.ic_list : Lit(m, i)
      /\ m.ic_list \subseteq ICID
  BY NextMoves DEF LitInv, ReadyInv, IInv, TypeOK, Sound, Memory
<1>2. CASE Calm(m, m')
  <2>1. Sound(m')
    BY <1>1, NextIInv DEF IInv, TypeOK, Sound
  <2> QED BY <1>1, <1>2, <2>1, CalmTells
<1>3. CASE Creation
  BY <1>1, <1>3, CreateTells DEF Creation
<1>4. ASSUME NEW i \in m.ic_list,
             \/ Focusing(i) \/ UnsetsFocus(m, m', i)
             \/ Triggering(i) \/ Forwarding(i)
      PROVE  Lit(m', j)
  <2>1. Local(m, m', i)
    BY <1>1, <1>4, ServingLocal
  <2>2. j \in m.ic_list
    BY <2>1 DEF Local
  <2>3. CASE j # i
    BY <1>1, <2>1, <2>2, <2>3, OthersKept
  <2>4. ASSUME "FOCUS" \in m'.IC[i].ic_state, FocusFits(imc_of(m', i).inp_state)
        PROVE  Lit(m', i)
    BY <2>4 DEF Lit, FocusFits, is_on
  <2>5. "FOCUS" \in m.IC[i].ic_state => FocusFits(imc_of(m, i).inp_state)
    BY <1>1 DEF Lit, FocusFits, is_on
  <2>6. CASE Focusing(i)
    BY <2>3, <2>4, <2>6 DEF Focusing, SetsFocus
  <2>7. CASE UnsetsFocus(m, m', i)
    BY <1>1, <2>3, <2>7 DEF UnsetsFocus
  <2>8. CASE Triggering(i)
    <3>1. PICK key \in FKey : m' \in trigger(m, i, key)
      BY <2>8, ServerAssumption DEF Triggering
    <3>2. "FOCUS" \in m.IC[i].ic_state
      BY <2>8 DEF Triggering, InFocus
    <3>3. /\ "FOCUS" \in m'.IC[i].ic_state
          /\ FocusFits(imc_of(m, i).inp_state) => FocusFits(imc_of(m', i).inp_state)
      BY <1>1, <3>1, TriggerIs
    <3> QED BY <2>3, <2>4, <2>5, <3>2, <3>3
  <2>9. CASE Forwarding(i)
    <3>1. PICK key \in FKey : m' \in forward(m, i, key)
      BY <2>9, ServerAssumption DEF Forwarding
    <3>2. "FOCUS" \in m.IC[i].ic_state
      BY <2>9 DEF Forwarding, InFocus
    <3>3. /\ Keyed(m, m', i)
          /\ FocusFits(imc_of(m, i).inp_state) => FocusFits(imc_of(m', i).inp_state)
      BY <1>1, <3>1, ForwardIs
    <3>4. "FOCUS" \in m'.IC[i].ic_state
      BY <3>2, <3>3 DEF Keyed, SameFlags
    <3> QED BY <2>3, <2>4, <2>5, <3>2, <3>3, <3>4
  <2> QED BY <1>4, <2>6, <2>7, <2>8, <2>9
<1> QED BY <1>1, <1>2, <1>3, <1>4 DEF Moving, Serving

\* An IC has the Chinese focus status exactly when it is in Chinese mode and
\* has the input focus, for clients that send keys only for the IC in focus.
THEOREM ChineseFocusKept ==
    ASSUME ~SingleIMC, InStep
    PROVE  Spec => []ChineseFocus
<1>1. Init => LitInv
  <2>1. Init => m.ic_list = {}
    BY DEF Init, StartMemory, load_default_sinmd
  <2> QED BY <2>1, InitReady DEF LitInv
<1>2. LitInv => ChineseFocus
  BY DEF LitInv, Lit, ChineseFocus, InFocus
<1> QED BY <1>1, <1>2, NextLit, PTL DEF Spec

-----------------------------------------------------------------------------
(***************************************************************************)
(* The connection.  A new IC that gets the focus while the focus of the    *)
(* wide ASCII mode is running is connected without entering that mode, so  *)
(* the two settings that make it run must not meet: the IM focus, and the  *)
(* key that switches the wide ASCII mode.                                  *)
(***************************************************************************)
NoIMFocus == /\ \A mode \in StartModes : "IM_FOCUS" \notin mode
             /\ \A key \in ForwardKeys : key[1] # "IMFOCUS"

NoWide == \A key \in TriggerKeys \cup ForwardKeys : key[1] # "2BSB"

Narrow(a) ==
    /\ "RUN_2B_FOCUS" \notin a.mode
    /\ NoIMFocus => "IM_FOCUS" \notin a.mode
    /\ NoWide => \A k \in a.imc_list : "2BYTES" \notin a.IMC[k].inp_state

ToldInv == /\ ReadyInv /\ Narrow(m)
           /\ ~Exiting => \A i \in m.ic_list : Told(m, i)

LEMMA NarrowLocal ==
    ASSUME NEW a, Sound(a), Narrow(a), NEW i \in a.ic_list, NEW b,
           Local(a, b, i), "RUN_2B_FOCUS" \notin b.mode,
           NoIMFocus => ("IM_FOCUS" \in b.mode => "IM_FOCUS" \in a.mode),
           NoWide => (is_on(b, i, "2BYTES") => is_on(a, i, "2BYTES"))
    PROVE  Narrow(b)
<1>1. a.IC[i].imc \in a.imc_list /\ a.imc_list \subseteq ICID
  BY HasIMC DEF Sound, Memory
<1>2. ASSUME NoWide, NEW k \in b.imc_list
      PROVE  "2BYTES" \notin b.IMC[k].inp_state
  <2>1. k \in a.imc_list /\ "2BYTES" \notin a.IMC[k].inp_state
    BY <1>2 DEF Local, Narrow
  <2>2. CASE k = a.IC[i].imc
    BY <1>2, <2>1, <2>2 DEF is_on, imc_of, Local
  <2>3. CASE k # a.IC[i].imc
    BY <1>1, <2>1, <2>3 DEF Local
  <2> QED BY <2>2, <2>3
<1> QED BY <1>2 DEF Narrow

\* A key that the client sends by its event mask keeps the invariant.
LEMMA NarrowKey ==
    ASSUME NEW a, Sound(a), Narrow(a), NEW i \in a.ic_list, NEW b,
           Local(a, b, i), NEW key, Widens(a, b, i, key[1]),
           NoIMFocus \/ NoWide,
           NoIMFocus => key[1] # "IMFOCUS",
           NoWide => key[1] # "2BSB",
           key[1] = "IMFOCUS" => is_on(a, i, "CINPUT") \/ is_on(a, i, "2BYTES")
    PROVE  Narrow(b)
<1>1. NoWide => ~is_on(a, i, "2BYTES")
  BY HasIMC DEF Narrow, is_on, imc_of
<1>2. "RUN_2B_FOCUS" \notin b.mode
  BY <1>1 DEF Widens, Narrow
<1> QED BY <1>2, NarrowLocal DEF Widens

LEMMA NextTold ==
    ASSUME ~SingleIMC, InStep, \A key \in TriggerKeys : key[1] \in OnCodes,
           NoIMFocus \/ NoWide
    PROVE  ToldInv /\ [Next]_vars => ToldInv'
<1> SUFFICES ASSUME ToldInv, [Next]_vars
             PROVE  /\ Narrow(m')
                    /\ ~Exiting' => \A j \in m'.ic_list : Told(m', j)
  BY NextReady DEF ToldInv
<1>1. /\ IInv /\ Sound(m) /\ Ready(m) /\ Moving /\ Narrow(m)
      /\ ~Exiting => \A i \in m.ic_list : Told(m, i)
      /\ m.ic_list \subseteq ICID /\ m.imc_list \subseteq ICID
  BY NextMoves DEF ToldInv, ReadyInv, IInv, TypeOK, Sound, Memory
<1>2. CASE Calm(m, m')
  <2>1. Sound(m')
    BY <1>1, NextIInv DEF IInv, TypeOK, Sound
  <2>2. ~Exiting' => ~Exiting
    BY <1>2 DEF Calm, Exiting
  <2>3. Narrow(m')
    <3>1. /\ SameFlags(m.mode, m'.mode, {"IM_FOCUS", "RUN_2B_FOCUS"})
          /\ m'.imc_list \subseteq m.imc_list
          /\ \A k \in m'.imc_list : m'.IMC[k].inp_state = m.IMC[k].inp_state
      BY <1>2 DEF Calm, Idle, SameFlags
    <3> QED BY <1>1, <3>1 DEF Narrow, SameFlags
  <2> QED BY <1>1, <1>2, <2>1, <2>2, <2>3, CalmTells DEF Exiting
<1>3. CASE ~Exiting /\ Creation
  <2>1. PICK c \in clients, v \in CreateValues, i \in new_ids(m) :
          Creates(m, m', i, c, v)
    BY <1>3 DEF Creation
  <2>2. imc_for(m, i) = i /\ Fresh(m) /\ i \in ICID
    BY <1>1, NewIMC, NewId DEF Fresh
  <2>3. Narrow(m')
    <3>1. m'.mode = m.mode /\ m'.imc_list = m.imc_list \cup {i}
          /\ m'.IMC[i].inp_state = {}
          /\ \A k \in ICID : k # i => m'.IMC[k] = m.IMC[k]
      BY <2>1, <2>2 DEF Creates, ZeroIMC
    <3> QED BY <1>1, <3>1 DEF Narrow
  <2> QED BY <1>1, <1>3, <2>1, <2>3, CreateTells
<1>4. ASSUME ~Exiting, NEW i \in m.ic_list,
             \/ Focusing(i) \/ UnsetsFocus(m, m', i)
             \/ Triggering(i) \/ Forwarding(i)
      PROVE  Narrow(m') /\ \A j \in m'.ic_list : Told(m', j)
  <2>1. Local(m, m', i)
    BY <1>1, <1>4, ServingLocal
  <2>2. \A j \in m'.ic_list : j # i => Told(m', j)
    <3>1. ASSUME NEW j \in m'.ic_list, j # i
          PROVE  Told(m', j)
      <4>1. j \in m.ic_list
        BY <2>1 DEF Local
      <4> QED BY <1>1, <1>4, <2>1, <3>1, <4>1, OthersKept
    <3> QED BY <3>1
  <2>3. Told(m, i) /\ i \in ICID
    BY <1>1, <1>4
  <2>4. CASE Focusing(i)
    <3>1. /\ SameFlags(m.mode, m'.mode, Steering)
          /\ is_on(m', i, "2BYTES") <=> is_on(m, i, "2BYTES")
          /\ "RUN_2B_FOCUS" \notin m.mode /\ Told(m, i) => Told(m', i)
      BY <2>4 DEF Focusing, SetsFocus
    <3>2. SameFlags(m.mode, m'.mode, {"IM_FOCUS", "RUN_2B_FOCUS"})
      BY <3>1 DEF SameFlags, Steering, ModeFlag
    <3>3. Narrow(m')
      BY <1>1, <2>1, <3>1, <3>2, NarrowLocal DEF Narrow, SameFlags
    <3> QED BY <1>1, <2>2, <2>3, <3>1, <3>3 DEF Narrow
  <2>5. CASE UnsetsFocus(m, m', i)
    <3>1. /\ m'.mode = m.mode
          /\ SameFlags(m.IC[i].ic_state, m'.IC[i].ic_state, {"NEWIC", "CONNECT"})
          /\ SameFlags(imc_of(m, i).inp_state, imc_of(m', i).inp_state,
                       {"CINPUT", "2BYTES"})
      BY <2>5 DEF UnsetsFocus
    <3>2. Told(m', i) /\ (is_on(m', i, "2BYTES") <=> is_on(m, i, "2BYTES"))
      BY <2>3, <3>1 DEF SameFlags, Told, is_on
    <3>3. Narrow(m')
      BY <1>1, <2>1, <3>1, <3>2, NarrowLocal DEF Narrow
    <3> QED BY <2>2, <3>2, <3>3
  <2>6. CASE Triggering(i)
    <3>1. PICK key \in TriggerKeys : m' \in trigger(m, i, key)
      BY <2>6 DEF Triggering
    <3>2. key \in FKey /\ key[1] \in OnCodes
      BY ServerAssumption
    <3>3. Off(m, i)
      BY <2>3, <2>6 DEF Triggering, Connected, Told, Off
    <3>4. Told(m', i)
      BY <1>1, <3>1, <3>2, <3>3, TriggerIs
    <3>5. Widens(m, m', i, key[1])
      BY <1>1, <3>1, <3>2, WidensTrigger
    <3>6. key[1] # "IMFOCUS" /\ (NoWide => key[1] # "2BSB")
      BY <3>2 DEF OnCodes, NoWide
    <3>7. Narrow(m')
      BY <1>1, <2>1, <3>5, <3>6, NarrowKey
    <3> QED BY <2>2, <3>4, <3>7
  <2>7. CASE Forwarding(i)
    <3>1. PICK key \in ForwardKeys : m' \in forward(m, i, key)
      BY <2>7 DEF Forwarding
    <3>2. key \in FKey /\ (NoIMFocus => key[1] # "IMFOCUS")
          /\ (NoWide => key[1] # "2BSB")
      BY ServerAssumption DEF NoIMFocus, NoWide
    <3>3. "CONNECT" \in m.IC[i].ic_state
      BY <2>7 DEF Forwarding, Connected
    <3>4. Told(m', i)
      BY <1>1, <3>1, <3>2, <3>3, ForwardIs
    <3>5. Widens(m, m', i, key[1])
      BY <1>1, <3>1, <3>2, WidensForward
    <3>6. is_on(m, i, "CINPUT") \/ is_on(m, i, "2BYTES")
      BY <2>3, <3>3 DEF Told
    <3>7. Narrow(m')
      BY <1>1, <2>1, <3>2, <3>5, <3>6, NarrowKey
    <3> QED BY <2>2, <3>4, <3>7
  <2> QED BY <1>4, <2>4, <2>5, <2>6, <2>7
<1> QED BY <1>1, <1>2, <1>3, <1>4 DEF Moving, Serving

\* Until the server exits, the client of an IC sends its keys to the server
\* exactly when the IC is in Chinese or wide ASCII mode: the connection that
\* the handlers open and close in six places follows the modes that the
\* functional keys switch (xim.c), for clients in step with the server, the
\* keys that make_trigger_keys() registers as triggers, and settings in which
\* the IM focus and the wide ASCII mode do not meet.
THEOREM ConnectionsMatchModes ==
    ASSUME ~SingleIMC, InStep, \A key \in TriggerKeys : key[1] \in OnCodes,
           NoIMFocus \/ NoWide
    PROVE  Spec => [](Exiting \/ ConnectionMatchesMode)
<1>1. Init => ToldInv
  <2> SUFFICES ASSUME Init
               PROVE  Narrow(m) /\ m.ic_list = {}
    BY InitReady DEF ToldInv
  <2>1. PICK mode \in StartModes, d \in DefaultIMs, s \in Sinmds :
          m = StartMemory(mode, Named, d, s)
    BY DEF Init
  <2>2. /\ m.ic_list = {} /\ m.imc_list = {}
        /\ m.mode = mode \/ m.mode = mode \cup {"SHOW_CINPUT"}
    BY <2>1 DEF StartMemory, load_default_sinmd
  <2>3. "RUN_2B_FOCUS" \notin mode
    BY ServerAssumption
  <2> QED BY <2>2, <2>3 DEF Narrow, NoIMFocus
<1>2. ToldInv => (Exiting \/ ConnectionMatchesMode)
  BY DEF ToldInv, Told, ConnectionMatchesMode, Connected
<1> QED BY <1>1, <1>2, NextTold, PTL DEF Spec

-----------------------------------------------------------------------------
(***************************************************************************)
(* The circular keys.  Loading modules never changes which entries of the  *)
(* table change_IM() accepts: an entry without a loadable module is freed, *)
(* and is no more accepted than before.  So the way back from an entry     *)
(* skips exactly the entries that the way there skipped.                   *)
(***************************************************************************)
LEMMA CircleAt ==
    ASSUME NEW s \in 0..NInp, NEW t \in 0..(NInp + 1)
    PROVE  /\ circle(s, 1, t) = IF s + t <= NInp THEN s + t
                                                 ELSE s + t - (NInp + 1)
           /\ circle(s, -1, t) = IF t <= s THEN s - t
                                           ELSE s - t + (NInp + 1)
<1> DEFINE c == NInp + 1
<1>1. c \in Nat \ {0} /\ s \in 0..(c - 1) /\ t \in 0..c
  BY StateAssumption
<1>2. circle(s, 1, t) = (s + t) % c /\ circle(s, -1, t) = (s - t) % c
  <2>1. s + 1 * t = s + t /\ s + (-1) * t = s - t
    BY <1>1
  <2> QED BY <2>1 DEF circle
<1> HIDE DEF c
<1>3. (s + t) % c = IF s + t < c THEN s + t ELSE s + t - c
  <2>1. CASE s + t < c
    BY <1>1, <2>1
  <2>2. CASE ~(s + t < c)
    <3> DEFINE r == s + t - c
    <3>1. r \in 0..(c - 1) /\ s + t = c + r
      BY <1>1, <2>2
    <3> HIDE DEF r
    <3>2. (c + r) % c = r
      BY <1>1, <3>1
    <3> QED BY <2>2, <3>1, <3>2 DEF r
  <2> QED BY <2>1, <2>2
<1>4. (s - t) % c = IF t <= s THEN s - t ELSE s - t + c
  <2>1. CASE t <= s
    BY <1>1, <2>1
  <2>2. CASE ~(t <= s)
    <3> DEFINE r == s - t + c
    <3>1. r \in 0..(c - 1) /\ s - t = r - c
      BY <1>1, <2>2
    <3> HIDE DEF r
    <3>2. (r - c) % c = r
      BY <1>1, <3>1
    <3> QED BY <2>2, <3>1, <3>2 DEF r
  <2> QED BY <2>1, <2>2
<1>5. /\ circle(s, 1, t) = IF s + t < c THEN s + t ELSE s + t - c
      /\ circle(s, -1, t) = IF t <= s THEN s - t ELSE s - t + c
  BY <1>2, <1>3, <1>4
<1>6. c = NInp + 1 /\ (s + t < c <=> s + t <= NInp)
  BY <1>1, StateAssumption DEF c
<1> QED BY <1>5, <1>6

\* Turning back by u steps after t steps is turning t - u steps.
LEMMA CircleBack ==
    ASSUME NEW s \in 0..NInp, NEW d \in {1, -1},
           NEW t \in 0..(NInp + 1), NEW u \in 0..t
    PROVE  /\ circle(s, d, t) \in 0..NInp
           /\ circle(circle(s, d, t), -d, u) = circle(s, d, t - u)
           /\ circle(s, d, 0) = s /\ circle(s, d, NInp + 1) = s
<1> DEFINE p == circle(s, d, t)
<1>1. NInp \in Nat \ {0} /\ t - u \in 0..(NInp + 1) /\ u \in 0..(NInp + 1)
      /\ 0 \in 0..(NInp + 1) /\ NInp + 1 \in 0..(NInp + 1)
  BY StateAssumption
<1>2. p = IF d = 1 THEN IF s + t <= NInp THEN s + t ELSE s + t - (NInp + 1)
                   ELSE IF t <= s THEN s - t ELSE s - t + (NInp + 1)
  BY CircleAt
<1>3. circle(s, d, t - u) =
         IF d = 1 THEN IF s + (t - u) <= NInp THEN s + (t - u)
                                              ELSE s + (t - u) - (NInp + 1)
                  ELSE IF t - u <= s THEN s - (t - u)
                                     ELSE s - (t - u) + (NInp + 1)
  BY <1>1, CircleAt
<1>4. circle(s, d, 0) = s /\ circle(s, d, NInp + 1) = s
  <2>1. /\ circle(s, 1, 0) = s /\ circle(s, 1, NInp + 1) = s
        /\ circle(s, -1, 0) = s /\ circle(s, -1, NInp + 1) = s
    BY <1>1, CircleAt
  <2> QED BY <2>1
<1>5. p \in 0..NInp
  BY <1>1, <1>2
<1> HIDE DEF p
<1>6. circle(p, -d, u) =
         IF d = 1 THEN IF u <= p THEN p - u ELSE p - u + (NInp + 1)
                  ELSE IF p + u <= NInp THEN p + u ELSE p + u - (NInp + 1)
  <2>1. CASE d = 1
    BY <1>1, <1>5, <2>1, CircleAt
  <2>2. CASE d = -1
    <3>1. -d = 1
      <4>1. \A x \in Int : x + 1 = 0 => -x = 1
        OBVIOUS
      <4>2. d \in Int /\ d + 1 = 0
        BY <2>2
      <4> QED BY <4>1, <4>2
    <3> QED BY <1>1, <1>5, <2>2, <3>1, CircleAt
  <2> QED BY <2>1, <2>2
<1>7. circle(p, -d, u) = circle(s, d, t - u)
  BY <1>1, <1>2, <1>3, <1>6
<1> QED BY <1>4, <1>5, <1>7 DEF p

\* The entries that change_IM() accepts stay the same.
SameTable(a, b) == \A n : change_IM_ok(a, n) <=> change_IM_ok(b, n)

LEMMA LoadSameTable ==
    ASSUME NEW a \in Memory, NEW b, NEW S, b.cinput = load_cinput(a.cinput, S)
    PROVE  SameTable(a, b)
<1>1. \A n \in Inp : can_bind(a, n) <=> can_bind(b, n)
  BY DEF can_bind, load_cinput
<1> QED BY <1>1 DEF SameTable, change_IM_ok

\* change_IM() enters the entry that it accepts, or English mode.
LEMMA ChangeReaches ==
    ASSUME NEW a, Sound(a), Ready(a), NEW i \in a.ic_list,
           NEW n \in 0..NInp, change_IM_ok(a, n)
    PROVE  /\ InputMode(change_IM(a, i, n), i) = n
           /\ SameTable(a, change_IM(a, i, n))
<1> DEFINE k == a.IC[i].imc
           b == change_IM(a, i, n)
<1>1. a \in Memory /\ i \in ICID /\ k \in ICID /\ k \in a.imc_list
  BY HasIMC DEF Sound
<1>2. Switched(a, b, i, n) /\ b.IC = a.IC
  BY ChangeSwitches
<1>3. CASE n \notin Inp
  <2>1. n = English
    BY <1>3, StateAssumption DEF Inp, English
  <2>2. "CINPUT" \notin imc_of(b, i).inp_state
    BY <1>2, <1>3 DEF Switched, Unset
  <2>3. b.cinput = a.cinput
    BY <1>1, <1>3, EnglishIs DEF change_IM, EntersEnglish
  <2> QED BY <2>1, <2>2, <2>3 DEF InputMode, SameTable, change_IM_ok, can_bind
<1>4. CASE n \in Inp
  <2>1. can_bind(a, n)
    BY <1>4 DEF change_IM_ok
  <2>2. b = enter_IM(a, k, n)
    BY <1>4, <2>1 DEF change_IM
  <2>3. "CINPUT" \in imc_of(b, i).inp_state
    BY <1>2, <1>4, <2>1 DEF Switched, Chinese
  <2>4. imc_of(b, i).inp_num = n
    <3>1. EntersIM(a, b, k, n)
      BY <1>1, <1>4, <2>2, EnterIs
    <3> HIDE DEF b
    <3> QED BY <1>2, <3>1 DEF EntersIM, imc_of
  <2>5. b.cinput = load_cinput(a.cinput, {n})
    BY <1>1, <2>2 DEF enter_IM, follow_IM, Memory
  <2>6. SameTable(a, b)
    BY <1>1, <2>5, LoadSameTable
  <2> QED BY <2>3, <2>4, <2>6 DEF InputMode
<1> QED BY <1>3, <1>4

\* t steps in direction d from s is the first entry that is accepted.
First(a, s, d, t) ==
    /\ change_IM_ok(a, circle(s, d, t))
    /\ \A u \in 1..(t - 1) : ~change_IM_ok(a, circle(s, d, u))

\* The entry an IC is in is accepted.
LEMMA ModeAccepted ==
    ASSUME NEW a, Sound(a), Ready(a), NEW i \in a.ic_list
    PROVE  InputMode(a, i) \in 0..NInp /\ change_IM_ok(a, InputMode(a, i))
<1>1. a \in Memory /\ a.IC[i].imc \in ICID /\ a.IC[i].imc \in a.imc_list
  BY HasIMC DEF Sound
<1>2. imc_of(a, i).inp_num \in Inp /\ Live(a, imc_of(a, i).inp_num)
  <2>1. imc_of(a, i) \in IMCRec
    BY <1>1 DEF imc_of, Memory
  <2>2. Bound(a, imc_of(a, i))
    BY <1>1 DEF Ready, Fits, imc_of
  <2> QED BY <2>1, <2>2 DEF IMCRec, Bound
<1>3. NInp \in Nat \ {0} /\ English = NInp /\ English \notin Inp
  BY StateAssumption DEF English, Inp
<1>4. CASE "CINPUT" \in imc_of(a, i).inp_state
  BY <1>2, <1>3, <1>4 DEF InputMode, Inp, change_IM_ok, can_bind, Live
<1>5. CASE "CINPUT" \notin imc_of(a, i).inp_state
  BY <1>3, <1>5 DEF InputMode, change_IM_ok
<1> QED BY <1>4, <1>5

\* circular_change_IM() has one outcome, in the first entry that is accepted.
LEMMA CircleIs ==
    ASSUME NEW a, Sound(a), Ready(a), NEW i \in a.ic_list, NEW d \in {1, -1}
    PROVE  \E t, b :
              /\ t \in 1..(NInp + 1)
              /\ First(a, InputMode(a, i), d, t)
              /\ circular_change_IM(a, i, d) = {b}
              /\ InputMode(b, i) = circle(InputMode(a, i), d, t)
              /\ SameTable(a, b)
              /\ Sound(b) /\ Ready(b) /\ i \in b.ic_list
<1> DEFINE s == InputMode(a, i)
           passed(t) == {circle(s, d, u) : u \in 1..(t - 1)}
           out(t) == change_IM([a EXCEPT !.cinput = load_cinput(@, passed(t))],
                               i, circle(s, d, t))
           S == {t \in 1..(NInp + 1) : change_IM_ok(a, circle(s, d, t))}
<1>1. s \in 0..NInp /\ change_IM_ok(a, s)
  BY ModeAccepted
<1>2. NInp + 1 \in 1..(NInp + 1) /\ 1..(NInp + 1) \subseteq 0..(NInp + 1)
  BY StateAssumption
<1>3. circular_change_IM(a, i, d) =
        {out(t) : t \in {t \in 1..(NInp + 1) :
                           /\ change_IM_ok(a, circle(s, d, t))
                           /\ \A n \in passed(t) : ~change_IM_ok(a, n)}}
  BY DEF circular_change_IM, InputMode, imc_of
<1>4. \A t : (\A n \in passed(t) : ~change_IM_ok(a, n))
             <=> (\A u \in 1..(t - 1) : ~change_IM_ok(a, circle(s, d, u)))
  OBVIOUS
<1> HIDE DEF s, passed
<1>5. S \in SUBSET Nat /\ S # {}
  <2>1. circle(s, d, NInp + 1) = s
    <3>1. 0 \in 0..(NInp + 1) /\ 0 \in 0..0
      BY StateAssumption
    <3> QED BY <1>1, <3>1, CircleBack
  <2> QED BY <1>1, <1>2, <2>1
<1>6. PICK t \in S : \A k \in S : t <= k
  <2> HIDE DEF S
  <2> QED BY <1>5, LeastElement
<1>7. First(a, s, d, t)
  <2> SUFFICES ASSUME NEW u \in 1..(t - 1), change_IM_ok(a, circle(s, d, u))
               PROVE  FALSE
    BY DEF First
  <2>1. t \in 1..(NInp + 1) /\ u \in 1..(NInp + 1) /\ u < t
    BY StateAssumption
  <2>2. u \in S
    BY <2>1
  <2> QED BY <1>6, <2>1, <2>2
<1>8. \A v \in 1..(NInp + 1) : First(a, s, d, v) <=> v = t
  <2> SUFFICES ASSUME NEW v \in 1..(NInp + 1), First(a, s, d, v), v # t
               PROVE  FALSE
    BY <1>7
  <2>1. v \in S /\ t \in 1..(NInp + 1) /\ t <= v
    BY <1>6 DEF First
  <2>2. t \in 1..(v - 1)
    BY <2>1, StateAssumption
  <2> QED BY <2>2 DEF First
<1>9. circular_change_IM(a, i, d) = {out(t)}
  <2>1. {v \in 1..(NInp + 1) : /\ change_IM_ok(a, circle(s, d, v))
                               /\ \A n \in passed(v) : ~change_IM_ok(a, n)}
        = {v \in 1..(NInp + 1) : First(a, s, d, v)}
    BY <1>4 DEF First
  <2>2. {v \in 1..(NInp + 1) : First(a, s, d, v)} = {t}
    BY <1>8
  <2>3. circular_change_IM(a, i, d) = {out(v) : v \in {t}}
    BY <1>3, <2>1, <2>2
  <2> QED BY <2>3
<1> DEFINE e == [a EXCEPT !.cinput = load_cinput(@, passed(t))]
           n == circle(s, d, t)
<1>10. a \in Memory /\ i \in ICID
  BY DEF Sound, Memory
<1>11. /\ e.IC = a.IC /\ e.IMC = a.IMC /\ e.mode = a.mode
       /\ e.ic_list = a.ic_list /\ e.cinput = load_cinput(a.cinput, passed(t))
  BY <1>10 DEF Memory
<1>12. Ready(e) /\ Keyed(a, e, i)
  <2>1. a.IC[i].imc \in ICID
    BY HasIMC DEF Sound
  <2> QED BY <1>10, <2>1, ReadyLoad, KeyedLoad
<1>13. Sound(e)
  BY <1>12, SteadySound DEF Keyed
<1>14. SameTable(a, e)
  BY <1>10, <1>11, LoadSameTable
<1>15. n \in 0..NInp /\ change_IM_ok(e, n)
  <2>1. t \in 0..(NInp + 1) /\ 0 \in 0..t
    BY <1>2
  <2>2. n \in 0..NInp
    BY <1>1, <2>1, CircleBack
  <2> QED BY <1>7, <1>14, <2>2 DEF First, SameTable
<1> DEFINE b == out(t)
<1> HIDE DEF e, n
<1>16. b = change_IM(e, i, n)
  BY DEF e, n
<1>17. InputMode(b, i) = n /\ SameTable(a, b)
  <2>1. InputMode(b, i) = n /\ SameTable(e, b)
    BY <1>11, <1>13, <1>12, <1>15, <1>16, ChangeReaches
  <2> QED BY <1>14, <2>1 DEF SameTable
<1>18. Turns(a, b, i)
  BY <1>9, TurnsCircle
<1>19. Sound(b) /\ Ready(b) /\ i \in b.ic_list
  BY <1>18, SteadySound DEF Turns, Keyed, Steady
<1> HIDE DEF b
<1> QED BY <1>7, <1>9, <1>17, <1>19, <1>6 DEF b, s, n

\* change_simd() has one outcome: it tries every entry, and the default one
\* is loaded.
LEMMA SimdOnce ==
    ASSUME NEW a, Sound(a), Ready(a), NEW i \in a.ic_list
    PROVE  \E b : change_simd(a, i) = {b}
<1> DEFINE k == a.IC[i].imc
           s == a.IMC[k].sinp_num
           next(t) == (s + t) % NInp
           tried(t) == {next(u) : u \in 1..t}
           loaded(t) == [a EXCEPT !.cinput = load_cinput(@, tried(t))]
           out(t) == IF next(t) = s THEN loaded(t)
                     ELSE [loaded(t) EXCEPT !.IMC[k].sinp_num = next(t),
                                            !.IMC[k].s_imodp = next(t),
                                            !.default_im_sinmd = next(t),
                                            !.mode = @ \ {"SHOW_CINPUT"}]
           first(t) == /\ can_bind(a, next(t))
                       /\ \A n \in tried(t - 1) : ~can_bind(a, n)
           S == {t \in 1..NInp : can_bind(a, next(t))}
<1>1. change_simd(a, i) = {out(t) : t \in {t \in 1..NInp : first(t)}}
  BY DEF change_simd
<1>2. NInp \in Nat \ {0} /\ s \in 0..(NInp - 1) /\ a.default_im \in 0..(NInp - 1)
  <2>1. a \in Memory /\ k \in ICID
    BY HasIMC DEF Sound
  <2> QED BY <2>1, StateAssumption DEF Memory, IMCRec, Inp
<1>3. can_bind(a, a.default_im)
  BY DEF Ready, Table, Live, can_bind
<1>4. \A t : (\A n \in tried(t - 1) : ~can_bind(a, n))
             <=> (\A u \in 1..(t - 1) : ~can_bind(a, next(u)))
  OBVIOUS
<1>5. \A t : first(t) <=> /\ can_bind(a, next(t))
                          /\ \A u \in 1..(t - 1) : ~can_bind(a, next(u))
  BY <1>4
<1> HIDE DEF out, first, tried, s
<1>6. \E t \in 1..NInp : next(t) = a.default_im
  <2> DEFINE n == a.default_im
             c == NInp
             t == IF s < n THEN n - s ELSE n - s + c
  <2>1. c \in Nat \ {0} /\ n \in 0..(c - 1) /\ t \in 1..c
        /\ (s + t = n \/ s + t = c + n)
    BY <1>2
  <2> HIDE DEF n, c, t
  <2>2. n % c = n /\ (c + n) % c = n
    BY <2>1
  <2>3. (s + t) % c = n
    BY <2>1, <2>2
  <2> QED BY <2>1, <2>3 DEF n, c
<1>7. S \in SUBSET Nat /\ S # {}
  BY <1>2, <1>3, <1>6
<1> HIDE DEF next
<1>8. PICK t \in S : \A u \in S : t <= u
  <2> HIDE DEF S
  <2> QED BY <1>7, LeastElement
<1>9. first(t)
  <2> SUFFICES ASSUME NEW u \in 1..(t - 1), can_bind(a, next(u))
               PROVE  FALSE
    BY <1>5
  <2>1. u \in 1..NInp /\ u < t /\ t \in Nat
    BY <1>2
  <2> QED BY <1>8, <2>1
<1>10. \A v \in 1..NInp : first(v) <=> v = t
  <2> SUFFICES ASSUME NEW v \in 1..NInp, first(v), v # t
               PROVE  FALSE
    BY <1>9
  <2>1. v \in S /\ t \in 1..NInp /\ t <= v
    BY <1>5, <1>8
  <2>2. t \in 1..(v - 1)
    BY <1>2, <2>1
  <2> QED BY <1>5, <1>8, <2>2
<1>11. {v \in 1..NInp : first(v)} = {t}
  BY <1>8, <1>10
<1>12. change_simd(a, i) = {out(t)}
  BY <1>1, <1>11
<1> QED BY <1>12

\* Going back in the other direction stops where the way there started.
LEMMA WayBack ==
    ASSUME NEW a, NEW b, SameTable(a, b), NEW s \in 0..NInp, NEW d \in {1, -1},
           change_IM_ok(a, s), NEW t \in 1..(NInp + 1), NEW u \in 1..(NInp + 1),
           First(a, s, d, t), First(b, circle(s, d, t), -d, u)
    PROVE  circle(circle(s, d, t), -d, u) = s
<1>1. t \in 0..(NInp + 1) /\ NInp \in Nat
  BY StateAssumption
<1>2. \A v \in 0..t : circle(circle(s, d, t), -d, v) = circle(s, d, t - v)
  BY <1>1, CircleBack
<1>3. circle(s, d, t - t) = s
  <2>1. t - t = 0 /\ 0 \in 0..t
    BY <1>1
  <2> QED BY <1>1, <2>1, CircleBack
<1>4. ~(u < t)
  <2> SUFFICES ASSUME u < t
               PROVE  FALSE
    OBVIOUS
  <2>1. t - u \in 1..(t - 1) /\ u \in 0..t
    BY <1>1
  <2>2. change_IM_ok(b, circle(s, d, t - u))
    BY <1>2, <2>1 DEF First
  <2> QED BY <2>1, <2>2 DEF First, SameTable
<1>5. ~(t < u)
  <2> SUFFICES ASSUME t < u
               PROVE  FALSE
    OBVIOUS
  <2>1. t \in 1..(u - 1) /\ t \in 0..t
    BY <1>1
  <2>2. change_IM_ok(b, circle(circle(s, d, t), -d, t))
    BY <1>2, <1>3, <2>1 DEF SameTable
  <2> QED BY <2>1, <2>2 DEF First
<1>6. u = t /\ u \in 0..t
  BY <1>1, <1>4, <1>5
<1> QED BY <1>2, <1>3, <1>6

\* The loops of circular_change_IM() and change_simd() end, with one outcome,
\* and a circular key undoes the other one, whichever entries of the table
\* have no module that loads (xim.c:334-351, 400-427), for a shared IMC as well.
THEOREM CirclesAreUndone == Spec => []CirclesUndo
<1>1. ReadyInv => CirclesUndo
  <2> SUFFICES ASSUME ReadyInv, NEW i \in m.ic_list
               PROVE  /\ Cardinality(change_simd(m, i)) = 1
                      /\ \A d \in {1, -1} :
                            /\ Cardinality(circular_change_IM(m, i, d)) = 1
                            /\ \A a \in circular_change_IM(m, i, d) :
                                  \A b \in circular_change_IM(a, i, -d) :
                                      InputMode(b, i) = InputMode(m, i)
    BY DEF CirclesUndo
  <2>1. Sound(m) /\ Ready(m)
    BY DEF ReadyInv, IInv, TypeOK, Sound
  <2>2. Cardinality(change_simd(m, i)) = 1
    <3>1. PICK b : change_simd(m, i) = {b}
      BY <2>1, SimdOnce
    <3> QED BY <3>1, FS_Singleton
  <2> SUFFICES ASSUME NEW d \in {1, -1}
               PROVE  /\ Cardinality(circular_change_IM(m, i, d)) = 1
                      /\ \A a \in circular_change_IM(m, i, d) :
                            \A b \in circular_change_IM(a, i, -d) :
                                InputMode(b, i) = InputMode(m, i)
    BY <2>2
  <2> DEFINE s == InputMode(m, i)
  <2>3. PICK t, a :
          /\ t \in 1..(NInp + 1)
          /\ First(m, s, d, t) /\ circular_change_IM(m, i, d) = {a}
          /\ InputMode(a, i) = circle(s, d, t) /\ SameTable(m, a)
          /\ Sound(a) /\ Ready(a) /\ i \in a.ic_list
    BY <2>1, CircleIs
  <2>4. -d \in {1, -1}
    OBVIOUS
  <2>5. PICK u, b :
          /\ u \in 1..(NInp + 1)
          /\ First(a, InputMode(a, i), -d, u)
          /\ circular_change_IM(a, i, -d) = {b}
          /\ InputMode(b, i) = circle(InputMode(a, i), -d, u)
    BY <2>3, <2>4, CircleIs
  <2>6. s \in 0..NInp /\ change_IM_ok(m, s)
    BY <2>1, ModeAccepted
  <2>7. InputMode(b, i) = s
    BY <2>3, <2>5, <2>6, WayBack
  <2>8. Cardinality(circular_change_IM(m, i, d)) = 1
    BY <2>3, FS_Singleton
  <2> QED BY <2>3, <2>5, <2>7, <2>8
<1> QED BY <1>1, ReadyInvariance, PTL

-----------------------------------------------------------------------------
(***************************************************************************)
(* Proofs about the lifetime of the ICs: who can make an IC go, and how an *)
(* icid that a client holds gets stale.  They hold for any windows and any *)
(* attributes, with the collection on or off.                              *)
(*                                                                         *)
(* The inductive invariant, HeldInv, says what the clients know: only      *)
(* those that run hold icids, until the server exits each of them holds    *)
(* the icids of all its ICs, and an exiting server does not collect.       *)
(* Whether what they hold is still theirs is not part of it.               *)
(***************************************************************************)
Known(a, h, cl) ==
    /\ \A c \in Client : h[c] # {} => c \in cl
    /\ "RUN_EXIT" \notin a.mode
       => \A i \in a.ic_list : a.IC[i].connect_id \in cl
                               => i \in h[a.IC[i].connect_id]
    /\ "RUN_EXIT" \in a.mode => "ICCHECK_OFF" \in a.mode

NeverSweeps == \A mode \in StartModes : "ICCHECK_OFF" \in mode

HeldInv ==
    /\ ReadyInv
    /\ Known(m, held, clients)
    /\ NeverSweeps => "ICCHECK_OFF" \in m.mode

\* Why a step may delete an IC.
Explained == \A i \in m.ic_list \ m'.ic_list :
                OwnerAsked(i) \/ Swept(i) \/ StaleAsked(i)

\* An icid that gets stale is that of an IC which its client held and lost.
Traced == \A c \in Client, i \in ICID :
             Stale(c, i)' /\ ~Stale(c, i)
             => /\ i \in m.ic_list \ m'.ic_list
                /\ m.IC[i].connect_id = c /\ i \in held[c] \cap held'[c]

-----------------------------------------------------------------------------
(***************************************************************************)
(* Most steps neither list nor delete an IC, nor change whose it is.       *)
(***************************************************************************)
Quiet(a, b) ==
    /\ b.ic_list = a.ic_list
    /\ \A i \in ICID : SameOwner(a.IC[i], b.IC[i])
    /\ "ICCHECK_OFF" \in a.mode => "ICCHECK_OFF" \in b.mode
    /\ "RUN_EXIT" \in a.mode => "RUN_EXIT" \in b.mode
    /\ "RUN_EXIT" \in b.mode => "RUN_EXIT" \in a.mode \/ "ICCHECK_OFF" \in b.mode

LEMMA QuietLocal ==
    ASSUME NEW a, NEW b, NEW i \in ICID, Local(a, b, i)
    PROVE  Quiet(a, b)
<1>1. /\ b.ic_list = a.ic_list
      /\ \A j \in ICID : j # i => b.IC[j] = a.IC[j]
      /\ SameOwner(a.IC[i], b.IC[i])
      /\ SameFlags(a.mode, b.mode, Leaving)
  BY DEF Local
<1>2. \A j \in ICID : SameOwner(a.IC[j], b.IC[j])
  BY <1>1 DEF SameOwner
<1> QED BY <1>1, <1>2 DEF Quiet, SameFlags, Leaving

LEMMA QuietStutter ==
    ASSUME NEW a
    PROVE  Quiet(a, a)
BY DEF Quiet, SameOwner

LEMMA QuietTrans ==
    ASSUME NEW a, NEW b, NEW c, Quiet(a, b), Quiet(b, c)
    PROVE  Quiet(a, c)
BY DEF Quiet, SameOwner

\* Steps that leave the ICs alone.
LEMMA QuietSameICs ==
    ASSUME NEW a, NEW b, b.ic_list = a.ic_list, b.IC = a.IC, b.mode = a.mode
    PROVE  Quiet(a, b)
BY DEF Quiet, SameOwner

LEMMA QuietSync ==
    ASSUME NEW a \in Memory
    PROVE  Quiet(a, sync_reply(a))
<1>1. CASE "RUN_EXIT" \in a.mode
  <2> DEFINE b == sync_reply(a)
  <2>1. b.ic_list = a.ic_list /\ b.IC = a.IC /\ b.mode = a.mode \cup {"RUN_EXITALL"}
    BY <1>1 DEF sync_reply, Memory
  <2> HIDE DEF b
  <2> QED BY <2>1 DEF Quiet, SameOwner, b
<1>2. CASE "RUN_EXIT" \notin a.mode
  BY <1>2, QuietStutter DEF sync_reply
<1> QED BY <1>1, <1>2

LEMMA QuietClose ==
    ASSUME NEW a, Sound(a)
    PROVE  Quiet(a, xim_close(a))
<1> DEFINE b == [a EXCEPT !.mode = @ \cup {"RUN_EXIT", "ICCHECK_OFF"}]
           c == [b EXCEPT !.mode = @ \cup {"RUN_EXITALL"}]
<1>1. a \in Memory /\ a.ic \in ICID \cup {NULL}
  BY DEF Sound, Memory
<1>2. xim_close(a) = IF a.ic = NULL THEN c ELSE xim_disconnect(b, a.ic)
  BY DEF xim_close
<1>3. /\ b.ic_list = a.ic_list /\ b.IC = a.IC
      /\ b.mode = a.mode \cup {"RUN_EXIT", "ICCHECK_OFF"}
      /\ c.ic_list = a.ic_list /\ c.IC = a.IC
      /\ c.mode = a.mode \cup {"RUN_EXIT", "ICCHECK_OFF"} \cup {"RUN_EXITALL"}
  BY <1>1 DEF Memory
<1>4. b \in Memory
  <2>1. a.mode \cup {"RUN_EXIT", "ICCHECK_OFF"} \in SUBSET ModeFlag
    BY <1>1 DEF Memory, ModeFlag
  <2> QED BY <1>1, <2>1, Zenon DEF Memory
<1> HIDE DEF b, c
<1>5. Quiet(a, b) /\ Quiet(a, c)
  BY <1>3 DEF Quiet, SameOwner
<1>6. CASE a.ic = NULL
  BY <1>2, <1>5, <1>6
<1>7. CASE a.ic # NULL
  <2>1. Keyed(b, xim_disconnect(b, a.ic), a.ic)
    BY <1>1, <1>4, <1>7, ConnectKeyed
  <2>2. Quiet(b, xim_disconnect(b, a.ic))
    BY <1>1, <1>7, <2>1, LocalKeyed, QuietLocal
  <2> QED BY <1>2, <1>5, <1>7, <2>2, QuietTrans
<1> QED BY <1>6, <1>7

LEMMA QuietFreeSpot ==
    ASSUME NEW a \in Memory
    PROVE  Quiet(a, free_spot(a))
<1> DEFINE b == free_spot(a)
<1>1. b.ic_list = a.ic_list /\ b.IC = a.IC /\ b.mode = a.mode
  BY DEF free_spot, Memory
<1> HIDE DEF b
<1> QED BY <1>1, QuietSameICs DEF b

LEMMA QuietWinlist ==
    ASSUME NEW a \in Memory
    PROVE  Quiet(a, gui_update_winlist(a))
<1> DEFINE b == gui_update_winlist(a)
<1>1. b.ic_list = a.ic_list /\ b.IC = a.IC /\ b.mode = a.mode
  BY DEF gui_update_winlist, Memory
<1> HIDE DEF b
<1> QED BY <1>1, QuietSameICs DEF b

LEMMA QuietTick ==
    ASSUME NEW a \in Memory
    PROVE  Quiet(a, tick(a))
<1> DEFINE b == tick(a)
<1>1. /\ b.ic_list = a.ic_list /\ b.mode = a.mode
      /\ b.IC = [i \in ICID |-> IF i \in a.ic_list THEN older(a.IC[i]) ELSE a.IC[i]]
  BY DEF tick, Memory
<1>2. \A rec \in ICRec : SameOwner(rec, older(rec))
  BY DEF older, ICRec, SameOwner
<1>3. \A i \in ICID : SameOwner(a.IC[i], b.IC[i])
  <2>1. \A i \in ICID : a.IC[i] \in ICRec /\ SameOwner(a.IC[i], a.IC[i])
    BY DEF Memory, SameOwner
  <2> HIDE DEF b
  <2> QED BY <1>1, <1>2, <2>1
<1> HIDE DEF b
<1> QED BY <1>1, <1>3 DEF Quiet, b

\* Deletion leaves the records of the other ICs alone.
LEMMA DeleteIs ==
    ASSUME NEW a, Sound(a), NEW D
    PROVE  LET b == delete_ICs(a, D)
           IN  /\ b.ic_list = a.ic_list \ D /\ b.mode = a.mode
               /\ \A i \in b.ic_list : b.IC[i] = a.IC[i]
<1> DEFINE own == own_IMCs(a, D)
           p == IF a.ic \in D THEN NULL ELSE a.ic
           q == IF a.icp \in D THEN NULL ELSE a.icp
           L == a.ic_list \ D
           M == a.imc_list \ own
           f == [i \in ICID |-> IF i \in D THEN forget(a.IC[i]) ELSE a.IC[i]]
           g == [k \in ICID |-> IF k \in own THEN ZeroIMC ELSE a.IMC[k]]
           b == delete_ICs(a, D)
<1>1. a \in Memory /\ a.ic_list \subseteq ICID
  BY DEF Sound, Memory
<1>2. unpoint(a, D) = [a EXCEPT !.ic = p, !.icp = q]
  BY <1>1 DEF unpoint, Memory
<1>3. /\ unpoint(a, D).ic_list = a.ic_list /\ unpoint(a, D).IC = a.IC
      /\ unpoint(a, D).imc_list = a.imc_list /\ unpoint(a, D).IMC = a.IMC
  BY <1>1, <1>2 DEF Memory
<1>4. b = [unpoint(a, D) EXCEPT !.ic_list = L, !.IC = f, !.imc_list = M, !.IMC = g]
  BY <1>3 DEF delete_ICs
<1>5. b.ic_list = L /\ b.IC = f /\ b.mode = a.mode
  <2> HIDE DEF p, q, L, M, f, g, b
  <2> QED BY <1>1, <1>2, <1>4 DEF Memory
<1>6. \A i \in L : f[i] = a.IC[i]
  BY <1>1
<1> HIDE DEF b, f
<1> QED BY <1>5, <1>6 DEF b

\* What a sweep takes besides the ICs with the focus window of r are ICs whose
\* window is gone, and it spares r.
LEMMA SweepIs ==
    ASSUME NEW a, Sound(a), NEW r, NEW S
    PROVE  LET b == check_ic_exist(a, r, S)
           IN  /\ b.ic_list \subseteq a.ic_list /\ b.mode = a.mode
               /\ \A i \in b.ic_list : SameOwner(a.IC[i], b.IC[i])
               /\ \A i \in a.ic_list \ b.ic_list :
                     /\ r \in a.ic_list \ {i}
                     /\ \/ i \in shadowed(a, r)
                        \/ a.IC[i].client_win \notin S \cup {NoWindow}
<1> DEFINE gone == {i \in probed(a, r) : a.IC[i].client_win \notin S}
           D == shadowed(a, r) \cup gone
           f == [i \in ICID |-> IF i \in stamped(a, r)
                                THEN [a.IC[i] EXCEPT !.exec_age = 0]
                                ELSE a.IC[i]]
           d == [a EXCEPT !.check_age = 0, !.IC = f]
           b == check_ic_exist(a, r, S)
<1>1. a \in Memory /\ a.IC \in [ICID -> ICRec] /\ a.ic_list \subseteq ICID
  BY DEF Sound, Memory
<1>2. b = IF sweeps(a, r) THEN delete_ICs(d, D) ELSE a
  BY <1>1 DEF check_ic_exist, Memory
<1>3. f \in [ICID -> ICRec]
      /\ \A i \in ICID : f[i].imc = a.IC[i].imc /\ SameOwner(a.IC[i], f[i])
  <2>1. \A rec \in ICRec : LET x == [rec EXCEPT !.exec_age = 0]
                           IN  /\ x \in ICRec /\ x.imc = rec.imc
                               /\ SameOwner(rec, x) /\ SameOwner(rec, rec)
    BY StateAssumption DEF ICRec, SameOwner
  <2> HIDE DEF D
  <2> QED BY <1>1, <2>1
<1>4. 0 \in 0..(TIMECHECK_STEP + 1)
  BY StateAssumption
<1>5. \A i \in D : /\ i # r
                   /\ \/ i \in shadowed(a, r)
                      \/ a.IC[i].client_win \notin S \cup {NoWindow}
  BY DEF probed, shadowed
<1> HIDE DEF f, b, D
<1>6. d \in Memory
  BY <1>1, <1>3, <1>4, Zenon DEF Memory
<1>7. /\ d.IC = f /\ d.ic_list = a.ic_list /\ d.imc_list = a.imc_list
      /\ d.IMC = a.IMC /\ d.ic = a.ic /\ d.icp = a.icp /\ d.icid = a.icid
      /\ d.mode = a.mode
  BY <1>1 DEF Memory
<1> HIDE DEF d
<1>8. Sound(d)
  <2>1. Steady(a, d)
    BY <1>3, <1>6, <1>7 DEF Steady
  <2> QED BY <2>1, SteadySound
<1>9. CASE sweeps(a, r)
  <2>1. /\ b.ic_list = d.ic_list \ D /\ b.mode = d.mode
        /\ \A i \in b.ic_list : b.IC[i] = d.IC[i]
    BY <1>2, <1>8, <1>9, DeleteIs
  <2>2. \A i \in b.ic_list : SameOwner(a.IC[i], b.IC[i])
    BY <1>1, <1>3, <1>7, <2>1
  <2>3. r \in a.ic_list
    BY <1>9 DEF sweeps
  <2> QED BY <1>5, <1>7, <2>1, <2>2, <2>3 DEF b
<1>10. CASE ~sweeps(a, r)
  <2>1. b = a
    BY <1>2, <1>10
  <2> QED BY <2>1 DEF b, SameOwner
<1> QED BY <1>9, <1>10

-----------------------------------------------------------------------------
(***************************************************************************)
(* A step that lists no IC, after which each client still knows what is    *)
(* left of its own.                                                        *)
(***************************************************************************)
Less(a, b, h, g) ==
    /\ b.ic_list \subseteq a.ic_list
    /\ \A i \in b.ic_list : SameOwner(a.IC[i], b.IC[i])
    /\ "ICCHECK_OFF" \in a.mode => "ICCHECK_OFF" \in b.mode
    /\ "RUN_EXIT" \in a.mode => "RUN_EXIT" \in b.mode
    /\ "RUN_EXIT" \in b.mode => "RUN_EXIT" \in a.mode \/ "ICCHECK_OFF" \in b.mode
    /\ \A c \in Client : g[c] \subseteq h[c]
    /\ "RUN_EXIT" \notin b.mode
       => \A c \in Client : \A i \in h[c] \cap b.ic_list :
             b.IC[i].connect_id = c => i \in g[c]

LEMMA LessHeld ==
    ASSUME HeldInv, ReadyInv', Less(m, m', held, held'), UNCHANGED clients
    PROVE  HeldInv' /\ Traced
<1>1. clients \subseteq Client /\ Known(m, held, clients)
  BY DEF HeldInv, ReadyInv, IInv, TypeOK
<1>2. Known(m', held', clients')
  <2>1. ASSUME NEW c \in Client, held'[c] # {}
        PROVE  c \in clients
    BY <1>1, <2>1 DEF Known, Less
  <2>2. ASSUME "RUN_EXIT" \notin m'.mode, NEW i \in m'.ic_list,
               m'.IC[i].connect_id \in clients
        PROVE  i \in held'[m'.IC[i].connect_id]
    <3>1. m.IC[i].connect_id = m'.IC[i].connect_id /\ i \in m.ic_list
      BY DEF Less, SameOwner
    <3>2. i \in held[m'.IC[i].connect_id]
      BY <1>1, <2>2, <3>1 DEF Known, Less
    <3> QED BY <1>1, <2>2, <3>2 DEF Less
  <2>3. "RUN_EXIT" \in m'.mode => "ICCHECK_OFF" \in m'.mode
    BY <1>1 DEF Known, Less
  <2> QED BY <2>1, <2>2, <2>3 DEF Known
<1>3. NeverSweeps => "ICCHECK_OFF" \in m'.mode
  BY DEF HeldInv, Less
<1>4. Traced
  BY DEF Traced, Stale, Less, SameOwner
<1> QED BY <1>2, <1>3, <1>4 DEF HeldInv

\* Most steps delete nothing.
LEMMA QuietHeld ==
    ASSUME HeldInv, ReadyInv', Quiet(m, m'), UNCHANGED <<clients, held>>
    PROVE  HeldInv' /\ Explained /\ Traced
<1>1. m.ic_list \subseteq ICID
  BY DEF HeldInv, ReadyInv, IInv, TypeOK, Memory
<1>2. Less(m, m', held, held')
  BY <1>1 DEF Quiet, Less
<1>3. Explained
  BY DEF Explained, Quiet
<1> QED BY <1>2, <1>3, LessHeld

-----------------------------------------------------------------------------
(***************************************************************************)
(* The messages, one by one.                                               *)
(***************************************************************************)

\* The icid of a new IC is that of no live one, and its client learns it.
LEMMA CreateHeld ==
    ASSUME HeldInv, ReadyInv', NEW c \in clients, CreateIC(c)
    PROVE  HeldInv' /\ Explained /\ Traced
<1>1. /\ Sound(m) /\ c \in Client /\ clients \subseteq Client
      /\ m.ic_list \subseteq ICID /\ held \in [Client -> SUBSET ICID]
      /\ Known(m, held, clients)
  BY DEF HeldInv, ReadyInv, IInv, TypeOK, Sound, Memory
<1>2. PICK v \in CreateValues, i \in new_ids(m) :
        /\ Handled(NULL, {ic_create(m, i, c, v)})
        /\ held' = IF Exiting THEN held ELSE [held EXCEPT ![c] = @ \cup {i}]
        /\ UNCHANGED <<clients, alive, owed>>
  BY DEF CreateIC
<1>3. CASE Exiting
  <2>1. m' = m /\ UNCHANGED <<clients, held>>
    BY <1>2, <1>3, HandledMoves
  <2> QED BY <2>1, QuietStutter, QuietHeld
<1>4. CASE ~Exiting
  <2>1. Creates(m, m', i, c, v)
    <3>1. m' = ic_create(m, i, c, v)
      BY <1>2, <1>4 DEF Handled
    <3> QED BY <1>1, <3>1, CreateIs, ServerAssumption
  <2>2. i \notin m.ic_list /\ i \in ICID
    BY <1>1, NewId
  <2>3. /\ m'.ic_list = m.ic_list \cup {i} /\ m'.mode = m.mode
        /\ \A j \in m.ic_list : m'.IC[j] = m.IC[j]
        /\ m'.IC[i].connect_id = c
    BY <1>1, <2>1, <2>2 DEF Creates
  <2>4. \A d \in Client : /\ d # c => held'[d] = held[d]
                          /\ d = c => held'[d] = held[d] \cup {i}
    BY <1>1, <1>2, <1>4
  <2>5. Known(m', held', clients)
    <3>1. \A d \in Client : held'[d] # {} => d \in clients
      BY <1>1, <2>4 DEF Known
    <3>2. ASSUME NEW j \in m'.ic_list, m'.IC[j].connect_id \in clients
          PROVE  j \in held'[m'.IC[j].connect_id]
      <4>1. CASE j = i
        BY <1>1, <2>3, <2>4, <4>1
      <4>2. CASE j # i
        <5>1. j \in m.ic_list /\ m'.IC[j] = m.IC[j]
          BY <2>3, <4>2
        <5>2. j \in held[m.IC[j].connect_id] /\ m.IC[j].connect_id \in Client
          BY <1>1, <1>4, <3>2, <5>1 DEF Known, Exiting
        <5> QED BY <2>4, <5>1, <5>2
      <4> QED BY <4>1, <4>2
    <3>3. "RUN_EXIT" \in m'.mode => "ICCHECK_OFF" \in m'.mode
      BY <1>1, <2>3 DEF Known
    <3> QED BY <3>1, <3>2, <3>3 DEF Known
  <2>6. NeverSweeps => "ICCHECK_OFF" \in m'.mode
    BY <2>3 DEF HeldInv
  <2>7. Traced
    <3>1. ASSUME NEW d \in Client, NEW j \in ICID, Stale(d, j)', ~Stale(d, j)
          PROVE  FALSE
      <4>1. CASE j = i
        <5>1. d # c
          BY <2>3, <3>1, <4>1 DEF Stale
        <5> QED BY <2>2, <2>4, <3>1, <4>1, <5>1 DEF Stale
      <4>2. CASE j # i
        BY <2>3, <2>4, <3>1, <4>2 DEF Stale
      <4> QED BY <4>1, <4>2
    <3> QED BY <3>1 DEF Traced
  <2>8. Explained
    BY <2>3 DEF Explained
  <2> QED BY <1>2, <2>5, <2>6, <2>7, <2>8 DEF HeldInv
<1> QED BY <1>3, <1>4

\* The owner of the IC asks, or a client whose own IC of that icid is gone.
LEMMA DestroyHeld ==
    ASSUME HeldInv, ReadyInv', NEW c \in clients, NEW i \in held[c], DestroyIC(c, i)
    PROVE  HeldInv' /\ Explained /\ Traced
<1>1. /\ Sound(m) /\ c \in Client /\ m.ic_list \subseteq ICID
      /\ held \in [Client -> SUBSET ICID]
  BY DEF HeldInv, ReadyInv, IInv, TypeOK, Sound, Memory
<1>2. /\ held' = [held EXCEPT ![c] = @ \ {i}] /\ UNCHANGED clients
      /\ Handled(i, {ic_destroy(m, i)})
  BY DEF DestroyIC
<1>3. \A d \in Client : /\ d # c => held'[d] = held[d]
                        /\ d = c => held'[d] = held[d] \ {i}
  BY <1>1, <1>2
<1>4. CASE Exiting
  <2>1. m' = m
    BY <1>2, <1>4, HandledMoves
  <2>2. Less(m, m', held, held')
    BY <1>3, <1>4, <2>1 DEF Less, SameOwner, Exiting
  <2>3. Explained
    BY <2>1 DEF Explained
  <2> QED BY <1>2, <2>2, <2>3, LessHeld
<1>5. CASE ~Exiting
  <2> DEFINE D == {i} \cap m.ic_list
  <2>1. m' = delete_ICs(m, D)
    BY <1>2, <1>5 DEF Handled, ic_destroy
  <2>2. /\ m'.ic_list = m.ic_list \ D /\ m'.mode = m.mode
        /\ \A j \in m'.ic_list : m'.IC[j] = m.IC[j]
    BY <1>1, <2>1, DeleteIs
  <2>3. Less(m, m', held, held')
    BY <1>3, <2>2 DEF Less, SameOwner
  <2>4. ASSUME NEW j \in m.ic_list \ m'.ic_list
        PROVE  OwnerAsked(j) \/ StaleAsked(j)
    <3>1. j = i /\ i \in held[c] \ held'[c]
      BY <1>1, <1>3, <2>2
    <3>2. CASE m.IC[i].connect_id = c
      BY <3>1, <3>2 DEF OwnerAsked
    <3>3. CASE m.IC[i].connect_id # c
      BY <1>1, <3>1, <3>3 DEF StaleAsked, Stale
    <3> QED BY <3>2, <3>3
  <2> QED BY <1>2, <2>3, <2>4, LessHeld DEF Explained
<1> QED BY <1>4, <1>5

\* All the ICs that go are the client's own.
LEMMA CloseHeld ==
    ASSUME HeldInv, ReadyInv', NEW c \in clients, Close(c)
    PROVE  HeldInv' /\ Explained /\ Traced
<1>1. /\ Sound(m) /\ c \in Client /\ m.ic_list \subseteq ICID
      /\ held \in [Client -> SUBSET ICID] /\ Known(m, held, clients)
  BY DEF HeldInv, ReadyInv, IInv, TypeOK, Sound, Memory
<1>2. /\ held' = [held EXCEPT ![c] = {}] /\ UNCHANGED clients
      /\ Handled(-1, {ic_clean_all(m, c)})
  BY DEF Close
<1>3. \A d \in Client : /\ d # c => held'[d] = held[d]
                        /\ d = c => held'[d] = {}
  BY <1>1, <1>2
<1>4. CASE Exiting
  <2>1. m' = m
    BY <1>2, <1>4, HandledMoves
  <2>2. Less(m, m', held, held')
    BY <1>3, <1>4, <2>1 DEF Less, SameOwner, Exiting
  <2>3. Explained
    BY <2>1 DEF Explained
  <2> QED BY <1>2, <2>2, <2>3, LessHeld
<1>5. CASE ~Exiting
  <2> DEFINE D == {i \in m.ic_list : m.IC[i].connect_id = c}
  <2>1. m' = delete_ICs(m, D)
    BY <1>2, <1>5 DEF Handled, ic_clean_all
  <2>2. /\ m'.ic_list = m.ic_list \ D /\ m'.mode = m.mode
        /\ \A j \in m'.ic_list : m'.IC[j] = m.IC[j]
    BY <1>1, <2>1, DeleteIs
  <2>3. Less(m, m', held, held')
    BY <1>3, <2>2 DEF Less, SameOwner
  <2>4. \A j \in D : j \in held[c]
    BY <1>1, <1>5 DEF Known, Exiting
  <2>5. Explained
    BY <1>1, <1>3, <2>2, <2>4 DEF Explained, OwnerAsked
  <2> QED BY <1>2, <2>3, <2>5, LessHeld
<1> QED BY <1>4, <1>5

\* New attributes change the windows of an IC, not its owner.
LEMMA ValuesHeld ==
    ASSUME HeldInv, ReadyInv', NEW c \in clients, NEW i \in held[c],
           SetICValues(c, i)
    PROVE  HeldInv' /\ Explained /\ Traced
<1>1. /\ m \in Memory /\ c \in Client /\ m.ic_list \subseteq ICID
      /\ m.IC \in [ICID -> ICRec] /\ i \in ICID
      /\ held \in [Client -> SUBSET ICID] /\ Known(m, held, clients)
  BY DEF HeldInv, ReadyInv, IInv, TypeOK, Sound, Memory
<1>2. PICK v \in ChangeValues : /\ UNCHANGED <<clients, held>>
                                /\ HandledIC(i, {ic_set_values(m, i, v)})
  BY DEF SetICValues, world
<1>3. CASE m' = m
  BY <1>2, <1>3, QuietStutter, QuietHeld
<1>4. CASE m' = ic_set_values(m, i, v)
  <2> DEFINE x == set_values(m.IC[i], v)
  <2>1. m' = [m EXCEPT !.IC[i] = x]
    BY <1>1, <1>4 DEF ic_set_values, Memory
  <2>2. x.connect_id = m.IC[i].connect_id
    BY <1>1 DEF set_values, ICRec
  <2> HIDE DEF x
  <2>3. /\ m'.ic_list = m.ic_list /\ m'.mode = m.mode
        /\ \A j \in ICID : m'.IC[j].connect_id = m.IC[j].connect_id
    BY <1>1, <2>1, <2>2 DEF Memory
  <2>4. Known(m', held, clients)
    BY <1>1, <2>3 DEF Known
  <2>5. NeverSweeps => "ICCHECK_OFF" \in m'.mode
    BY <2>3 DEF HeldInv
  <2>6. Explained
    BY <2>3 DEF Explained
  <2>7. Traced
    BY <1>2, <2>3 DEF Traced, Stale
  <2> QED BY <1>2, <2>4, <2>5, <2>6, <2>7 DEF HeldInv
<1>5. m' = m \/ m' = ic_set_values(m, i, v)
  BY <1>2 DEF HandledIC, Handled
<1> QED BY <1>3, <1>4, <1>5

LEMMA MessageHeld ==
    ASSUME HeldInv, ReadyInv', NEW c \in clients, Message(c)
    PROVE  HeldInv' /\ Explained /\ Traced
<1>1. /\ Sound(m) /\ Ready(m) /\ m \in Memory /\ c \in Client
      /\ held \in [Client -> SUBSET ICID]
  BY DEF HeldInv, ReadyInv, IInv, TypeOK, Sound
<1>2. m' = m => Quiet(m, m')
  BY QuietStutter
<1>3. CASE SyncReply(c)
  <2>1. m' = m \/ m' = sync_reply(m)
    BY <1>3 DEF SyncReply
  <2>2. Quiet(m, m')
    BY <1>1, <1>2, <2>1, QuietSync
  <2> QED BY <1>3, <2>2, QuietHeld DEF SyncReply
<1>4. ASSUME NEW i \in held[c],
             \/ SetFocus(c, i) \/ UnsetFocus(c, i) \/ GetICValues(c, i)
             \/ Trigger(c, i) \/ Forward(c, i) \/ PlainKey(c, i)
      PROVE  HeldInv' /\ Explained /\ Traced
  <2>1. i \in ICID
    BY <1>1
  <2>2. ASSUME NEW outcomes, HandledIC(i, outcomes)
        PROVE  m' = m \/ (i \in m.ic_list /\ m' \in outcomes)
    BY <2>2, HandledMoves DEF HandledIC
  <2>3. UNCHANGED <<clients, held>>
    BY <1>4 DEF SetFocus, UnsetFocus, GetICValues, Trigger, Forward, PlainKey, world
  <2>4. m' = m \/ (i \in m.ic_list /\ Local(m, m', i))
    <3>1. CASE SetFocus(c, i)
      <4>1. m' = m \/ (i \in m.ic_list /\ m' = set_focus(m, i))
        BY <2>2, <3>1 DEF SetFocus
      <4>2. "FOCUS" \in m.IC[i].ic_state => set_focus(m, i) = m
        BY DEF set_focus
      <4>3. i \in m.ic_list /\ "FOCUS" \notin m.IC[i].ic_state
            => SetsFocus(m, set_focus(m, i), i)
        BY <1>1, SetFocusIs
      <4> QED BY <4>1, <4>2, <4>3 DEF SetsFocus
    <3>2. CASE UnsetFocus(c, i)
      <4>1. m' = m \/ (i \in m.ic_list /\ m' = unset_focus(m, i))
        BY <2>2, <3>2 DEF UnsetFocus
      <4>2. i \in m.ic_list => UnsetsFocus(m, unset_focus(m, i), i)
        BY <1>1, UnsetFocusIs
      <4> QED BY <4>1, <4>2 DEF UnsetsFocus
    <3>3. CASE GetICValues(c, i) \/ PlainKey(c, i)
      <4>1. HandledIC(i, {m})
        BY <3>3 DEF GetICValues, PlainKey
      <4> QED BY <2>2, <4>1
    <3>4. CASE Trigger(c, i)
      <4>1. PICK key \in TriggerKeys : HandledIC(i, trigger(m, i, key))
        BY <3>4 DEF Trigger
      <4>2. m' = m \/ (i \in m.ic_list /\ m' \in trigger(m, i, key))
        BY <2>2, <4>1
      <4> QED BY <1>1, <4>2, TriggerIs, ServerAssumption
    <3>5. CASE Forward(c, i)
      <4>1. PICK key \in ForwardKeys : HandledIC(i, forward(m, i, key))
        BY <3>5 DEF Forward
      <4>2. m' = m \/ (i \in m.ic_list /\ m' \in forward(m, i, key))
        BY <2>2, <4>1
      <4>3. m' = m \/ (i \in m.ic_list /\ Keyed(m, m', i))
        BY <1>1, <4>2, ForwardIs, ServerAssumption
      <4> QED BY <2>1, <4>3, LocalKeyed
    <3> QED BY <1>4, <3>1, <3>2, <3>3, <3>4, <3>5
  <2>5. Quiet(m, m')
    BY <1>2, <2>1, <2>4, QuietLocal
  <2> QED BY <2>3, <2>5, QuietHeld
<1> QED BY <1>3, <1>4, CreateHeld, DestroyHeld, CloseHeld, ValuesHeld DEF Message

\* A sweep takes doubles of ref and ICs whose window is gone.
LEMMA SweepHeld ==
    ASSUME HeldInv, ReadyInv', CheckICs
    PROVE  HeldInv' /\ Explained /\ Traced
<1>1. /\ Sound(m) /\ UNCHANGED <<clients, held>> /\ pc = "check"
  BY DEF HeldInv, ReadyInv, IInv, TypeOK, Sound, CheckICs, world
<1>2. CASE "ICCHECK_OFF" \in m.mode
  <2>1. m' = m
    BY <1>2 DEF CheckICs
  <2> QED BY <1>1, <2>1, QuietStutter, QuietHeld
<1>3. CASE "ICCHECK_OFF" \notin m.mode
  <2>1. m' = check_ic_exist(m, ref, alive)
    BY <1>3 DEF CheckICs
  <2>2. /\ m'.ic_list \subseteq m.ic_list /\ m'.mode = m.mode
        /\ \A i \in m'.ic_list : SameOwner(m.IC[i], m'.IC[i])
        /\ \A i \in m.ic_list \ m'.ic_list :
              /\ ref \in m.ic_list \ {i}
              /\ \/ i \in shadowed(m, ref)
                 \/ m.IC[i].client_win \notin alive \cup {NoWindow}
    BY <1>1, <2>1, SweepIs
  <2>3. Less(m, m', held, held')
    BY <1>1, <2>2 DEF Less
  <2>4. \A i \in shadowed(m, ref) : SameFocus(i, ref)
    BY DEF shadowed, SameFocus
  <2>5. Explained
    BY <1>1, <1>3, <2>2, <2>4 DEF Explained, Swept, Sweeping
  <2> QED BY <1>1, <2>3, <2>5, LessHeld
<1> QED BY <1>2, <1>3

\* A client that dies takes its icids with it.
LEMMA DieHeld ==
    ASSUME HeldInv, ReadyInv', NEW c \in clients, Die(c)
    PROVE  HeldInv' /\ Explained /\ Traced
<1>1. /\ c \in Client /\ clients \subseteq Client
      /\ held \in [Client -> SUBSET ICID] /\ Known(m, held, clients)
  BY DEF HeldInv, ReadyInv, IInv, TypeOK
<1>2. m' = m /\ clients' = clients \ {c} /\ held' = [held EXCEPT ![c] = {}]
  BY DEF Die
<1>3. \A d \in Client : /\ d # c => held'[d] = held[d]
                        /\ d = c => held'[d] = {}
  BY <1>1, <1>2
<1>4. Known(m', held', clients')
  BY <1>1, <1>2, <1>3 DEF Known
<1>5. NeverSweeps => "ICCHECK_OFF" \in m'.mode
  BY <1>2 DEF HeldInv
<1>6. Explained /\ Traced
  BY <1>2, <1>3 DEF Explained, Traced, Stale
<1> QED BY <1>4, <1>5, <1>6 DEF HeldInv

LEMMA NextHeld == HeldInv /\ [Next]_vars => HeldInv' /\ Explained /\ Traced
<1> SUFFICES ASSUME HeldInv, [Next]_vars
             PROVE  HeldInv' /\ Explained /\ Traced
  OBVIOUS
<1>1. ReadyInv'
  BY NextReady DEF HeldInv
<1>2. Sound(m) /\ m \in Memory
  BY DEF HeldInv, ReadyInv, IInv, TypeOK, Sound
<1>3. ASSUME NEW c \in clients, Message(c)
      PROVE  HeldInv' /\ Explained /\ Traced
  BY <1>1, <1>3, MessageHeld
<1>4. CASE CheckICs
  BY <1>1, <1>4, SweepHeld
<1>5. CASE UpdateWinlist
  BY <1>1, <1>2, <1>5, QuietWinlist, QuietHeld DEF UpdateWinlist, world
<1>6. CASE Signal
  BY <1>1, <1>2, <1>6, QuietClose, QuietHeld DEF Signal, XimClose
<1>7. CASE CloseMainWindow
  <2>1. Sound(free_spot(m))
    BY <1>2, FreeSpotSteady, SteadySound
  <2>2. Quiet(m, xim_close(free_spot(m)))
    BY <1>2, <2>1, QuietFreeSpot, QuietClose, QuietTrans
  <2> QED BY <1>1, <1>7, <2>2, QuietHeld DEF CloseMainWindow, XimClose
<1>8. CASE Tick
  BY <1>1, <1>2, <1>8, QuietTick, QuietHeld DEF Tick, world
<1>9. CASE LoopExit \/ Expose \/ UNCHANGED vars
  <2>1. m' = m /\ UNCHANGED <<clients, held>>
    BY <1>9 DEF LoopExit, Expose, vars, world
  <2> QED BY <1>1, <2>1, QuietStutter, QuietHeld
<1>10. ASSUME NEW w \in Window, WindowGone(w)
       PROVE  HeldInv' /\ Explained /\ Traced
  <2>1. m' = m /\ UNCHANGED <<clients, held>>
    BY <1>10 DEF WindowGone
  <2> QED BY <1>1, <2>1, QuietStutter, QuietHeld
<1>11. ASSUME NEW c \in clients, Die(c)
       PROVE  HeldInv' /\ Explained /\ Traced
  BY <1>1, <1>11, DieHeld
<1> QED BY <1>3, <1>4, <1>5, <1>6, <1>7, <1>8, <1>9, <1>10, <1>11
        DEF Next, Server, Environment

LEMMA InitHeld == Init => HeldInv /\ HandlesValid
<1> SUFFICES ASSUME Init
             PROVE  /\ Known(m, held, clients)
                    /\ NeverSweeps => "ICCHECK_OFF" \in m.mode
                    /\ HandlesValid
  BY InitReady DEF HeldInv
<1>1. PICK mode \in StartModes, d \in DefaultIMs, s \in Sinmds :
        m = StartMemory(mode, Named, d, s)
  BY DEF Init
<1>2. /\ m.ic_list = {}
      /\ m.mode = mode \/ m.mode = mode \cup {"SHOW_CINPUT"}
  BY <1>1 DEF StartMemory, load_default_sinmd
<1>3. "RUN_EXIT" \notin mode
  BY ServerAssumption
<1>4. \A c \in Client : held[c] = {}
  BY DEF Init
<1> QED BY <1>2, <1>3, <1>4 DEF Known, NeverSweeps, HandlesValid

-----------------------------------------------------------------------------
\* While its window exists an IC is deleted only by XIM_DESTROY_IC or XIM_CLOSE
\* of the client that created it, by a sweep on a message for another IC that
\* names the same focus window, or by a client that lost its own IC of that
\* icid (xim_destroy_ic_handler, xim_close_handler, check_ic_exist).
THEOREM IcsLastLong == Spec => IcLifetime
<1> DEFINE A == \A i \in m.ic_list \ m'.ic_list :
                    m.IC[i].client_win \in alive
                    => OwnerAsked(i) \/ Doubled(i) \/ StaleAsked(i)
<1>1. Explained => A
  BY DEF Explained, Swept, Doubled
<1>2. HeldInv /\ [Next]_vars => HeldInv' /\ [A]_vars
  BY <1>1, NextHeld
<1>3. Spec => [][A]_vars
  BY <1>2, InitHeld, PTL DEF Spec
<1> QED BY <1>3 DEF IcLifetime

\* The steps that make an icid stale.
LEMMA StaleStep ==
    ASSUME HeldInv, [Next]_vars, NEW c \in Client, NEW i \in ICID,
           Stale(c, i)', ~Stale(c, i)
    PROVE  /\ i \in m.ic_list /\ m.IC[i].connect_id = c /\ c \in clients
           /\ Swept(i) \/ StaleAsked(i)
<1>1. Explained /\ Traced
  BY NextHeld
<1>2. i \in m.ic_list \ m'.ic_list /\ m.IC[i].connect_id = c /\ i \in held[c] \cap held'[c]
  BY <1>1 DEF Traced
<1>3. ~OwnerAsked(i)
  BY <1>2 DEF OwnerAsked
<1>4. c \in clients
  BY <1>2 DEF HeldInv, Known, Stale
<1> QED BY <1>1, <1>2, <1>3, <1>4 DEF Explained

\* However new_IC() uses the icids again, one that a client holds gets stale
\* only by a sweep that takes its IC, as a double or for its window, or by a
\* client whose icid was stale before (new_IC, delete_IC, check_ic_exist).
THEOREM HandlesLostBySweeps == Spec => StaleOnlyBySweep
<1> DEFINE A == \A c \in Client, i \in ICID :
                    Stale(c, i)' /\ ~Stale(c, i) => Swept(i) \/ StaleAsked(i)
<1>1. HeldInv /\ [Next]_vars => HeldInv' /\ [A]_vars
  BY NextHeld, StaleStep
<1>2. Spec => [][A]_vars
  BY <1>1, InitHeld, PTL DEF Spec
<1> QED BY <1>2 DEF StaleOnlyBySweep

(***************************************************************************)
(* What the clients must keep to while the collection is on: the windows   *)
(* of their ICs exist, and no two ICs name one focus window.               *)
(***************************************************************************)
Kept == "ICCHECK_OFF" \in m.mode
        \/ \A i \in m.ic_list : m.IC[i].connect_id \in clients
              => /\ m.IC[i].client_win \in alive \cup {NoWindow}
                 /\ \A j \in m.ic_list : ~SameFocus(i, j)

LEMMA CarefulStep == HeldInv /\ HandlesValid /\ Kept /\ [Next]_vars
                     => HandlesValid'
<1> SUFFICES ASSUME HeldInv, HandlesValid, Kept, [Next]_vars,
                    NEW c \in Client, NEW i \in held'[c], Stale(c, i)'
             PROVE  FALSE
  BY DEF HandlesValid, Stale
<1>1. HeldInv'
  BY NextHeld
<1>2. i \in ICID
  BY <1>1 DEF HeldInv, ReadyInv, IInv, TypeOK
<1>3. \A d \in Client, j \in ICID : ~Stale(d, j)
  BY DEF HandlesValid, Stale
<1>4. /\ i \in m.ic_list /\ m.IC[i].connect_id = c /\ c \in clients
      /\ Swept(i)
  BY <1>2, <1>3, StaleStep DEF StaleAsked
<1> QED BY <1>4 DEF Swept, Sweeping, Kept

\* While the clients keep to that, an icid that a client holds is that of a
\* live IC of this very client, although the ICs of dead clients are swept and
\* their ids used again (new_IC, delete_IC, check_ic_exist, xim_IC.c).
THEOREM HandlesOfCarefulClients == Spec /\ []Kept => []HandlesValid
<1>1. HeldInv /\ [Next]_vars => HeldInv'
  BY NextHeld
<1> QED BY <1>1, InitHeld, CarefulStep, PTL DEF Spec

\* With the collection off the icids are valid whatever the clients do
\* (XCIN_ICCHECK_OFF, im_protocol_handler).
THEOREM HandlesStayValid ==
    ASSUME NeverSweeps
    PROVE  Spec => []HandlesValid
<1>1. HeldInv => Kept
  BY DEF HeldInv, Kept
<1>2. HeldInv /\ [Next]_vars => HeldInv'
  BY NextHeld
<1> QED BY <1>1, <1>2, InitHeld, CarefulStep, PTL DEF Spec
=============================================================================
