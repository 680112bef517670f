--------------------------- MODULE XimProperties ---------------------------
(***************************************************************************)
(* The correctness properties of the server.  Each run and each theorem    *)
(* says under which settings the property it names is claimed.             *)
(***************************************************************************)
EXTENDS XimServer

Flags(k) == m.IMC[k].inp_state
ICFlags(i) == m.IC[i].ic_state
Loaded(n) == n \in Inp /\ m.cinput[n] = "loaded"

-----------------------------------------------------------------------------
\* The IC and IMC lists.

\* xccore->ic and xccore->icp never point to a deleted IC, whichever of
\* XIM_DESTROY_IC, XIM_CLOSE and the garbage collection deletes it
\* (delete_IC, xim_IC.c:189-192).
PointersLive == {m.ic, m.icp} \subseteq m.ic_list \cup {NULL}

\* Every IC has an IMC that is in the list; it is its own and attached to it
\* unless XCIN_SINGLE_IMC makes all of them share one, which has the id 1.
ImcOwnership ==
    /\ \A i \in m.ic_list : m.IC[i].imc \in m.imc_list
    /\ IF SingleIMC
       THEN m.imc_list \subseteq {1}
       ELSE /\ m.imc_list = m.ic_list
            /\ \A i \in m.ic_list : m.IC[i].imc = i /\ m.IMC[i].icid = i

\* With the garbage collection off, an icid that a client holds is that of a
\* live IC of this very client, however new_IC() recycles ids.
HandlesValid ==
    \A c \in Client : \A i \in held[c] :
        i \in m.ic_list /\ m.IC[i].connect_id = c

\* The client that owns an IC gives it up: XIM_DESTROY_IC, XIM_CLOSE or death.
OwnerAsked(i) == LET c == m.IC[i].connect_id
                 IN  c \in clients /\ i \in held[c] \ held'[c]

\* Two ICs that name one focus window.
SameFocus(i, j) == /\ i # j
                   /\ m.IC[i].focus_win # NoWindow
                   /\ m.IC[i].focus_win = m.IC[j].focus_win

\* An icid that a client holds is stale when it is that of no IC, or of
\* another client's.
Stale(c, i) == i \in held[c] /\ ~(i \in m.ic_list /\ m.IC[i].connect_id = c)

\* A client gives up an icid that it should not have any more.
StaleAsked(i) == \E c \in Client : Stale(c, i) /\ i \notin held'[c]

\* The server is about to sweep, on a message for another IC.
Sweeping(i) == /\ pc = "check" /\ "ICCHECK_OFF" \notin m.mode
               /\ ref \in m.ic_list \ {i}

Doubled(i) == Sweeping(i) /\ SameFocus(i, ref)

\* How long an IC lasts.  doc/vi/structer.En:476 gives it a lifetime "the same
\* as that of its cooresponding XIM window", but two things cut it short:
\* while its window exists an IC is deleted only when its own client asks, by
\* a sweep on a message for another IC that names the same focus window, or
\* by a client whose own IC of that icid is gone (delete_IC, ic_clean_all and
\* check_ic_exist, xim_IC.c:548, 631).
IcLifetime ==
    [][\A i \in m.ic_list \ m'.ic_list :
          m.IC[i].client_win \in alive
          => OwnerAsked(i) \/ Doubled(i) \/ StaleAsked(i)]_vars

\* How an icid gets stale: a sweep took the IC as a double or because its
\* window is gone, or a client with an icid that was stale already deleted
\* it.  No other message costs a client its IC, however the ids are used again
\* (new_IC, xim_IC.c:126).
Swept(i) ==
    /\ Sweeping(i)
    /\ SameFocus(i, ref) \/ m.IC[i].client_win \notin alive \cup {NoWindow}

StaleOnlyBySweep ==
    [][\A c \in Client, i \in ICID :
          Stale(c, i)' /\ ~Stale(c, i) => Swept(i) \/ StaleAsked(i)]_vars

\* When the server is used, the IC of a client that died is in the end
\* collected, unless messages go on to name it: those of a client that was
\* not told of the loss of its own IC of that icid.
Orphan(i) == i \in m.ic_list /\ m.IC[i].connect_id \notin clients

Addressed(i) == pc = "check" /\ ref = i

Used == \E i \in m.ic_list : ~Orphan(i) /\ Addressed(i)

OrphansCollected ==
    []<>Used => \A i \in ICID : Orphan(i) ~> ~Orphan(i) \/ Addressed(i)

-----------------------------------------------------------------------------
\* Input methods.

\* In Chinese mode, and only then, the IMC is bound to a module, which is the
\* one of its entry; the keystroke display is bound to a module as well; and
\* the focus flags go with their modes.  xim_forward_handler() and
\* call_simd() call through both bindings without a test (xim.c:763, 378).  No
\* xim_init() runs on an inpinfo that another xim_init() prepared and no
\* xim_end() released (xim.c:269-330).
ImReady ==
    \A k \in m.imc_list : LET x == m.IMC[k] IN
        /\ IF "CINPUT" \in x.inp_state
           THEN /\ x.imodp = x.inp_num /\ Loaded(x.imodp)
                /\ x.s_imodp = x.sinp_num /\ Loaded(x.s_imodp)
           ELSE x.imodp = NoMod
        /\ ~x.reinit
        /\ "XIMFOCUS" \in x.inp_state => "CINPUT" \in x.inp_state
        /\ "2BFOCUS" \in x.inp_state => "2BYTES" \in x.inp_state

\* A shared IMC follows the default entry, and the focused one while the IM
\* focus is on: so ic_create(), which stores one of them in the IMC, does not
\* change the entry under an IC that is in Chinese mode (xim_IC.c:530-533).
\* In Chinese mode its inpinfo was prepared by the xim_init() of the bound
\* module, although change_IM() skips it on the way back from English mode
\* (reset_inpinfo, xim.c:269-279).
SharedImAgree ==
    \A k \in m.imc_list :
        /\ "CINPUT" \in Flags(k) => m.IMC[k].inited = m.IMC[k].imodp
        /\ m.IMC[k].inp_num = m.default_im
        /\ "IM_FOCUS" \in m.mode => m.IMC[k].inp_num = m.im_focus

\* The loops of circular_change_IM() and change_simd() end, with one outcome,
\* and the two circular keys undo each other whatever entries they skip.
InputMode(mem, i) == LET x == imc_of(mem, i)
                     IN  IF "CINPUT" \in x.inp_state THEN x.inp_num ELSE English

CirclesUndo ==
    \A i \in m.ic_list :
        /\ Cardinality(change_simd(m, i)) = 1
        /\ \A d \in {1, -1} :
              /\ Cardinality(circular_change_IM(m, i, d)) = 1
              /\ \A a \in circular_change_IM(m, i, d) :
                    \A b \in circular_change_IM(a, i, -d) :
                        InputMode(b, i) = InputMode(m, i)

-----------------------------------------------------------------------------
\* The connection with the clients and the focus.

\* An IC is connected exactly when it is in Chinese or wide ASCII mode.
ConnectionMatchesMode ==
    \A i \in m.ic_list :
        Connected(i) <=> is_on(m, i, "CINPUT") \/ is_on(m, i, "2BYTES")

\* Chinese focus status: Chinese mode, and the IC has the input focus.
ChineseFocus ==
    \A i \in m.ic_list :
        is_on(m, i, "XIMFOCUS") <=> is_on(m, i, "CINPUT") /\ InFocus(i)

\* A new IC that gets the focus while the IM focus is running is connected
\* and enters the focused input method.
Welcomed(i) == "NEWIC" \in ICFlags(i) /\ "NEWIC" \notin ICFlags(i)'

NewIcFollowsFocus ==
    [][\A i \in m.ic_list \cap m'.ic_list :
          Welcomed(i) /\ "RUN_IM_FOCUS" \in m.mode
          => /\ Connected(i)'
             /\ is_on(m', i, "CINPUT")
             /\ imc_of(m', i).imodp = m.im_focus]_vars

-----------------------------------------------------------------------------
\* Windows and the end of the server.

\* The ic_rec of an IMC with a candidate window, from which an Expose redraws
\* it, is that of a live IC of this IMC.
SpotRecLive ==
    \A k \in m.imc_list :
        m.IMC[k].overspot_win => /\ m.IMC[k].ic_rec \in m.ic_list
                                 /\ m.IC[m.IMC[k].ic_rec].imc = k

\* Once it is told to exit the server stops, unless the client it asked for
\* an answer dies first.
ExitCompletes == [](Exiting => <>(pc \in Stopped \/ ~(Asked \subseteq clients)))

-----------------------------------------------------------------------------
(***************************************************************************)
(* gui_loop() and im_protocol_handler() never stop by themselves, time     *)
(* passes, and a client that runs answers a XIM_SYNC.                      *)
(***************************************************************************)
FairSpec == /\ Spec
            /\ WF_vars(Server)
            /\ WF_vars(Tick)
            /\ \A c \in Client : SF_vars(c \in clients /\ SyncReply(c))
=============================================================================
