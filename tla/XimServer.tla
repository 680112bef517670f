----------------------------- MODULE XimServer -----------------------------
(***************************************************************************)
(* The xcin server and its XIM clients.  The server is one thread running  *)
(* gui_loop(): a protocol message is handled by im_protocol_handler(),     *)
(* which runs the handler, then check_ic_exist(), then                     *)
(* gui_update_winlist().  Between these three steps a signal may run       *)
(* sighandler(), the clock may tick and windows may vanish.                *)
(***************************************************************************)
EXTENDS XimHandlers

CONSTANTS
    WindowsOf,      \* the windows of each client
    CreateValues,   \* attributes that a XIM_CREATE_IC may carry
    ChangeValues,   \* attributes that a XIM_SET_IC_VALUES may carry
    TriggerKeys, ForwardKeys,   \* the functional keys that clients press
    PlainKeys,      \* TRUE: keys that go back to the client are pressed too
    InStep,         \* TRUE: a client sends keys only for an IC that has the
                    \*       focus, and has seen every XIM_SET_EVENT_MASK
    Events,         \* what else happens: a subset of Event
    StartModes,     \* xcin_mode after the configuration
    Named,          \* entries of the cinput table that the rcfile fills
    DefaultIMs,     \* what the rcfile may name as the default input method
    Sinmds          \* and as the keystroke display; English stands for none

Event == {"tick", "window", "die", "signal", "close"}

ICValues == [client_win : Window \cup {NoWindow},
             focus_win : Window \cup {NoWindow},
             input_style : Style \cup {NoStyle}]

ASSUME ServerAssumption ==
    /\ WindowsOf \in [Client -> SUBSET Window]
    /\ CreateValues \subseteq ICValues
    /\ ChangeValues \subseteq ICValues
    /\ TriggerKeys \subseteq FKey
    /\ ForwardKeys \subseteq FKey
    /\ PlainKeys \in BOOLEAN
    /\ InStep \in BOOLEAN
    /\ Events \subseteq Event
    /\ StartModes \subseteq SUBSET {"IM_FOCUS", "ICCHECK_OFF"}
    /\ DefaultIMs \cup Sinmds \subseteq Inp \cup {English}
    /\ Named \subseteq Inp
    /\ Named \cap Loadable # {}

VARIABLES
    m,          \* the memory of the server
    pc,         \* where the server is
    ref,        \* icid of im_protocol_handler(): -1 when it was not set
    clients,    \* the clients that are running
    alive,      \* the windows that exist
    held,       \* the icids that each client holds
    owed        \* the clients that owe the server a XIM_SYNC_REPLY

vars == <<m, pc, ref, clients, alive, held, owed>>
world == <<clients, alive, held, owed>>

Stopped == {"exited", "killed"}

TypeOK ==
    /\ m \in Memory
    /\ pc \in {"idle", "check", "winlist"} \cup Stopped
    /\ ref \in ICID \cup {NULL, -1}
    /\ clients \subseteq Client
    /\ alive \subseteq Window
    /\ held \in [Client -> SUBSET ICID]
    /\ owed \subseteq Client

Init ==
    /\ \E mode \in StartModes, d \in DefaultIMs, s \in Sinmds :
          m = StartMemory(mode, Named, d, s)
    /\ pc = "idle"
    /\ ref = -1
    /\ clients = Client
    /\ alive = Window
    /\ held = [c \in Client |-> {}]
    /\ owed = {}

-----------------------------------------------------------------------------
(***************************************************************************)
(* Messages of the clients.  Once the server is exiting a handler returns  *)
(* before it does anything; an icid that is not in the list is ignored.    *)
(***************************************************************************)
ServerReady == pc = "idle" /\ "RUN_EXITALL" \notin m.mode
Exiting == "RUN_EXIT" \in m.mode

Handled(r, outcomes) ==
    /\ ServerReady
    /\ pc' = "check"
    /\ ref' = r
    /\ m' \in IF Exiting THEN {m} ELSE outcomes

HandledIC(i, outcomes) ==
    Handled(i, IF i \in m.ic_list THEN outcomes ELSE {m})

Own(c, v) == {v.client_win, v.focus_win}
             \subseteq (WindowsOf[c] \cap alive) \cup {NoWindow}

\* IMdkit hands the handler of XIM_CREATE_IC an icid of 0.
CreateIC(c) == \E v \in CreateValues, i \in new_ids(m) :
    /\ Own(c, v)
    /\ Handled(NULL, {ic_create(m, i, c, v)})
    /\ held' = IF Exiting THEN held ELSE [held EXCEPT ![c] = @ \cup {i}]
    /\ UNCHANGED <<clients, alive, owed>>

DestroyIC(c, i) ==
    /\ Handled(i, {ic_destroy(m, i)})
    /\ held' = [held EXCEPT ![c] = @ \ {i}]
    /\ UNCHANGED <<clients, alive, owed>>

SetFocus(c, i) == HandledIC(i, {set_focus(m, i)}) /\ UNCHANGED world

UnsetFocus(c, i) == HandledIC(i, {unset_focus(m, i)}) /\ UNCHANGED world

SetICValues(c, i) == \E v \in ChangeValues :
    /\ Own(c, v)
    /\ HandledIC(i, {ic_set_values(m, i, v)})
    /\ UNCHANGED world

\* The client's library sends a key as a trigger or forwards it, according
\* to the last event mask that it was given.
InFocus(i)   == "FOCUS" \in m.IC[i].ic_state
Connected(i) == "CONNECT" \in m.IC[i].ic_state

Trigger(c, i) == \E key \in TriggerKeys :
    /\ InStep => InFocus(i) /\ ~Connected(i)
    /\ HandledIC(i, trigger(m, i, key))
    /\ UNCHANGED world

\* IMdkit queues the keys of a client that owes it an answer.
Forward(c, i) == \E key \in ForwardKeys :
    /\ InStep => InFocus(i) /\ Connected(i)
    /\ c \notin owed
    /\ HandledIC(i, forward(m, i, key))
    /\ UNCHANGED world

\* A key that the input method does not absorb goes back to the client.
PlainKey(c, i) ==
    /\ PlainKeys
    /\ c \notin owed
    /\ HandledIC(i, {m})
    /\ owed' \in {owed} \cup (IF Exiting THEN {} ELSE {owed \cup {c}})
    /\ UNCHANGED <<clients, alive, held>>

\* XIM_GET_IC_VALUES changes nothing of its own.
GetICValues(c, i) == HandledIC(i, {m}) /\ UNCHANGED world

\* XIM_CLOSE, after which the client may open the input method again.
Close(c) ==
    /\ Handled(-1, {ic_clean_all(m, c)})
    /\ held' = [held EXCEPT ![c] = {}]
    /\ UNCHANGED <<clients, alive, owed>>

(***************************************************************************)
(* IMdkit calls the handler of XIM_SYNC_REPLY only after the server has    *)
(* called IMSyncXlib(), which xim_close() does; the answer of any client   *)
(* then ends the wait.                                                     *)
(***************************************************************************)
SyncReply(c) ==
    /\ c \in owed
    /\ owed' = owed \ {c}
    /\ IF Exiting THEN /\ ServerReady
                       /\ pc' = "check" /\ ref' = NULL /\ m' = sync_reply(m)
                  ELSE ServerReady /\ UNCHANGED <<m, pc, ref>>
    /\ UNCHANGED <<clients, alive, held>>

Message(c) ==
    \/ CreateIC(c) \/ Close(c) \/ SyncReply(c)
    \/ \E i \in held[c] :
          \/ DestroyIC(c, i) \/ SetFocus(c, i) \/ UnsetFocus(c, i)
          \/ SetICValues(c, i) \/ GetICValues(c, i)
          \/ Trigger(c, i) \/ Forward(c, i) \/ PlainKey(c, i)

-----------------------------------------------------------------------------
(***************************************************************************)
(* The rest of im_protocol_handler(), and of gui_loop().                   *)
(***************************************************************************)
CheckICs ==
    /\ pc = "check"
    /\ pc' = "winlist"
    /\ m' = IF "ICCHECK_OFF" \in m.mode THEN m
            ELSE check_ic_exist(m, ref, alive)
    /\ UNCHANGED <<ref, world>>

SpotError(mem, k) == spot_window(mem, k) \notin alive

UpdateWinlist ==
    /\ pc = "winlist"
    /\ m' = gui_update_winlist(m)
    /\ LET k == m.IC[m.ic].imc
           bad == spot_on(m) /\ SpotError(m', k)
       IN  \/ pc' = "idle" /\ ~(bad /\ needs_spot(m))
           \/ pc' = "killed" /\ bad /\ (needs_spot(m) \/ may_draw(m, k))
    /\ UNCHANGED <<ref, world>>

\* An Expose redraws a candidate window from the ic_rec of its IMC.
Expose ==
    /\ ServerReady
    /\ \E k \in m.imc_list : /\ m.IMC[k].overspot_win
                             /\ may_draw(m, k)
                             /\ SpotError(m, k)
    /\ pc' = "killed"
    /\ UNCHANGED <<m, ref, world>>

LoopExit ==
    /\ pc = "idle"
    /\ "RUN_EXITALL" \in m.mode
    /\ pc' = "exited"
    /\ UNCHANGED <<m, ref, world>>

Server == CheckICs \/ UpdateWinlist \/ LoopExit

(***************************************************************************)
(* xim_close() asks the client of the current IC to answer; sending to a   *)
(* client whose windows are gone is an X error that ends the process.      *)
(***************************************************************************)
Asked == IF m.ic = NULL THEN {} ELSE {m.IC[m.ic].connect_id}

XimClose(mem, next) ==
    /\ m' = xim_close(mem)
    /\ pc' = IF Asked \subseteq clients THEN next ELSE "killed"
    /\ owed' = owed \cup (Asked \cap clients)
    /\ UNCHANGED <<ref, clients, alive, held>>

Signal ==
    /\ "signal" \in Events
    /\ pc \notin Stopped
    /\ XimClose(m, IF "RUN_EXITALL" \in xim_close(m).mode
                   THEN "exited" ELSE pc)

CloseMainWindow ==
    /\ "close" \in Events
    /\ ServerReady
    /\ XimClose(free_spot(m), "idle")

-----------------------------------------------------------------------------
\* The world around the server.
Tick ==
    /\ "tick" \in Events
    /\ pc \notin Stopped
    /\ tick(m) # m
    /\ m' = tick(m)
    /\ UNCHANGED <<pc, ref, world>>

WindowGone(w) ==
    /\ "window" \in Events
    /\ pc \notin Stopped
    /\ w \in alive
    /\ alive' = alive \ {w}
    /\ UNCHANGED <<m, pc, ref, clients, held, owed>>

\* A client dies without XIM_CLOSE, and its windows with it.
Die(c) ==
    /\ "die" \in Events
    /\ pc \notin Stopped
    /\ clients' = clients \ {c}
    /\ alive' = alive \ WindowsOf[c]
    /\ owed' = owed \ {c}
    /\ held' = [held EXCEPT ![c] = {}]
    /\ UNCHANGED <<m, pc, ref>>

Environment == Tick \/ Signal \/ (\E w \in Window : WindowGone(w))
               \/ (\E c \in clients : Die(c))

Next == \/ \E c \in clients : Message(c)
        \/ Server \/ Expose \/ CloseMainWindow \/ Environment

Spec == Init /\ [][Next]_vars
=============================================================================
