------------------------------- MODULE Xi18n -------------------------------
(***************************************************************************)
(* The XIM protocol as lib/IMdkit speaks it for xcin: the records of the   *)
(* clients (i18nUtil.c), their connections (i18nX.c), the procedure of     *)
(* each message (i18nPtHdr.c, i18nIc.c) with the handler of xim.c it calls *)
(* inside, and the queue of the keys that come in while the client owes    *)
(* the answer to a key that was given back to it.  Each client is a        *)
(* program with one IC that speaks the protocol through Xlib.  The sweep   *)
(* of vanished ICs and the windows, which follow every message, and how an *)
(* IC id is found again are XimServer's subject.                           *)
(***************************************************************************)
EXTENDS Integers, Sequences

CONSTANTS App,          \* the clients, by the window of their connection
          MaxKeys,      \* bound: the keys each client types
          MaxWire,      \* bound: its messages on their way when it speaks
          Makes,        \* the requests and notices each client makes
          Events        \* "die", "exit": what may happen besides

ASSUME BoundAssumption == MaxKeys \in [App -> Nat] /\ MaxWire \in [App -> Nat]

VARIABLES clients,      \* address.clients: connect_id -> record
          free_clients, \* address.free_clients, the ids to be used again
          last_id,      \* the static connect_id of _Xi18nNewClient
          processing,   \* the client whose ProcessQueue loop runs, or 0
          ims_sync,     \* ims->sync
          ics,          \* the IC of a client in xcin
          server,       \* "up", "exiting", "exitall", or "error"
          toServer, toClient, \* the messages on their way, per client
          lib,          \* the client's side (Xlib)
          handled       \* the last key of a client that was handled

core == <<clients, free_clients, last_id, processing, ims_sync>>
vars == <<core, ics, server, toServer, toClient, lib, handled>>

NoIC == [connect_id |-> 0, connect |-> FALSE]

\* A message: the number of its key, and the request it replies to.
m(op) == [op |-> op, n |-> 0, to |-> ""]
Key(n) == [op |-> "FORWARD_EVENT", n |-> n, to |-> ""]
Reply(r) == [op |-> "REPLY", n |-> 0, to |-> r]
SET_EVENT_MASK(on) == m(IF on THEN "SET_EVENT_MASK" ELSE "CLEAR_EVENT_MASK")

(***************************************************************************)
(* The client records.                                                     *)
(***************************************************************************)
NewClient(a) == [win |-> a, byte_order |-> "?", sync |-> FALSE, pending |-> <<>>]

\* Slip: the id of a record from the free list is counted anew.
new_id_counted == last_id + 1

new_id == IF free_clients # <<>> THEN Head(free_clients) ELSE last_id + 1

_Xi18nNewClient(a) ==
    /\ clients' = [i \in DOMAIN clients \cup {new_id} |->
                      IF i = new_id THEN NewClient(a) ELSE clients[i]]
    /\ last_id' = IF free_clients # <<>> THEN last_id ELSE last_id + 1
    /\ free_clients' = IF free_clients # <<>> THEN Tail(free_clients) ELSE <<>>

_Xi18nDeleteClient(i) ==
    /\ clients' = [j \in DOMAIN clients \ {i} |-> clients[j]]
    /\ free_clients' = <<i>> \o free_clients
    /\ UNCHANGED last_id

\* ReadXIMMessage finds the record whose window a message came to.
Connected(a) == \E i \in DOMAIN clients : clients[i].win = a
id(a) == CHOOSE i \in DOMAIN clients : clients[i].win = a

(***************************************************************************)
(* Sending.  A message to the window of a client that died is an X error,  *)
(* and xcin installs no handler for it: the default one ends the server.   *)
(***************************************************************************)
Dead(a) == lib[a].stage = "dead"

Xi18nXSend(a, msgs, mode) ==
    /\ toClient' = IF Dead(a) THEN toClient ELSE [toClient EXCEPT ![a] = @ \o msgs]
    /\ server' = IF Dead(a) /\ msgs # <<>> THEN "error" ELSE mode

\* Bound: once xcin has ended the clients do nothing any more either.
Runs == server \in {"up", "exiting"}

Taken(a) == toServer' = [toServer EXCEPT ![a] = Tail(@)]

Answer(a, msgs) == Xi18nXSend(a, msgs, server)

(***************************************************************************)
(* The procedures of the messages.                                         *)
(***************************************************************************)
\* ReadXConnectMessage: the record is made before the version is looked at.
ReadXConnectMessage(a) ==
    /\ _Xi18nNewClient(a)
    /\ Answer(a, <<Reply("XCONNECT")>>)
    /\ UNCHANGED <<processing, ims_sync, ics, handled>>

ConnectMessageProc(a) ==
    /\ clients' = [clients EXCEPT ![id(a)].byte_order = "l"]
    /\ Answer(a, <<Reply("CONNECT")>>)
    /\ UNCHANGED <<free_clients, last_id, processing, ims_sync, ics, handled>>

DisConnectMessageProc(a) ==
    /\ Answer(a, <<Reply("DISCONNECT")>>)
    /\ _Xi18nDeleteClient(id(a))
    /\ UNCHANGED <<processing, ims_sync, ics, handled>>

OpenMessageProc(a) ==
    /\ Answer(a, <<m("REGISTER_TRIGGERKEYS"), Reply("OPEN")>>)
    /\ UNCHANGED <<core, ics, handled>>

\* Slip: the ICs of a client that closes are kept.
ic_clean_none(i) == ics

ic_clean_all(i) == [a \in App |-> IF ics[a].connect_id = i THEN NoIC ELSE ics[a]]

\* xim_close_handler does nothing when xcin is about to exit.
CloseMessageProc(a) ==
    /\ ics' = IF server = "exiting" THEN ics ELSE ic_clean_all(id(a))
    /\ Answer(a, <<Reply("CLOSE")>>)
    /\ UNCHANGED <<core, handled>>

\* Questions whose handler has no reason to refuse.
Answered(a, op) == Answer(a, <<Reply(op)>>) /\ UNCHANGED <<core, ics, handled>>

QueryExtensionMessageProc(a)     == Answered(a, "QUERY_EXTENSION")
GetIMValuesMessageProc(a)        == Answered(a, "GET_IM_VALUES")
EncodingNegotiatonMessageProc(a) == Answered(a, "ENCODING_NEGOTIATION")
ResetICMessageProc(a)            == Answered(a, "RESET_IC")

\* Messages im_protocol_handler has no use for: the extensions are offered to
\* the clients, but their opcode is unknown to it, and the replies to callbacks
\* that are never called are let pass.
Unheeded(a, msgs) == Answer(a, msgs) /\ UNCHANGED <<core, ics, handled>>

\* An event that is no key press is an error.
ExtForwardKeyEventMessageProc(a) ==
    \E msgs \in {<<>>, <<m("ERROR")>>} : Unheeded(a, msgs)

ExtMoveMessageProc(a)           == Unheeded(a, <<>>)
PreeditStartReplyMessageProc(a) == Unheeded(a, <<>>)
PreeditCaretReplyMessageProc(a) == Unheeded(a, <<>>)

\* _Xi18nChangeIC and ic_create().
CreateICMessageProc(a) ==
    /\ ics' = IF server = "exiting" THEN ics
              ELSE [ics EXCEPT ![a] = [connect_id |-> id(a), connect |-> FALSE]]
    /\ Answer(a, <<Reply("CREATE_IC")>>)
    /\ UNCHANGED <<core, handled>>

\* Slip: only an IC in an input mode is found.
found_connected(ic) == ic.connect

found(ic) == ic # NoIC

\* A handler that does not find the IC refuses, and nothing is answered.
\* Only the one of GET_IC_VALUES looks for it when xcin is about to exit.
AnswerIf(a, ok, op) == Answer(a, IF ok THEN <<Reply(op)>> ELSE <<>>)

SetICValuesMessageProc(a) ==
    /\ AnswerIf(a, found(ics[a]) \/ server = "exiting", "SET_IC_VALUES")
    /\ UNCHANGED <<core, ics, handled>>

GetICValuesMessageProc(a) ==
    /\ AnswerIf(a, found(ics[a]), "GET_IC_VALUES")
    /\ UNCHANGED <<core, ics, handled>>

DestroyICMessageProc(a) ==
    /\ ics' = IF server = "exiting" THEN ics ELSE [ics EXCEPT ![a] = NoIC]
    /\ AnswerIf(a, found(ics[a]) \/ server = "exiting", "DESTROY_IC")
    /\ UNCHANGED <<core, handled>>

(***************************************************************************)
(* xim_connect() and xim_disconnect(): the flag of the IC and the event    *)
(* mask of the client change together (xi18n_preeditStart and End).        *)
(***************************************************************************)
\* Slip: the mask is sent whether the IC was connected or not, but never
\* taken back.
xim_disconnect_silently(ic) == [ic |-> [ic EXCEPT !.connect = FALSE], msgs |-> <<>>]

xim_disconnect(ic) ==
    [ic |-> [ic EXCEPT !.connect = FALSE],
     msgs |-> IF ic.connect THEN <<SET_EVENT_MASK(FALSE)>> ELSE <<>>]

xim_connect(ic) ==
    [ic |-> [ic EXCEPT !.connect = TRUE],
     msgs |-> IF ic.connect THEN <<>> ELSE <<SET_EVENT_MASK(TRUE)>>]

\* xim_set_focus_handler may connect or disconnect, by the mode of the IMC, or
\* do both: a new IC is connected for the IM in focus, then disconnected when
\* the IMC of all ICs has no mode.
turned_off(ic) ==
    LET on  == xim_connect(ic)
        off == xim_disconnect(on.ic)
    IN  [ic |-> off.ic, msgs |-> on.msgs \o off.msgs]

SetICFocusMessageProc(a) ==
    /\ \E r \in {xim_connect(ics[a]), xim_disconnect(ics[a]), turned_off(ics[a]),
                 [ic |-> ics[a], msgs |-> <<>>]} :
          IF ~found(ics[a]) \/ server = "exiting"
          THEN Answer(a, <<>>) /\ UNCHANGED ics
          ELSE Answer(a, r.msgs) /\ ics' = [ics EXCEPT ![a] = r.ic]
    /\ UNCHANGED <<core, handled>>

UnsetICFocusMessageProc(a) ==
    /\ Answer(a, <<>>)
    /\ UNCHANGED <<core, ics, handled>>

xi18n_commit == {<<>>, <<m("COMMIT")>>}

\* The reply goes first, then the mask, then xim_trigger_handler decides
\* whether the key leaves the client connected; a quick phrase, which does
\* not, may be committed before.
trigger_replies == <<Reply("TRIGGER_NOTIFY"), SET_EVENT_MASK(TRUE)>>

TriggerNotifyMessageProc(a) ==
    /\ \E fails \in BOOLEAN, phrase \in xi18n_commit :
          LET on == [ics[a] EXCEPT !.connect = TRUE]
              r  == IF fails THEN [xim_disconnect(on) EXCEPT !.msgs = phrase \o @]
                             ELSE [ic |-> on, msgs |-> <<>>]
          IN  IF ~found(ics[a]) \/ server = "exiting"
              THEN Answer(a, trigger_replies) /\ UNCHANGED ics
              ELSE Answer(a, trigger_replies \o r.msgs)
                   /\ ics' = [ics EXCEPT ![a] = r.ic]
    /\ UNCHANGED <<core, handled>>

(***************************************************************************)
(* ForwardEventMessageProc with xim_forward_handler: the key may commit    *)
(* text, and is kept, switches the input mode off, or is given back, after *)
(* which the client owes an answer (xi18n_forwardEvent).                   *)
(***************************************************************************)
xi18n_forwardEvent == <<m("FORWARD_EVENT")>>

given_back(c) == [c EXCEPT !.sync = TRUE]

ForwardEventMessageProc(i, c, key) ==
    LET a == c.win IN
    /\ \E text \in xi18n_commit, end \in {"kept", "off", "back"} :
          LET off  == xim_disconnect(ics[a])
          IN  IF ~found(ics[a]) \/ server = "exiting"
              THEN Answer(a, <<>>) /\ UNCHANGED ics /\ clients' = [clients EXCEPT ![i] = c]
              ELSE /\ Answer(a, text \o CASE end = "kept" -> <<>>
                                          [] end = "off"  -> off.msgs
                                          [] end = "back" -> xi18n_forwardEvent)
                   /\ ics' = IF end = "off" THEN [ics EXCEPT ![a] = off.ic] ELSE ics
                   /\ clients' = [clients EXCEPT ![i] =
                                     IF end = "back" THEN given_back(c) ELSE c]
    /\ handled' = [handled EXCEPT ![a] = key]
    /\ UNCHANGED <<free_clients, last_id, ims_sync>>

\* Slip: a new key goes to the head of the queue.
AddQueue_first(c, key) == [c EXCEPT !.pending = <<key>> \o @]

AddQueue(c, key) == [c EXCEPT !.pending = Append(@, key)]

\* A key that comes in while the client owes an answer has to wait.
ForwardEvent(a, key) ==
    LET c == clients[id(a)] IN
    IF c.sync
    THEN /\ clients' = [clients EXCEPT ![id(a)] = AddQueue(c, key)]
         /\ Answer(a, <<>>)
         /\ UNCHANGED <<free_clients, last_id, processing, ims_sync, ics, handled>>
    ELSE ForwardEventMessageProc(id(a), c, key) /\ UNCHANGED processing

(***************************************************************************)
(* SyncReplyMessageProc and ProcessQueue.  The answer of any client is     *)
(* taken for the one xcin waits for when it exits.                         *)
(***************************************************************************)
\* Slip: the answer is not noted.
answered_not(c) == c

answered(c) == [c EXCEPT !.sync = FALSE]

\* Slip: the keys that waited are left to the next answer.
drains_not(i) == 0

drains(i) == i

SyncReplyMessageProc(a) ==
    /\ clients' = [clients EXCEPT ![id(a)] = answered(@)]
    /\ ims_sync' = FALSE
    /\ Xi18nXSend(a, <<>>, IF ims_sync /\ server = "exiting" THEN "exitall" ELSE server)
    /\ processing' = drains(id(a))
    /\ UNCHANGED <<free_clients, last_id, ics, handled>>

\* while (client->sync == False && client->pending)
ProcessQueue ==
    /\ processing # 0 /\ Runs
    /\ LET c == clients[processing] IN
       IF ~c.sync /\ c.pending # <<>>
       THEN /\ ForwardEventMessageProc(processing, [c EXCEPT !.pending = Tail(@)],
                                      Head(c.pending))
            /\ UNCHANGED processing
       ELSE /\ processing' = 0
            /\ UNCHANGED <<clients, free_clients, last_id, ims_sync, ics, handled,
                           server, toClient>>
    /\ UNCHANGED <<toServer, lib>>

(***************************************************************************)
(* _Xi18nMessageHandler and WaitXConnectMessage: one message is handled to *)
(* its end before the next is looked at.                                   *)
(***************************************************************************)
_Xi18nMessageHandler(a, msg) ==
    \/ msg.op = "CONNECT"        /\ ConnectMessageProc(a)
    \/ msg.op = "DISCONNECT"     /\ DisConnectMessageProc(a)
    \/ msg.op = "OPEN"           /\ OpenMessageProc(a)
    \/ msg.op = "CLOSE"          /\ CloseMessageProc(a)
    \/ msg.op = "CREATE_IC"      /\ CreateICMessageProc(a)
    \/ msg.op = "SET_IC_VALUES"  /\ SetICValuesMessageProc(a)
    \/ msg.op = "GET_IC_VALUES"  /\ GetICValuesMessageProc(a)
    \/ msg.op = "DESTROY_IC"     /\ DestroyICMessageProc(a)
    \/ msg.op = "SET_IC_FOCUS"   /\ SetICFocusMessageProc(a)
    \/ msg.op = "UNSET_IC_FOCUS" /\ UnsetICFocusMessageProc(a)
    \/ msg.op = "TRIGGER_NOTIFY" /\ TriggerNotifyMessageProc(a)
    \/ msg.op = "FORWARD_EVENT"  /\ ForwardEvent(a, msg.n)
    \/ msg.op = "SYNC_REPLY"     /\ SyncReplyMessageProc(a)
    \/ msg.op = "QUERY_EXTENSION" /\ QueryExtensionMessageProc(a)
    \/ msg.op = "GET_IM_VALUES"   /\ GetIMValuesMessageProc(a)
    \/ msg.op = "RESET_IC"        /\ ResetICMessageProc(a)
    \/ msg.op = "ENCODING_NEGOTIATION" /\ EncodingNegotiatonMessageProc(a)
    \/ msg.op = "EXT_FORWARD_KEYEVENT" /\ ExtForwardKeyEventMessageProc(a)
    \/ msg.op = "EXT_MOVE"             /\ ExtMoveMessageProc(a)
    \/ msg.op = "PREEDIT_START_REPLY"  /\ PreeditStartReplyMessageProc(a)
    \/ msg.op = "PREEDIT_CARET_REPLY"  /\ PreeditCaretReplyMessageProc(a)

Receive(a) ==
    /\ processing = 0 /\ Runs /\ toServer[a] # <<>>
    /\ Taken(a)
    /\ LET msg == Head(toServer[a]) IN
       \/ msg.op = "XCONNECT" /\ ReadXConnectMessage(a)
       \/ /\ Connected(a)
          /\ msg.op = "CONNECT" \/ clients[id(a)].byte_order # "?"
          /\ _Xi18nMessageHandler(a, msg)
    /\ UNCHANGED lib

xi18n_syncXlib == <<m("SYNC")>>

\* xim_close(): the client of the current IC is asked for a last answer; when
\* no IC is current, whatever ICs there are, the server ends at once.
XimClose ==
    /\ "exit" \in Events /\ server = "up" /\ processing = 0
    /\ \/ /\ \E a \in App :
               /\ ics[a] # NoIC
               /\ ims_sync' = TRUE
               /\ ics' = [ics EXCEPT ![a] = xim_disconnect(@).ic]
               /\ Xi18nXSend(a, xim_disconnect(ics[a]).msgs \o xi18n_syncXlib, "exiting")
       \/ /\ server' = "exitall"
          /\ UNCHANGED <<ims_sync, ics, toClient>>
    /\ UNCHANGED <<clients, free_clients, last_id, processing, toServer, lib, handled>>

(***************************************************************************)
(* The client (external): a request is answered before the next one is     *)
(* made, keys are sent while the event mask says so, and the answer to     *)
(* keys given back is sent once for all of them.                           *)
(***************************************************************************)
Requests == {"XCONNECT", "CONNECT", "OPEN", "CREATE_IC", "DESTROY_IC", "CLOSE", "DISCONNECT",
             "QUERY_EXTENSION", "GET_IM_VALUES", "ENCODING_NEGOTIATION", "RESET_IC",
             "SET_IC_VALUES", "GET_IC_VALUES", "TRIGGER_NOTIFY"}

Questions == {"QUERY_EXTENSION", "GET_IM_VALUES", "ENCODING_NEGOTIATION"}

\* The stages a request is made in, and the stage its reply leads to.
before(r) == CASE r = "XCONNECT" -> {"new"}
               [] r = "CONNECT" -> {"linked"}
               [] r = "OPEN" -> {"connected"}
               [] r \in Questions \cup {"CREATE_IC"} -> {"open"}
               [] r = "CLOSE" -> {"open", "ic"}
               [] r = "DISCONNECT" -> {"closed"}
               [] OTHER -> {"ic"}

after(r) == CASE r = "XCONNECT" -> "linked"
              [] r = "CONNECT" -> "connected"
              [] r \in Questions \cup {"OPEN", "DESTROY_IC"} -> "open"
              [] r = "CLOSE" -> "closed"
              [] r = "DISCONNECT" -> "gone"
              [] OTHER -> "ic"

Free(a) == Runs /\ lib[a].awaits = "" /\ Len(toServer[a] \o toClient[a]) < MaxWire[a]

Says(a, msg) == toServer' = [toServer EXCEPT ![a] = Append(@, msg)]

Request(a, r) ==
    /\ Free(a) /\ lib[a].stage \in before(r)
    /\ r = "TRIGGER_NOTIFY" => lib[a].focus /\ ~lib[a].mask
    /\ Says(a, m(r))
    /\ lib' = [lib EXCEPT ![a].awaits = r, ![a].focus = @ /\ after(r) = "ic"]
    /\ UNCHANGED <<core, ics, server, toClient, handled>>

\* What a client says and wants no reply to.
Notices == {"EXT_FORWARD_KEYEVENT", "EXT_MOVE", "PREEDIT_START_REPLY", "PREEDIT_CARET_REPLY"}

Notice(a, r) ==
    /\ Free(a) /\ lib[a].stage = "ic"
    /\ Says(a, m(r))
    /\ UNCHANGED <<core, ics, server, toClient, lib, handled>>

Focus(a) ==
    /\ Free(a) /\ lib[a].stage = "ic"
    /\ Says(a, m(IF lib[a].focus THEN "UNSET_IC_FOCUS" ELSE "SET_IC_FOCUS"))
    /\ lib' = [lib EXCEPT ![a].focus = ~@]
    /\ UNCHANGED <<core, ics, server, toClient, handled>>

Type(a) ==
    /\ Free(a) /\ lib[a].focus /\ lib[a].mask /\ lib[a].typed < MaxKeys[a]
    /\ Says(a, Key(lib[a].typed + 1))
    /\ lib' = [lib EXCEPT ![a].typed = @ + 1]
    /\ UNCHANGED <<core, ics, server, toClient, handled>>

SyncReply(a) ==
    /\ Runs /\ lib[a].mark /\ lib[a].awaits = "" /\ lib[a].stage # "gone"
    /\ Says(a, m("SYNC_REPLY"))
    /\ lib' = [lib EXCEPT ![a].mark = FALSE]
    /\ UNCHANGED <<core, ics, server, toClient, handled>>

\* What the client does with a message of the server.  A commit asks for an
\* answer like a key given back: xi18n_commit() always sets XimSYNCHRONUS.
heard(l, msg) ==
    IF msg.op = "REPLY"
    THEN [l EXCEPT !.awaits = "", !.stage = after(msg.to),
                   !.mask = @ /\ after(msg.to) = "ic"]
    ELSE CASE msg.op = "SET_EVENT_MASK" -> [l EXCEPT !.mask = TRUE]
           [] msg.op = "CLEAR_EVENT_MASK" -> [l EXCEPT !.mask = FALSE]
           [] msg.op \in {"FORWARD_EVENT", "COMMIT", "SYNC"} -> [l EXCEPT !.mark = TRUE]
           [] OTHER -> l

Hear(a) ==
    /\ Runs /\ toClient[a] # <<>>
    /\ toClient' = [toClient EXCEPT ![a] = Tail(@)]
    /\ lib' = [lib EXCEPT ![a] = heard(@, Head(toClient[a]))]
    /\ UNCHANGED <<core, ics, server, toServer, handled>>

Unborn == [stage |-> "new", awaits |-> "", mark |-> FALSE, mask |-> FALSE,
           focus |-> FALSE, typed |-> 0]

\* A client is killed: its windows go, its record and its IC stay.
Die(a) ==
    /\ "die" \in Events /\ Runs /\ lib[a].stage \notin {"new", "gone", "dead"}
    /\ lib' = [lib EXCEPT ![a] = [Unborn EXCEPT !.stage = "dead", !.typed = lib[a].typed]]
    /\ toClient' = [toClient EXCEPT ![a] = <<>>]
    /\ UNCHANGED <<core, ics, server, toServer, handled>>

(***************************************************************************)
(* The system.                                                             *)
(***************************************************************************)
Init == /\ clients = [i \in {} |-> 0] /\ free_clients = <<>> /\ last_id = 0
        /\ processing = 0 /\ ims_sync = FALSE
        /\ ics = [a \in App |-> NoIC] /\ server = "up"
        /\ toServer = [a \in App |-> <<>>] /\ toClient = [a \in App |-> <<>>]
        /\ lib = [a \in App |-> Unborn]
        /\ handled = [a \in App |-> 0]

Next == \/ ProcessQueue \/ XimClose
        \/ \E a \in App : \/ Receive(a) \/ Focus(a) \/ Type(a) \/ SyncReply(a)
                          \/ Hear(a) \/ Die(a)
                          \/ \E r \in Makes[a] \cap Requests : Request(a, r)
                          \/ \E r \in Makes[a] \cap Notices : Notice(a, r)

Spec == Init /\ [][Next]_vars

\* xcin handles whatever comes, and a client that lives goes on reading and
\* answers the keys given back to it.
Fairness == /\ WF_vars(ProcessQueue)
            /\ \A a \in App : WF_vars(Receive(a)) /\ WF_vars(Hear(a))
                              /\ SF_vars(SyncReply(a))

FairSpec == Spec /\ Fairness
=============================================================================
