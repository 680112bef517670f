--------------------------- MODULE Xi18nProperties ---------------------------
(***************************************************************************)
(* What must hold of the protocol between xcin and its clients.            *)
(***************************************************************************)
EXTENDS Xi18n, SequencesExt

\* Type correctness; a record is that of a window, and no id is both in use
\* and free.
WireTypeOK ==
    /\ DOMAIN clients \subseteq 1 .. last_id
    /\ \A i \in DOMAIN clients :
          clients[i] \in [win : App, byte_order : {"?", "l"}, sync : BOOLEAN,
                          pending : Seq(Nat)]
    /\ free_clients \in Seq(1 .. last_id)
    /\ processing \in DOMAIN clients \cup {0}
    /\ ims_sync \in BOOLEAN /\ server \in {"up", "exiting", "exitall", "error"}
    /\ ics \in [App -> [connect_id : 0 .. last_id, connect : BOOLEAN]]
    /\ handled \in [App -> Nat]

\* No key waits for an answer the client does not owe: whenever the server is
\* between two messages, the queue of a client whose sync flag is off is empty
\* (i18nPtHdr.c, AddQueue, ProcessQueue and SyncReplyMessageProc).
NoKeyStranded ==
    \A i \in DOMAIN clients :
        (~clients[i].sync /\ processing # i) => clients[i].pending = <<>>

\* A client whose keys wait really owes an answer: the key given back is on
\* its way to it, or it has it, or the answer is on its way.
AnswerOwed ==
    \A i \in DOMAIN clients :
        LET a == clients[i].win IN
        clients[i].sync => \/ Dead(a)
                           \/ m("FORWARD_EVENT") \in Range(toClient[a])
                           \/ lib[a].mark
                           \/ m("SYNC_REPLY") \in Range(toServer[a])

\* The last event mask among the messages of a queue.
Masks == {"SET_EVENT_MASK", "CLEAR_EVENT_MASK"}

LastMask(s, on) == \E k \in DOMAIN s : /\ s[k] = SET_EVENT_MASK(on)
                                       /\ \A l \in DOMAIN s : l > k => s[l].op \notin Masks

NoMask(s) == \A k \in DOMAIN s : s[k].op \notin Masks

\* The event mask the client will have when it has heard everything says
\* whether its keys come to the server: it is that of IC_CONNECT (xim.c,
\* xim_connect and xim_disconnect; i18nPtHdr.c, TriggerNotifyMessageProc).
MaskAgrees ==
    \A a \in App :
        (server = "up" /\ lib[a].stage = "ic" /\ ics[a] # NoIC)
            => \/ LastMask(toClient[a], ics[a].connect)
               \/ NoMask(toClient[a]) /\ lib[a].mask = ics[a].connect

\* An IC names the record of the client that made it, so that what xcin sends
\* for the IC goes to the window it belongs to, although ids are used again
\* (i18nUtil.c, _Xi18nNewClient and _Xi18nDeleteClient).
IcFindsClient ==
    \A a \in App :
        (server = "up" /\ ics[a] # NoIC) =>
            /\ ics[a].connect_id \in DOMAIN clients
            /\ clients[ics[a].connect_id].win = a
            /\ ics[a].connect_id \notin Range(free_clients)

\* The numbers of the keys among the messages of a queue.
keys_of(s) ==
    LET keys[k \in 0 .. Len(s)] ==
          IF k = 0 THEN <<>>
          ELSE IF s[k].op = "FORWARD_EVENT" THEN Append(keys[k - 1], s[k].n)
                                            ELSE keys[k - 1]
    IN  keys[Len(s)]

\* The keys of a client, those that wait and those on their way.
waiting(a) == IF Connected(a) THEN clients[id(a)].pending ELSE <<>>

KeysOnTheWay(a) == waiting(a) \o keys_of(toServer[a])

Channel == INSTANCE KeyChannel WITH queue <- [a \in App |-> KeysOnTheWay(a)]

\* Whatever the queue, the answers and the other messages do, each client's
\* keys are handled one by one in the order they were typed.
KeysInOrder == Channel!Spec

\* A key that was sent is handled, unless the client is gone or xcin ends:
\* no key waits for ever in the queue.
KeysHandled ==
    \A a \in App : \A k \in 1 .. MaxKeys[a] :
        lib[a].typed >= k ~> \/ handled[a] >= k
                             \/ lib[a].stage \in {"gone", "dead"}
                             \/ server # "up"

\* A client that waits for a reply gets it, unless xcin ends.
RequestsAnswered ==
    \A a \in App : lib[a].awaits # "" ~> \/ lib[a].awaits = ""
                                         \/ server # "up"
=============================================================================
