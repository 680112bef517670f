---------------------------- MODULE Xi18n_proofs ----------------------------
(***************************************************************************)
(* Proofs about the protocol, for every set of clients and every bound.    *)
(*                                                                         *)
(* NoKeyStranded is inductive once the records have their types.  That an  *)
(* IC finds the record of its own client is not: it holds because a client *)
(* has one request under way at a time (OneAtATime), connects once (Meets) *)
(* and is given no IC from the time its CLOSE was handled on (Ends), so    *)
(* that no two records have one window (Records).                          *)
(***************************************************************************)
EXTENDS Xi18nProperties, SequenceTheorems, TLAPS

\* No message of s, or at most one, is of the kinds R.
None(s, R) == \A k \in DOMAIN s : s[k].op \notin R
Once(s, R) == \A k, l \in DOMAIN s : s[k].op \in R /\ s[l].op \in R => k = l

Kinds == Requests \cup Notices \cup
            {"FORWARD_EVENT", "SYNC_REPLY", "SET_IC_FOCUS", "UNSET_IC_FOCUS", "REPLY",
             "SET_EVENT_MASK", "CLEAR_EVENT_MASK", "REGISTER_TRIGGERKEYS", "COMMIT",
             "SYNC", "ERROR"}

Message == {x \in [op : Kinds, n : Nat, to : Requests \cup {""}] :
               x.op = "REPLY" => x.to \in Requests}

Stages == {"new", "linked", "connected", "open", "ic", "closed", "gone", "dead"}

Client == [stage : Stages, awaits : Requests \cup {""}, mark : BOOLEAN, mask : BOOLEAN,
           focus : BOOLEAN, typed : Nat]

Typed == /\ WireTypeOK
         /\ last_id \in Nat
         /\ toServer \in [App -> Seq(Message)] /\ toClient \in [App -> Seq(Message)]
         /\ lib \in [App -> Client]

-----------------------------------------------------------------------------
(***************************************************************************)
(* Queues of messages.                                                     *)
(***************************************************************************)
LEMMA TailNone ==
    ASSUME NEW s \in Seq(Message), s # <<>>, NEW R
    PROVE  /\ None(s, R) => None(Tail(s), R)
           /\ Once(s, R) => Once(Tail(s), R)
           /\ Once(s, R) /\ Head(s).op \in R => None(Tail(s), R)
           /\ \A x \in Range(Tail(s)) : x \in Range(s)
           /\ \A x \in Range(s) : x = Head(s) \/ x \in Range(Tail(s))
<1>1. /\ Tail(s) \in Seq(Message) /\ Len(Tail(s)) = Len(s) - 1
      /\ Len(s) \in Nat /\ Len(s) > 0
      /\ DOMAIN s = 1 .. Len(s) /\ DOMAIN Tail(s) = 1 .. Len(s) - 1
      /\ \A k \in 1 .. Len(s) - 1 : Tail(s)[k] = s[k + 1]
      /\ Head(s) = s[1]
  OBVIOUS
<1>2. \A k \in DOMAIN Tail(s) : k + 1 \in DOMAIN s /\ Tail(s)[k] = s[k + 1]
  BY <1>1
<1>3. None(s, R) => None(Tail(s), R)
  BY <1>2 DEF None
<1>4. Once(s, R) => Once(Tail(s), R)
  BY <1>1, <1>2 DEF Once
<1>5. Once(s, R) /\ Head(s).op \in R => None(Tail(s), R)
  <2> SUFFICES ASSUME Once(s, R), Head(s).op \in R, NEW k \in DOMAIN Tail(s), Tail(s)[k].op \in R
               PROVE  FALSE
    BY DEF None
  <2>1. k + 1 \in DOMAIN s /\ 1 \in DOMAIN s /\ s[k + 1].op \in R /\ s[1].op \in R
    BY <1>1, <1>2
  <2>2. k + 1 = 1
    BY <2>1 DEF Once
  <2> QED BY <2>2, <1>1
<1>6. \A x \in Range(Tail(s)) : x \in Range(s)
  BY <1>2 DEF Range
<1>7. \A x \in Range(s) : x = Head(s) \/ x \in Range(Tail(s))
  <2> SUFFICES ASSUME NEW k \in DOMAIN s, k # 1
               PROVE  s[k] \in Range(Tail(s))
    BY <1>1 DEF Range
  <2>1. k - 1 \in DOMAIN Tail(s) /\ Tail(s)[k - 1] = s[k]
    BY <1>1
  <2> QED BY <2>1 DEF Range
<1> QED BY <1>3, <1>4, <1>5, <1>6, <1>7

LEMMA JoinNone ==
    ASSUME NEW s \in Seq(Message), NEW t \in Seq(Message), NEW R
    PROVE  /\ s \o t \in Seq(Message)
           /\ None(s, R) /\ None(t, R) => None(s \o t, R)
           /\ None(s, R) /\ Once(t, R) => Once(s \o t, R)
           /\ Once(s, R) /\ None(t, R) => Once(s \o t, R)
           /\ \A x : x \in Range(s \o t) <=> x \in Range(s) \/ x \in Range(t)
<1>1. /\ s \o t \in Seq(Message) /\ Len(s) \in Nat /\ Len(t) \in Nat
      /\ DOMAIN s = 1 .. Len(s) /\ DOMAIN t = 1 .. Len(t)
      /\ DOMAIN (s \o t) = 1 .. Len(s) + Len(t)
      /\ \A k \in 1 .. Len(s) : (s \o t)[k] = s[k]
      /\ \A k \in Len(s) + 1 .. Len(s) + Len(t) : (s \o t)[k] = t[k - Len(s)]
  OBVIOUS
<1> DEFINE u == s \o t
<1>2. \A k \in DOMAIN u : \/ k \in DOMAIN s /\ u[k] = s[k]
                          \/ k - Len(s) \in DOMAIN t /\ u[k] = t[k - Len(s)]
  BY <1>1
<1>3. \A k \in DOMAIN u : k \in Int
  BY <1>1
<1>4. \A k \in DOMAIN s : k \in DOMAIN u /\ u[k] = s[k]
  BY <1>1
<1>5. \A k \in DOMAIN t : k + Len(s) \in DOMAIN u /\ u[k + Len(s)] = t[k]
  BY <1>1
<1>6. u \in Seq(Message) /\ Len(s) \in Int
  BY <1>1
<1> HIDE DEF u
<1>7. None(s, R) /\ None(t, R) => None(u, R)
  BY <1>2 DEF None
<1>8. None(s, R) /\ Once(t, R) => Once(u, R)
  BY <1>2, <1>3, <1>6 DEF None, Once
<1>9. Once(s, R) /\ None(t, R) => Once(u, R)
  BY <1>2, <1>3, <1>6 DEF None, Once
<1>10. \A x : x \in Range(u) <=> x \in Range(s) \/ x \in Range(t)
  BY <1>2, <1>4, <1>5 DEF Range
<1> QED BY <1>6, <1>7, <1>8, <1>9, <1>10 DEF u

LEMMA AppendNone ==
    ASSUME NEW s \in Seq(Message), NEW x \in Message, NEW R
    PROVE  /\ Append(s, x) \in Seq(Message)
           /\ None(s, R) /\ x.op \notin R => None(Append(s, x), R)
           /\ None(s, R) => Once(Append(s, x), R)
           /\ Once(s, R) /\ x.op \notin R => Once(Append(s, x), R)
           /\ \A y : y \in Range(Append(s, x)) <=> y \in Range(s) \/ y = x
<1>1. Append(s, x) = s \o <<x>> /\ <<x>> \in Seq(Message)
  OBVIOUS
<1>2. Once(<<x>>, R) /\ (x.op \notin R => None(<<x>>, R)) /\ Range(<<x>>) = {x}
  BY DEF Once, None, Range
<1> QED BY <1>1, <1>2, JoinNone

-----------------------------------------------------------------------------
(***************************************************************************)
(* The requests of a client.                                               *)
(***************************************************************************)
LEMMA RequestStages ==
    \A r \in Requests :
       /\ r # "" /\ after(r) \in Stages \ {"new", "dead"}
       /\ after(r) \in {"closed", "gone"} => r \in {"CLOSE", "DISCONNECT"}
       /\ "new" \in before(r) => r = "XCONNECT"
       /\ r = "XCONNECT" => before(r) = {"new"}
       /\ r = "CREATE_IC" => before(r) = {"open"}
       /\ r = "DISCONNECT" => before(r) = {"closed"}
BY DEF Requests, Questions, Stages, before, after

\* What the server may answer to a message: at most one reply, to the request.
Answering(op, msgs) ==
    /\ msgs \in Seq(Message) /\ Once(msgs, {"REPLY"})
    /\ \A k \in DOMAIN msgs :
          msgs[k].op = "REPLY" => msgs[k].to = op /\ op \in Requests

Sent(a, msgs) ==
    toClient' = IF Dead(a) THEN toClient ELSE [toClient EXCEPT ![a] = @ \o msgs]

LEMMA Silent == ASSUME NEW op PROVE Answering(op, <<>>)
BY DEF Answering, Once

LEMMA OneAnswers ==
    ASSUME NEW op, NEW x \in Message, x.op = "REPLY" => x.to = op /\ op \in Requests
    PROVE  Answering(op, <<x>>)
BY DEF Answering, Once

LEMMA ReplyAnswers == ASSUME NEW op \in Requests PROVE Answering(op, <<Reply(op)>>)
<1>1. Reply(op) \in Message /\ Reply(op).to = op
  BY DEF Reply, Message, Kinds
<1> QED BY <1>1, OneAnswers

LEMMA NoticeAnswers ==
    ASSUME NEW op, NEW y \in Kinds, y # "REPLY"
    PROVE  Answering(op, <<m(y)>>)
<1>1. m(y) \in Message /\ m(y).op # "REPLY"
  BY DEF m, Message
<1> QED BY <1>1, OneAnswers

LEMMA AnswerSends ==
    ASSUME NEW a, NEW msgs, Answer(a, msgs)
    PROVE  Sent(a, msgs) /\ server' \in {server, "error"}
BY DEF Answer, Xi18nXSend, Sent

-----------------------------------------------------------------------------
(***************************************************************************)
(* What the server does with one message of client a, or one of its keys   *)
(* that waited: the facts every invariant below is kept by.                *)
(***************************************************************************)
Record == [win : App, byte_order : {"?", "l"}, sync : BOOLEAN, pending : Seq(Nat)]
IcType == [App -> [connect_id : 0 .. last_id, connect : BOOLEAN]]

SameRecords == /\ DOMAIN clients' = DOMAIN clients /\ free_clients' = free_clients
               /\ \A i \in DOMAIN clients : clients'[i].win = clients[i].win

KeepsIcs == \A b \in App : \/ ics'[b] = NoIC
                           \/ ics[b] # NoIC /\ ics'[b].connect_id = ics[b].connect_id

\* An answer is owed for an old reason, or because a key was just given back.
Owing(a) == \A i \in DOMAIN clients' :
               clients'[i].sync =>
                  \/ /\ i \in DOMAIN clients /\ clients[i].sync
                     /\ clients'[i].win = clients[i].win
                  \/ /\ clients'[i].win = a
                     /\ Dead(a) \/ m("FORWARD_EVENT") \in Range(toClient'[a])

Handled(a, op) ==
    /\ WireTypeOK' /\ last_id' \in Nat
    /\ \E msgs : Answering(op, msgs) /\ Sent(a, msgs)
    /\ server' = "up" => server = "up"
    /\ NoKeyStranded => NoKeyStranded'
    /\ op \notin {"XCONNECT", "DISCONNECT"} => SameRecords
    /\ op # "CREATE_IC" => KeepsIcs
    /\ Owing(a)

LEMMA AnswerServer ==
    ASSUME Typed, NEW a, NEW msgs, Answer(a, msgs)
    PROVE  /\ server' \in {"up", "exiting", "exitall", "error"}
           /\ server' = "up" => server = "up"
BY DEF Typed, WireTypeOK, Answer, Xi18nXSend

\* The records stay, and only the ICs may change.
LEMMA IcHandled ==
    ASSUME Typed, NEW a \in App, NEW op, NEW msgs, Answering(op, msgs), Answer(a, msgs),
           UNCHANGED <<core, handled>>, ics' \in IcType, op # "CREATE_IC" => KeepsIcs
    PROVE  Handled(a, op)
<1> USE DEF core, Typed
<1>1. WireTypeOK' /\ last_id' \in Nat
  BY AnswerServer DEF WireTypeOK, IcType
<1>2. \E ms : Answering(op, ms) /\ Sent(a, ms)
  BY AnswerSends
<1>3. NoKeyStranded => NoKeyStranded'
  BY DEF NoKeyStranded
<1>4. SameRecords /\ Owing(a)
  BY DEF SameRecords, Owing
<1> QED BY <1>1, <1>2, <1>3, <1>4, AnswerServer DEF Handled

LEMMA IcsKept ==
    ASSUME UNCHANGED ics
    PROVE  KeepsIcs
BY DEF KeepsIcs

\* Neither the records nor the ICs change.
LEMMA QuietHandled ==
    ASSUME Typed, NEW a \in App, NEW op, NEW msgs, Answering(op, msgs), Answer(a, msgs),
           UNCHANGED <<core, ics, handled>>
    PROVE  Handled(a, op)
<1>1. ics' \in IcType
  BY DEF Typed, WireTypeOK, IcType
<1> QED BY <1>1, IcHandled, IcsKept

\* One record changes, but neither its window nor the rule of its queue.
LEMMA RecordHandled ==
    ASSUME Typed, NEW a \in App, NEW op, NEW msgs, Answering(op, msgs), Sent(a, msgs),
           server' \in {"up", "exiting", "exitall", "error"}, server' = "up" => server = "up",
           NEW i \in DOMAIN clients, NEW c \in Record, clients[i].win = a, c.win = a,
           clients' = [clients EXCEPT ![i] = c],
           UNCHANGED <<free_clients, last_id>>,
           processing' \in DOMAIN clients \cup {0}, processing # 0 => processing' = processing,
           ims_sync' \in BOOLEAN, handled' \in [App -> Nat],
           ics' \in IcType, KeepsIcs,
           c.sync \/ c.pending = <<>> \/ processing' = i
              \/ (~clients[i].sync /\ clients[i].pending = c.pending),
           c.sync => \/ clients[i].sync
                     \/ Dead(a) \/ m("FORWARD_EVENT") \in Range(toClient'[a])
    PROVE  Handled(a, op)
<1> USE DEF Typed
<1>1. DOMAIN clients' = DOMAIN clients
  OBVIOUS
<1>2. \A j \in DOMAIN clients : clients'[j] = IF j = i THEN c ELSE clients[j]
  OBVIOUS
<1>3. WireTypeOK' /\ last_id' \in Nat
  BY <1>1, <1>2 DEF WireTypeOK, IcType, Record
<1>4. SameRecords
  BY <1>1, <1>2 DEF SameRecords
<1>5. NoKeyStranded => NoKeyStranded'
  <2> SUFFICES ASSUME NoKeyStranded, NEW j \in DOMAIN clients,
                      ~clients'[j].sync, processing' # j
               PROVE  clients'[j].pending = <<>>
    BY <1>1 DEF NoKeyStranded
  <2>1. j # 0
    BY DEF WireTypeOK
  <2>2. processing # j
    BY <2>1
  <2>3. CASE j = i
    BY <2>2, <2>3, <1>2 DEF NoKeyStranded
  <2>4. CASE j # i
    BY <2>2, <2>4, <1>2 DEF NoKeyStranded
  <2> QED BY <2>3, <2>4
<1>6. Owing(a)
  BY <1>1, <1>2 DEF Owing
<1> QED BY <1>3, <1>4, <1>5, <1>6 DEF Handled

-----------------------------------------------------------------------------
(***************************************************************************)
(* The procedures of the messages, one by one.                             *)
(***************************************************************************)
LEMMA IdOf ==
    ASSUME NEW a, Connected(a)
    PROVE  id(a) \in DOMAIN clients /\ clients[id(a)].win = a
BY DEF Connected, id

LEMMA PlainAnswers ==
    ASSUME NEW op, NEW s \in Seq(Message), None(s, {"REPLY"})
    PROVE  Answering(op, s)
BY DEF Answering, Once, None

LEMMA PlainMessages ==
    /\ \A on \in BOOLEAN : SET_EVENT_MASK(on) \in Message /\ SET_EVENT_MASK(on).op # "REPLY"
    /\ \A ic : xim_disconnect(ic).msgs \in Seq(Message) /\ None(xim_disconnect(ic).msgs, {"REPLY"})
    /\ \A ic : xim_connect(ic).msgs \in Seq(Message) /\ None(xim_connect(ic).msgs, {"REPLY"})
    /\ xi18n_forwardEvent \in Seq(Message) /\ None(xi18n_forwardEvent, {"REPLY"})
    /\ m("FORWARD_EVENT") \in Range(xi18n_forwardEvent)
    /\ \A s \in xi18n_commit : s \in Seq(Message) /\ None(s, {"REPLY"})
    /\ xi18n_syncXlib \in Seq(Message) /\ None(xi18n_syncXlib, {"REPLY"})
<1>1. \A y \in Kinds \ {"REPLY"} : m(y) \in Message /\ m(y).op = y
  BY DEF m, Message
<1>2. /\ \A on \in BOOLEAN : SET_EVENT_MASK(on) \in Message /\ SET_EVENT_MASK(on).op # "REPLY"
      /\ m("FORWARD_EVENT") \in Message /\ m("FORWARD_EVENT").op # "REPLY"
      /\ m("COMMIT") \in Message /\ m("COMMIT").op # "REPLY"
      /\ m("SYNC") \in Message /\ m("SYNC").op # "REPLY"
  BY <1>1 DEF SET_EVENT_MASK, Kinds
<1>3. \A x \in Message : x.op # "REPLY" =>
         <<x>> \in Seq(Message) /\ None(<<x>>, {"REPLY"}) /\ x \in Range(<<x>>)
  BY DEF None, Range
<1>4. <<>> \in Seq(Message) /\ None(<<>>, {"REPLY"})
  BY DEF None
<1>5. \A ic : xim_disconnect(ic).msgs \in Seq(Message) /\ None(xim_disconnect(ic).msgs, {"REPLY"})
  BY <1>2, <1>3, <1>4 DEF xim_disconnect
<1>6. \A ic : xim_connect(ic).msgs \in Seq(Message) /\ None(xim_connect(ic).msgs, {"REPLY"})
  BY <1>2, <1>3, <1>4 DEF xim_connect
<1>7. \A s \in xi18n_commit : s \in Seq(Message) /\ None(s, {"REPLY"})
  BY <1>2, <1>3, <1>4 DEF xi18n_commit
<1> QED BY <1>2, <1>3, <1>5, <1>6, <1>7 DEF xi18n_forwardEvent, xi18n_syncXlib

LEMMA OpenHandled ==
    ASSUME Typed, NEW a \in App, OpenMessageProc(a)
    PROVE  Handled(a, "OPEN")
<1>1. m("REGISTER_TRIGGERKEYS") \in Message /\ m("REGISTER_TRIGGERKEYS").op # "REPLY"
  BY DEF m, Message, Kinds
<1>2. /\ Reply("OPEN") \in Message /\ Reply("OPEN").to = "OPEN" /\ "OPEN" \in Requests
  BY DEF Reply, Message, Kinds, Requests
<1>3. Answering("OPEN", <<m("REGISTER_TRIGGERKEYS"), Reply("OPEN")>>)
  BY <1>1, <1>2 DEF Answering, Once
<1> QED BY <1>3, QuietHandled DEF OpenMessageProc

LEMMA AnsweredHandled ==
    ASSUME Typed, NEW a \in App, NEW op \in Requests, Answered(a, op)
    PROVE  Handled(a, op)
BY ReplyAnswers, QuietHandled DEF Answered

LEMMA UnheededHandled ==
    ASSUME Typed, NEW a \in App, NEW op, NEW msgs \in {<<>>, <<m("ERROR")>>}, Unheeded(a, msgs)
    PROVE  Handled(a, op)
<1>1. Answering(op, msgs)
  BY Silent, NoticeAnswers DEF Kinds
<1> QED BY <1>1, QuietHandled DEF Unheeded

LEMMA AnswerIfAnswers ==
    ASSUME NEW a, NEW ok, NEW op \in Requests, AnswerIf(a, ok, op)
    PROVE  \E msgs : Answering(op, msgs) /\ Answer(a, msgs)
BY Silent, ReplyAnswers DEF AnswerIf

LEMMA ValuesHandled ==
    ASSUME Typed, NEW a \in App
    PROVE  /\ SetICValuesMessageProc(a) => Handled(a, "SET_IC_VALUES")
           /\ GetICValuesMessageProc(a) => Handled(a, "GET_IC_VALUES")
           /\ UnsetICFocusMessageProc(a) => Handled(a, "UNSET_IC_FOCUS")
<1>1. "SET_IC_VALUES" \in Requests /\ "GET_IC_VALUES" \in Requests
  BY DEF Requests
<1>2. SetICValuesMessageProc(a) => Handled(a, "SET_IC_VALUES")
  BY <1>1, AnswerIfAnswers, QuietHandled DEF SetICValuesMessageProc
<1>3. GetICValuesMessageProc(a) => Handled(a, "GET_IC_VALUES")
  BY <1>1, AnswerIfAnswers, QuietHandled DEF GetICValuesMessageProc
<1>4. UnsetICFocusMessageProc(a) => Handled(a, "UNSET_IC_FOCUS")
  BY Silent, QuietHandled DEF UnsetICFocusMessageProc
<1> QED BY <1>2, <1>3, <1>4

LEMMA NoIcType ==
    ASSUME Typed
    PROVE  /\ NoIC \in [connect_id : 0 .. last_id, connect : BOOLEAN]
           /\ NoIC.connect_id = 0
BY DEF NoIC, Typed

LEMMA DestroyHandled ==
    ASSUME Typed, NEW a \in App, DestroyICMessageProc(a)
    PROVE  Handled(a, "DESTROY_IC")
<1>1. ics' \in IcType /\ KeepsIcs
  BY NoIcType DEF Typed, WireTypeOK, IcType, DestroyICMessageProc, KeepsIcs
<1>2. "DESTROY_IC" \in Requests
  BY DEF Requests
<1> QED BY <1>1, <1>2, AnswerIfAnswers, IcHandled DEF DestroyICMessageProc

LEMMA CloseHandled ==
    ASSUME Typed, NEW a \in App, CloseMessageProc(a)
    PROVE  Handled(a, "CLOSE")
<1>1. ics' \in IcType /\ KeepsIcs
  BY NoIcType DEF Typed, WireTypeOK, IcType, CloseMessageProc, ic_clean_all, KeepsIcs
<1>2. "CLOSE" \in Requests
  BY DEF Requests
<1> QED BY <1>1, <1>2, ReplyAnswers, IcHandled DEF CloseMessageProc

LEMMA CreateHandled ==
    ASSUME Typed, NEW a \in App, Connected(a), CreateICMessageProc(a)
    PROVE  Handled(a, "CREATE_IC")
<1>1. id(a) \in 0 .. last_id
  BY IdOf DEF Typed, WireTypeOK
<1>2. ics' \in IcType
  BY <1>1 DEF Typed, WireTypeOK, IcType, CreateICMessageProc
<1>3. "CREATE_IC" \in Requests
  BY DEF Requests
<1> QED BY <1>2, <1>3, ReplyAnswers, IcHandled DEF CreateICMessageProc

\* The connections of the ICs.
LEMMA Connections ==
    ASSUME Typed, NEW a \in App, found(ics[a]), NEW ic,
           ic \in {ics[a], xim_connect(ics[a]).ic, xim_disconnect(ics[a]).ic},
           ics' = [ics EXCEPT ![a] = ic]
    PROVE  ics' \in IcType /\ KeepsIcs
<1> DEFINE T == [connect_id : 0 .. last_id, connect : BOOLEAN]
<1>a. ics[a] \in T
  BY DEF Typed, WireTypeOK
<1>b. /\ xim_connect(ics[a]).ic = [ics[a] EXCEPT !.connect = TRUE]
      /\ xim_disconnect(ics[a]).ic = [ics[a] EXCEPT !.connect = FALSE]
  BY DEF xim_connect, xim_disconnect
<1>c. \A r \in T, on \in BOOLEAN : /\ [r EXCEPT !.connect = on] \in T
                                  /\ [r EXCEPT !.connect = on].connect_id = r.connect_id
  OBVIOUS
<1>1. ic.connect_id = ics[a].connect_id /\ ic \in T
  BY <1>a, <1>b, <1>c
<1>2. ics' \in IcType
  BY <1>1 DEF Typed, WireTypeOK, IcType
<1>3. KeepsIcs
  BY <1>1 DEF Typed, WireTypeOK, KeepsIcs, found
<1> QED BY <1>2, <1>3

\* Connected, then disconnected.
LEMMA TurnedPlain ==
    ASSUME NEW ic
    PROVE  turned_off(ic).msgs \in Seq(Message) /\ None(turned_off(ic).msgs, {"REPLY"})
<1> DEFINE on  == xim_connect(ic)
           off == xim_disconnect(on.ic)
<1>1. turned_off(ic).msgs = on.msgs \o off.msgs
  BY DEF turned_off
<1>2. /\ on.msgs \in Seq(Message) /\ None(on.msgs, {"REPLY"})
      /\ off.msgs \in Seq(Message) /\ None(off.msgs, {"REPLY"})
  BY PlainMessages
<1> HIDE DEF on, off
<1> QED BY <1>1, <1>2, JoinNone

LEMMA TurnedIc ==
    ASSUME Typed, NEW a \in App
    PROVE  turned_off(ics[a]).ic = xim_disconnect(ics[a]).ic
<1>1. ics[a] \in [connect_id : 0 .. last_id, connect : BOOLEAN]
  BY DEF Typed, WireTypeOK
<1> QED BY <1>1 DEF turned_off, xim_connect, xim_disconnect

LEMMA FocusHandled ==
    ASSUME Typed, NEW a \in App, SetICFocusMessageProc(a)
    PROVE  Handled(a, "SET_IC_FOCUS")
<1>1. PICK r \in {xim_connect(ics[a]), xim_disconnect(ics[a]), turned_off(ics[a]),
                  [ic |-> ics[a], msgs |-> <<>>]} :
         IF ~found(ics[a]) \/ server = "exiting"
         THEN Answer(a, <<>>) /\ UNCHANGED ics
         ELSE Answer(a, r.msgs) /\ ics' = [ics EXCEPT ![a] = r.ic]
  BY DEF SetICFocusMessageProc
<1>2. UNCHANGED <<core, handled>>
  BY DEF SetICFocusMessageProc
<1>3. CASE ~found(ics[a]) \/ server = "exiting"
  BY <1>1, <1>2, <1>3, Silent, QuietHandled
<1>4. CASE ~(~found(ics[a]) \/ server = "exiting")
  <2>1. /\ r.ic \in {ics[a], xim_connect(ics[a]).ic, xim_disconnect(ics[a]).ic}
        /\ r.msgs \in {<<>>, xim_connect(ics[a]).msgs, xim_disconnect(ics[a]).msgs,
                       turned_off(ics[a]).msgs}
    BY TurnedIc
  <2>2. ics' \in IcType /\ KeepsIcs
    BY <1>1, <1>4, <2>1, Connections
  <2>3. Answering("SET_IC_FOCUS", r.msgs)
    BY <2>1, Silent, PlainMessages, TurnedPlain, PlainAnswers
  <2> QED BY <1>1, <1>2, <1>4, <2>2, <2>3, IcHandled
<1> QED BY <1>3, <1>4

LEMMA TriggerAnswers ==
    ASSUME NEW s \in Seq(Message), None(s, {"REPLY"})
    PROVE  Answering("TRIGGER_NOTIFY", trigger_replies \o s)
<1> DEFINE t == trigger_replies
<1>1. Reply("TRIGGER_NOTIFY") \in Message /\ Reply("TRIGGER_NOTIFY").to = "TRIGGER_NOTIFY"
      /\ "TRIGGER_NOTIFY" \in Requests
  BY DEF Reply, Message, Kinds, Requests
<1>2. SET_EVENT_MASK(TRUE) \in Message /\ SET_EVENT_MASK(TRUE).op # "REPLY"
  BY PlainMessages
<1>0. \A x, y \in Message :
         y.op # "REPLY" /\ x.to = "TRIGGER_NOTIFY"
            => /\ <<x, y>> \in Seq(Message) /\ Once(<<x, y>>, {"REPLY"})
               /\ \A z \in Range(<<x, y>>) : z.op = "REPLY" => z.to = "TRIGGER_NOTIFY"
  BY DEF Once, Range
<1>3. t \in Seq(Message) /\ Once(t, {"REPLY"})
      /\ \A x \in Range(t) : x.op = "REPLY" => x.to = "TRIGGER_NOTIFY"
  BY <1>0, <1>1, <1>2 DEF trigger_replies
<1>4. \A x \in Range(s) : x.op # "REPLY"
  BY DEF None, Range
<1> HIDE DEF t
<1>5. Once(t \o s, {"REPLY"}) /\ t \o s \in Seq(Message)
  BY <1>3, JoinNone
<1>6. \A x \in Range(t \o s) : x.op = "REPLY" => x.to = "TRIGGER_NOTIFY"
  BY <1>3, <1>4, JoinNone
<1>7. \A k \in DOMAIN (t \o s) : (t \o s)[k] \in Range(t \o s)
  BY DEF Range
<1>8. Answering("TRIGGER_NOTIFY", t \o s)
  BY <1>1, <1>5, <1>6, <1>7 DEF Answering
<1> QED BY <1>8 DEF t

\* The outcome of a trigger, component by component.
LEMMA TriggerResult ==
    ASSUME NEW on, NEW fails \in BOOLEAN, NEW phrase,
           NEW r, r = IF fails THEN [xim_disconnect(on) EXCEPT !.msgs = phrase \o @]
                               ELSE [ic |-> on, msgs |-> <<>>]
    PROVE  /\ r.ic = IF fails THEN xim_disconnect(on).ic ELSE on
           /\ r.msgs = IF fails THEN phrase \o xim_disconnect(on).msgs ELSE <<>>
BY DEF xim_disconnect

LEMMA TriggerHandled ==
    ASSUME Typed, NEW a \in App, TriggerNotifyMessageProc(a)
    PROVE  Handled(a, "TRIGGER_NOTIFY")
<1> DEFINE on == [ics[a] EXCEPT !.connect = TRUE]
<1>1. PICK fails \in BOOLEAN, phrase \in xi18n_commit :
         LET r == IF fails THEN [xim_disconnect(on) EXCEPT !.msgs = phrase \o @]
                           ELSE [ic |-> on, msgs |-> <<>>]
         IN  IF ~found(ics[a]) \/ server = "exiting"
             THEN Answer(a, trigger_replies) /\ UNCHANGED ics
             ELSE Answer(a, trigger_replies \o r.msgs) /\ ics' = [ics EXCEPT ![a] = r.ic]
  BY DEF TriggerNotifyMessageProc
<1> DEFINE off  == xim_disconnect(on)
           msgs == IF fails THEN phrase \o off.msgs ELSE <<>>
           ic   == IF fails THEN off.ic ELSE on
<1>0. IF ~found(ics[a]) \/ server = "exiting"
      THEN Answer(a, trigger_replies) /\ UNCHANGED ics
      ELSE Answer(a, trigger_replies \o msgs) /\ ics' = [ics EXCEPT ![a] = ic]
  BY <1>1, TriggerResult
<1>2. UNCHANGED <<core, handled>>
  BY DEF TriggerNotifyMessageProc
<1>3. CASE ~found(ics[a]) \/ server = "exiting"
  <2>1. trigger_replies \o <<>> = trigger_replies
    BY DEF trigger_replies
  <2>2. Answering("TRIGGER_NOTIFY", trigger_replies)
    <3>1. <<>> \in Seq(Message) /\ None(<<>>, {"REPLY"})
      BY DEF None
    <3> QED BY <2>1, <3>1, TriggerAnswers
  <2> QED BY <1>0, <1>2, <1>3, <2>2, QuietHandled
<1>4. CASE ~(~found(ics[a]) \/ server = "exiting")
  <2>1. msgs \in Seq(Message) /\ None(msgs, {"REPLY"})
    <3>1. /\ phrase \in Seq(Message) /\ None(phrase, {"REPLY"})
          /\ off.msgs \in Seq(Message) /\ None(off.msgs, {"REPLY"})
          /\ <<>> \in Seq(Message) /\ None(<<>>, {"REPLY"})
      BY PlainMessages DEF None
    <3> HIDE DEF off
    <3> QED BY <3>1, JoinNone
  <2>2. ic \in {xim_connect(ics[a]).ic, xim_disconnect(ics[a]).ic}
    BY DEF xim_connect, xim_disconnect, Typed, WireTypeOK
  <2> HIDE DEF ic, msgs
  <2>3. ics' \in IcType /\ KeepsIcs
    BY <1>0, <1>4, <2>2, Connections
  <2> QED BY <1>0, <1>2, <1>4, <2>1, <2>3, TriggerAnswers, IcHandled
<1> QED BY <1>3, <1>4

\* The keys: handled at once, from the queue, or put into it.
LEMMA KeyHandled ==
    ASSUME Typed, NEW a \in App, NEW i \in DOMAIN clients, NEW c \in Record, NEW key \in Nat,
           c.win = a, clients[i].win = a, ~c.sync,
           c.pending = <<>> \/ processing = i
              \/ (~clients[i].sync /\ clients[i].pending = c.pending),
           ForwardEventMessageProc(i, c, key), UNCHANGED processing
    PROVE  Handled(a, "FORWARD_EVENT")
<1> DEFINE off == xim_disconnect(ics[a])
           add(end) == CASE end = "kept" -> <<>>
                         [] end = "off"  -> off.msgs
                         [] end = "back" -> xi18n_forwardEvent
<1>1. processing \in DOMAIN clients \cup {0} /\ ics \in IcType
  BY DEF Record, Typed, WireTypeOK, IcType
<1>2. PICK text \in xi18n_commit, end \in {"kept", "off", "back"} :
         IF ~found(ics[a]) \/ server = "exiting"
         THEN Answer(a, <<>>) /\ UNCHANGED ics /\ clients' = [clients EXCEPT ![i] = c]
         ELSE /\ Answer(a, text \o add(end))
              /\ ics' = IF end = "off" THEN [ics EXCEPT ![a] = off.ic] ELSE ics
              /\ clients' = [clients EXCEPT ![i] = IF end = "back" THEN given_back(c) ELSE c]
  BY DEF ForwardEventMessageProc
<1>3. /\ handled' \in [App -> Nat] /\ UNCHANGED <<free_clients, last_id, ims_sync>>
      /\ ims_sync' \in BOOLEAN
  BY <1>1 DEF ForwardEventMessageProc, Typed, WireTypeOK
<1>4. CASE ~found(ics[a]) \/ server = "exiting"
  <2>1. Answer(a, <<>>) /\ UNCHANGED ics /\ clients' = [clients EXCEPT ![i] = c]
    BY <1>2, <1>4
  <2>2. KeepsIcs /\ ics' \in IcType /\ Sent(a, <<>>)
    BY <2>1, <1>1, IcsKept, AnswerSends DEF IcType
  <2>3. /\ server' \in {"up", "exiting", "exitall", "error"}
        /\ server' = "up" => server = "up"
    BY <2>1, AnswerServer
  <2>4. /\ c.sync \/ c.pending = <<>> \/ processing' = i
             \/ (~clients[i].sync /\ clients[i].pending = c.pending)
        /\ c.sync => \/ clients[i].sync
                     \/ Dead(a) \/ m("FORWARD_EVENT") \in Range(toClient'[a])
        /\ processing' \in DOMAIN clients \cup {0} /\ (processing # 0 => processing' = processing)
        /\ UNCHANGED <<free_clients, last_id>> /\ ims_sync' \in BOOLEAN
    BY <1>1, <1>3
  <2>5. Answering("FORWARD_EVENT", <<>>)
    BY Silent
  <2> QED BY ONLY Typed, c \in Record, a \in App, i \in DOMAIN clients, c.win = a,
                  clients[i].win = a, <1>3, <2>1, <2>2, <2>3, <2>4, <2>5, RecordHandled
<1>5. CASE ~(~found(ics[a]) \/ server = "exiting")
  <2>1. text \in Seq(Message) /\ None(text, {"REPLY"})
    BY PlainMessages
  <2>2. add(end) \in Seq(Message) /\ None(add(end), {"REPLY"})
    BY PlainMessages DEF None
  <2> DEFINE msgs == text \o add(end)
             d == IF end = "back" THEN given_back(c) ELSE c
  <2>3. msgs \in Seq(Message) /\ Answering("FORWARD_EVENT", msgs)
    BY <2>1, <2>2, JoinNone, PlainAnswers
  <2>4. end = "back" => m("FORWARD_EVENT") \in Range(msgs)
    BY <2>1, <2>2, JoinNone, PlainMessages
  <2>5. Answer(a, msgs) /\ clients' = [clients EXCEPT ![i] = d]
    BY <1>2, <1>5
  <2>6. ics' \in IcType /\ KeepsIcs
    <3>1. CASE end = "off"
      BY <3>1, <1>1, <1>2, <1>5, Connections
    <3>2. CASE end # "off"
      BY <3>2, <1>1, <1>2, <1>5, IcsKept DEF IcType
    <3> QED BY <3>1, <3>2
  <2>7. d \in Record /\ d.win = a /\ d.pending = c.pending /\ d.sync = (end = "back")
    BY DEF Record, given_back
  <2> HIDE DEF msgs, d
  <2>8. Sent(a, msgs)
    BY <2>5, AnswerSends
  <2>9. /\ server' \in {"up", "exiting", "exitall", "error"}
        /\ server' = "up" => server = "up"
    BY <2>5, AnswerServer
  <2>10. end = "back" => Dead(a) \/ m("FORWARD_EVENT") \in Range(toClient'[a])
    <3> SUFFICES ASSUME end = "back", ~Dead(a) PROVE m("FORWARD_EVENT") \in Range(toClient'[a])
      OBVIOUS
    <3>1. toClient[a] \in Seq(Message) /\ toClient'[a] = toClient[a] \o msgs
      BY <1>1, <2>8 DEF Sent, Typed
    <3> QED BY <3>1, <2>3, <2>4, JoinNone
  <2> QED BY <1>1, <1>3, <2>3, <2>5, <2>6, <2>7, <2>8, <2>9, <2>10, RecordHandled
<1> QED BY <1>4, <1>5

LEMMA ForwardHandled ==
    ASSUME Typed, NEW a \in App, NEW key \in Nat, Connected(a), processing = 0, ForwardEvent(a, key)
    PROVE  Handled(a, "FORWARD_EVENT")
<1> DEFINE i == id(a)
           c == clients[i]
<1>1. i \in DOMAIN clients /\ clients[i].win = a /\ c \in Record
  BY IdOf DEF Typed, WireTypeOK, Record
<1>2. CASE c.sync
  <2> DEFINE d == AddQueue(c, key)
  <2>1. d \in Record /\ d.win = a /\ d.sync
    <3>1. Append(c.pending, key) \in Seq(Nat)
      BY <1>1 DEF Record
    <3>2. \A q \in Seq(Nat) : LET e == [c EXCEPT !.pending = q]
                              IN  e \in Record /\ e.win = c.win /\ e.sync = c.sync
      BY <1>1 DEF Record
    <3> QED BY <1>1, <1>2, <3>1, <3>2 DEF AddQueue
  <2>2. clients' = [clients EXCEPT ![i] = d] /\ Answer(a, <<>>)
        /\ UNCHANGED <<free_clients, last_id, processing, ims_sync, ics, handled>>
    BY <1>2 DEF ForwardEvent
  <2> HIDE DEF i, d
  <2>3. KeepsIcs /\ ics' \in IcType /\ Sent(a, <<>>) /\ Answering("FORWARD_EVENT", <<>>)
    BY <2>2, IcsKept, AnswerSends, Silent DEF IcType, Typed, WireTypeOK
  <2>4. /\ server' \in {"up", "exiting", "exitall", "error"}
        /\ server' = "up" => server = "up"
    BY <2>2, AnswerServer
  <2>5. /\ d.sync \/ d.pending = <<>> \/ processing' = i
             \/ (~clients[i].sync /\ clients[i].pending = d.pending)
        /\ d.sync => \/ clients[i].sync
                     \/ Dead(a) \/ m("FORWARD_EVENT") \in Range(toClient'[a])
    BY <1>1, <1>2, <2>1 DEF Record
  <2>6. /\ processing' \in DOMAIN clients \cup {0} /\ (processing # 0 => processing' = processing)
        /\ UNCHANGED <<free_clients, last_id>> /\ ims_sync' \in BOOLEAN
        /\ handled' \in [App -> Nat]
    BY <2>2 DEF Typed, WireTypeOK
  <2> QED BY ONLY Typed, a \in App, <1>1, <2>1, <2>2, <2>3, <2>4, <2>5, <2>6, RecordHandled
<1>3. CASE ~c.sync
  <2>1. ForwardEventMessageProc(i, c, key) /\ UNCHANGED processing
    BY <1>3 DEF ForwardEvent
  <2> HIDE DEF i
  <2> QED BY <1>1, <1>3, <2>1, KeyHandled
<1> QED BY <1>2, <1>3

LEMMA SyncHandled ==
    ASSUME Typed, NEW a \in App, Connected(a), processing = 0, SyncReplyMessageProc(a)
    PROVE  Handled(a, "SYNC_REPLY")
<1> DEFINE i == id(a)
           c == answered(clients[i])
<1>1. i \in DOMAIN clients /\ clients[i].win = a
  BY IdOf
<1>2. c \in Record /\ c.win = a /\ ~c.sync
  BY <1>1 DEF answered, Record, Typed, WireTypeOK
<1>3. /\ clients' = [clients EXCEPT ![i] = c] /\ processing' = i
      /\ UNCHANGED <<free_clients, last_id, ics, handled>> /\ ims_sync' = FALSE
  BY DEF SyncReplyMessageProc, drains
<1>4. Sent(a, <<>>) /\ Answering("SYNC_REPLY", <<>>)
  BY Silent DEF SyncReplyMessageProc, Xi18nXSend, Sent
<1>5. /\ server' \in {"up", "exiting", "exitall", "error"}
      /\ server' = "up" => server = "up"
  BY DEF SyncReplyMessageProc, Xi18nXSend, Typed, WireTypeOK
<1> HIDE DEF i, c
<1>6. KeepsIcs /\ ics' \in IcType /\ handled' \in [App -> Nat]
  BY <1>3, IcsKept DEF IcType, Typed, WireTypeOK
<1>7. /\ c.sync \/ c.pending = <<>> \/ processing' = i
           \/ (~clients[i].sync /\ clients[i].pending = c.pending)
      /\ c.sync => \/ clients[i].sync
                   \/ Dead(a) \/ m("FORWARD_EVENT") \in Range(toClient'[a])
      /\ processing' \in DOMAIN clients \cup {0} /\ (processing # 0 => processing' = processing)
      /\ UNCHANGED <<free_clients, last_id>> /\ ims_sync' \in BOOLEAN
  BY <1>1, <1>2, <1>3
<1> QED BY ONLY Typed, a \in App, <1>1, <1>2, <1>3, <1>4, <1>5, <1>6, <1>7, RecordHandled

LEMMA ConnectHandled ==
    ASSUME Typed, NEW a \in App, Connected(a), ConnectMessageProc(a)
    PROVE  Handled(a, "CONNECT")
<1> DEFINE i == id(a)
           c == [clients[i] EXCEPT !.byte_order = "l"]
<1>1. i \in DOMAIN clients /\ clients[i].win = a
  BY IdOf
<1>2. c \in Record /\ c.win = a /\ c.sync = clients[i].sync /\ c.pending = clients[i].pending
  BY <1>1 DEF Record, Typed, WireTypeOK
<1>3. /\ clients' = [clients EXCEPT ![i] = c] /\ Answer(a, <<Reply("CONNECT")>>)
      /\ UNCHANGED <<free_clients, last_id, processing, ims_sync, ics, handled>>
  BY DEF ConnectMessageProc
<1>4. Answering("CONNECT", <<Reply("CONNECT")>>)
  BY ReplyAnswers DEF Requests
<1> HIDE DEF i, c
<1>5. Sent(a, <<Reply("CONNECT")>>)
  BY <1>3, AnswerSends
<1>6. /\ server' \in {"up", "exiting", "exitall", "error"}
      /\ server' = "up" => server = "up"
  BY <1>3, AnswerServer
<1>7. KeepsIcs /\ ics' \in IcType /\ handled' \in [App -> Nat]
  BY <1>3, IcsKept DEF IcType, Typed, WireTypeOK
<1>8. /\ processing' \in DOMAIN clients \cup {0} /\ (processing # 0 => processing' = processing)
      /\ UNCHANGED <<free_clients, last_id>> /\ ims_sync' \in BOOLEAN
      /\ c.sync => \/ clients[i].sync
                   \/ Dead(a) \/ m("FORWARD_EVENT") \in Range(toClient'[a])
      /\ c.sync \/ c.pending = <<>> \/ processing' = i
             \/ (~clients[i].sync /\ clients[i].pending = c.pending)
  BY <1>2, <1>3 DEF Typed, WireTypeOK, Record
<1> QED BY ONLY Typed, a \in App, <1>1, <1>2, <1>3, <1>4, <1>5, <1>6, <1>7, <1>8, RecordHandled

LEMMA DisConnectHandled ==
    ASSUME Typed, NEW a \in App, Connected(a), processing = 0, DisConnectMessageProc(a)
    PROVE  Handled(a, "DISCONNECT")
<1> DEFINE i == id(a)
<1>1. i \in DOMAIN clients
  BY IdOf
<1>2. /\ clients' = [j \in DOMAIN clients \ {i} |-> clients[j]]
      /\ free_clients' = <<i>> \o free_clients
      /\ Answer(a, <<Reply("DISCONNECT")>>)
      /\ UNCHANGED <<last_id, processing, ims_sync, ics, handled>>
  BY DEF DisConnectMessageProc, _Xi18nDeleteClient
<1> HIDE DEF i
<1>3. free_clients' \in Seq(1 .. last_id)
  BY <1>1, <1>2 DEF Typed, WireTypeOK
<1>4. WireTypeOK' /\ last_id' \in Nat
  BY <1>2, <1>3, AnswerServer DEF Typed, WireTypeOK
<1>5. NoKeyStranded => NoKeyStranded'
  BY <1>2 DEF NoKeyStranded
<1>6. Owing(a)
  BY <1>2 DEF Owing
<1>7. Answering("DISCONNECT", <<Reply("DISCONNECT")>>)
  BY ReplyAnswers DEF Requests
<1> QED BY <1>2, <1>4, <1>5, <1>6, <1>7, AnswerSends, AnswerServer, IcsKept DEF Handled

\* The id a new record gets is one that is neither in use nor free.
LEMMA NewId ==
    ASSUME Typed
    PROVE  /\ new_id \in Nat \ {0}
           /\ free_clients # <<>> => new_id = Head(free_clients) /\ new_id \in 1 .. last_id
           /\ free_clients = <<>> => new_id = last_id + 1
BY DEF new_id, Typed, WireTypeOK

LEMMA XConnectHandled ==
    ASSUME Typed, NEW a \in App, processing = 0, ReadXConnectMessage(a)
    PROVE  Handled(a, "XCONNECT")
<1>1. /\ clients' = [i \in DOMAIN clients \cup {new_id} |->
                        IF i = new_id THEN NewClient(a) ELSE clients[i]]
      /\ last_id' = IF free_clients # <<>> THEN last_id ELSE last_id + 1
      /\ free_clients' = IF free_clients # <<>> THEN Tail(free_clients) ELSE <<>>
      /\ Answer(a, <<Reply("XCONNECT")>>)
      /\ UNCHANGED <<processing, ims_sync, ics, handled>>
  BY DEF ReadXConnectMessage, _Xi18nNewClient
<1>2. /\ NewClient(a) \in Record /\ ~NewClient(a).sync /\ NewClient(a).pending = <<>>
  BY DEF NewClient, Record
<1>3. /\ last_id' \in Nat /\ 1 .. last_id \subseteq 1 .. last_id' /\ 0 .. last_id \subseteq 0 .. last_id'
      /\ new_id \in 1 .. last_id'
  BY <1>1, NewId DEF Typed
<1>4. free_clients' \in Seq(1 .. last_id)
  <2>1. free_clients \in Seq(1 .. last_id)
    BY DEF Typed, WireTypeOK
  <2>2. CASE free_clients = <<>>
    BY <1>1, <2>2
  <2>3. CASE free_clients # <<>>
    BY <1>1, <2>1, <2>3
  <2> QED BY <2>2, <2>3
<1>5. DOMAIN clients' \subseteq 1 .. last_id' /\ free_clients' \in Seq(1 .. last_id')
  BY <1>1, <1>3, <1>4 DEF Typed, WireTypeOK
<1>6. \A i \in DOMAIN clients' : clients'[i] \in Record
  BY <1>1, <1>2 DEF Typed, WireTypeOK, Record
<1>7. ics' \in IcType'
  BY <1>1, <1>3 DEF Typed, WireTypeOK, IcType
<1>8. WireTypeOK'
  BY <1>1, <1>5, <1>6, <1>7, AnswerServer DEF Typed, WireTypeOK, Record, IcType
<1>9. NoKeyStranded => NoKeyStranded'
  BY <1>1, <1>2 DEF NoKeyStranded
<1>10. Owing(a)
  <2> SUFFICES ASSUME NEW i \in DOMAIN clients', clients'[i].sync
               PROVE  i \in DOMAIN clients /\ clients'[i] = clients[i]
    BY DEF Owing
  <2> QED BY <1>1, <1>2
<1>11. Answering("XCONNECT", <<Reply("XCONNECT")>>)
  BY ReplyAnswers DEF Requests
<1> QED BY <1>1, <1>3, <1>8, <1>9, <1>10, <1>11, AnswerSends, AnswerServer, IcsKept DEF Handled

LEMMA MessageHandled ==
    ASSUME Typed, NEW a \in App, NEW msg \in Message, processing = 0, Connected(a),
           _Xi18nMessageHandler(a, msg)
    PROVE  Handled(a, msg.op)
<1> DEFINE op == msg.op
<1>1. CASE op = "CONNECT" /\ ConnectMessageProc(a)
  BY <1>1, ConnectHandled
<1>2. CASE op = "DISCONNECT" /\ DisConnectMessageProc(a)
  BY <1>2, DisConnectHandled
<1>3. CASE op = "OPEN" /\ OpenMessageProc(a)
  BY <1>3, OpenHandled
<1>4. CASE op = "CLOSE" /\ CloseMessageProc(a)
  BY <1>4, CloseHandled
<1>5. CASE op = "CREATE_IC" /\ CreateICMessageProc(a)
  BY <1>5, CreateHandled
<1>6. CASE \/ op = "SET_IC_VALUES" /\ SetICValuesMessageProc(a)
           \/ op = "GET_IC_VALUES" /\ GetICValuesMessageProc(a)
           \/ op = "UNSET_IC_FOCUS" /\ UnsetICFocusMessageProc(a)
  BY <1>6, ValuesHandled
<1>7. CASE op = "DESTROY_IC" /\ DestroyICMessageProc(a)
  BY <1>7, DestroyHandled
<1>8. CASE op = "SET_IC_FOCUS" /\ SetICFocusMessageProc(a)
  BY <1>8, FocusHandled
<1>9. CASE op = "TRIGGER_NOTIFY" /\ TriggerNotifyMessageProc(a)
  BY <1>9, TriggerHandled
<1>10. CASE op = "FORWARD_EVENT" /\ ForwardEvent(a, msg.n)
  <2>1. msg.n \in Nat
    BY DEF Message
  <2> QED BY <1>10, <2>1, ForwardHandled
<1>11. CASE op = "SYNC_REPLY" /\ SyncReplyMessageProc(a)
  BY <1>11, SyncHandled
<1>12. CASE \/ op = "QUERY_EXTENSION" /\ QueryExtensionMessageProc(a)
            \/ op = "GET_IM_VALUES" /\ GetIMValuesMessageProc(a)
            \/ op = "RESET_IC" /\ ResetICMessageProc(a)
            \/ op = "ENCODING_NEGOTIATION" /\ EncodingNegotiatonMessageProc(a)
  <2>1. op \in Requests /\ Answered(a, op)
    BY <1>12 DEF Requests, QueryExtensionMessageProc, GetIMValuesMessageProc,
                 ResetICMessageProc, EncodingNegotiatonMessageProc
  <2> QED BY <2>1, AnsweredHandled
<1>13. CASE \/ ExtForwardKeyEventMessageProc(a) \/ ExtMoveMessageProc(a)
            \/ PreeditStartReplyMessageProc(a) \/ PreeditCaretReplyMessageProc(a)
  <2>1. \E msgs \in {<<>>, <<m("ERROR")>>} : Unheeded(a, msgs)
    BY <1>13 DEF ExtForwardKeyEventMessageProc, ExtMoveMessageProc,
                 PreeditStartReplyMessageProc, PreeditCaretReplyMessageProc
  <2> QED BY <2>1, UnheededHandled
<1> QED BY <1>1, <1>2, <1>3, <1>4, <1>5, <1>6, <1>7, <1>8, <1>9, <1>10, <1>11, <1>12, <1>13
           DEF _Xi18nMessageHandler

-----------------------------------------------------------------------------
(***************************************************************************)
(* The steps of the server, and those of the clients.                      *)
(***************************************************************************)
LEMMA ReceiveStep ==
    ASSUME Typed, NEW a \in App, Receive(a)
    PROVE  LET op == Head(toServer[a]).op IN
           /\ toServer[a] \in Seq(Message) /\ toServer[a] # <<>> /\ op \in Kinds
           /\ Handled(a, op) /\ processing = 0
           /\ toServer' = [toServer EXCEPT ![a] = Tail(@)] /\ UNCHANGED lib
           /\ op = "XCONNECT" => ReadXConnectMessage(a)
           /\ op # "XCONNECT" => Connected(a)
           /\ op = "DISCONNECT" => DisConnectMessageProc(a)
           /\ op = "CREATE_IC" => CreateICMessageProc(a)
           /\ op = "CLOSE" => CloseMessageProc(a)
           /\ op = "SYNC_REPLY" => SyncReplyMessageProc(a)
<1> DEFINE msg == Head(toServer[a])
<1>1. /\ toServer[a] \in Seq(Message) /\ toServer[a] # <<>> /\ processing = 0
      /\ toServer' = [toServer EXCEPT ![a] = Tail(@)] /\ UNCHANGED lib
  BY DEF Receive, Taken, Typed
<1>2. msg \in Message /\ msg.op \in Kinds
  <2>1. msg \in Message
    BY <1>1
  <2> HIDE DEF msg
  <2> QED BY <2>1 DEF Message
<1>3. \/ msg.op = "XCONNECT" /\ ReadXConnectMessage(a)
      \/ Connected(a) /\ _Xi18nMessageHandler(a, msg)
  BY DEF Receive
<1> HIDE DEF msg
<1>4. CASE msg.op = "XCONNECT" /\ ReadXConnectMessage(a)
  BY <1>1, <1>2, <1>4, XConnectHandled DEF msg
<1>5. CASE Connected(a) /\ _Xi18nMessageHandler(a, msg)
  <2>1. Handled(a, msg.op)
    BY <1>1, <1>2, <1>5, MessageHandled
  <2>2. /\ msg.op # "XCONNECT"
        /\ msg.op = "DISCONNECT" => DisConnectMessageProc(a)
        /\ msg.op = "CREATE_IC" => CreateICMessageProc(a)
        /\ msg.op = "CLOSE" => CloseMessageProc(a)
        /\ msg.op = "SYNC_REPLY" => SyncReplyMessageProc(a)
    BY <1>5 DEF _Xi18nMessageHandler
  <2> QED BY <1>1, <1>2, <1>5, <2>1, <2>2 DEF msg
<1> QED BY <1>3, <1>4, <1>5

LEMMA QueueStep ==
    ASSUME Typed, ProcessQueue
    PROVE  /\ UNCHANGED <<toServer, lib>>
           /\ \/ \E a \in App : Handled(a, "FORWARD_EVENT")
              \/ /\ processing' = 0 /\ processing \in DOMAIN clients
                 /\ clients[processing].sync \/ clients[processing].pending = <<>>
                 /\ UNCHANGED <<clients, free_clients, last_id, ims_sync, ics, handled,
                                server, toClient>>
<1> DEFINE i == processing
           c == [clients[i] EXCEPT !.pending = Tail(@)]
<1>1. i \in DOMAIN clients /\ clients[i] \in Record /\ clients[i].win \in App
  BY DEF ProcessQueue, Typed, WireTypeOK, Record
<1>2. CASE ~clients[i].sync /\ clients[i].pending # <<>>
  <2>1. ForwardEventMessageProc(i, c, Head(clients[i].pending)) /\ UNCHANGED processing
    BY <1>2 DEF ProcessQueue
  <2>2. Head(clients[i].pending) \in Nat /\ Tail(clients[i].pending) \in Seq(Nat)
    BY <1>1, <1>2 DEF Record
  <2>3. \A q \in Seq(Nat) : LET e == [clients[i] EXCEPT !.pending = q]
                            IN  e \in Record /\ e.win = clients[i].win /\ e.sync = clients[i].sync
    BY <1>1 DEF Record
  <2>4. c \in Record /\ c.win = clients[i].win /\ ~c.sync
    BY <1>2, <2>2, <2>3
  <2> HIDE DEF c
  <2>5. Handled(clients[i].win, "FORWARD_EVENT")
    BY <1>1, <2>1, <2>2, <2>4, KeyHandled
  <2> QED BY <1>1, <2>5 DEF ProcessQueue
<1>3. CASE ~(~clients[i].sync /\ clients[i].pending # <<>>)
  BY <1>1, <1>3 DEF ProcessQueue
<1> QED BY <1>2, <1>3

LEMMA CloseStep ==
    ASSUME Typed, XimClose
    PROVE  /\ UNCHANGED <<toServer, lib>> /\ server' # "up"
           /\ \/ \E a \in App : Handled(a, "EXIT")
              \/ UNCHANGED <<core, ics, handled, toClient>> /\ server' = "exitall"
<1>1. CASE server' = "exitall" /\ UNCHANGED <<ims_sync, ics, toClient>>
  BY <1>1 DEF XimClose, core
<1>2. ASSUME NEW a \in App, ics[a] # NoIC, ims_sync' = TRUE,
             ics' = [ics EXCEPT ![a] = xim_disconnect(@).ic],
             Xi18nXSend(a, xim_disconnect(ics[a]).msgs \o xi18n_syncXlib, "exiting")
      PROVE  UNCHANGED <<toServer, lib>> /\ server' # "up" /\ Handled(a, "EXIT")
  <2> DEFINE msgs == xim_disconnect(ics[a]).msgs \o xi18n_syncXlib
  <2>1. UNCHANGED <<clients, free_clients, last_id, processing, toServer, lib, handled>>
    BY DEF XimClose
  <2>2. msgs \in Seq(Message) /\ Answering("EXIT", msgs)
    BY PlainMessages, JoinNone, PlainAnswers
  <2> HIDE DEF msgs
  <2>3. Sent(a, msgs) /\ server' \in {"exiting", "error"}
    BY <1>2 DEF Xi18nXSend, Sent, msgs
  <2>4. ics' \in IcType /\ KeepsIcs
    <3>1. ics' = [ics EXCEPT ![a] = xim_disconnect(ics[a]).ic] /\ found(ics[a])
      BY <1>2 DEF found
    <3> QED BY <3>1, Connections
  <2>5. WireTypeOK' /\ last_id' \in Nat
    BY <1>2, <2>1, <2>3, <2>4 DEF Typed, WireTypeOK, IcType
  <2>6. (NoKeyStranded => NoKeyStranded') /\ SameRecords /\ Owing(a)
    BY <2>1 DEF NoKeyStranded, SameRecords, Owing
  <2> QED BY <2>1, <2>2, <2>3, <2>4, <2>5, <2>6 DEF Handled
<1> QED BY <1>1, <1>2 DEF XimClose

ClientActs(a) == \/ Focus(a) \/ Type(a) \/ SyncReply(a) \/ Hear(a) \/ Die(a)
                 \/ \E r \in Requests : Request(a, r)
                 \/ \E r \in Notices : Notice(a, r)

ServerActs == ProcessQueue \/ XimClose \/ \E a \in App : Receive(a)

LEMMA NextActs == Next => ServerActs \/ \E a \in App : ClientActs(a)
BY DEF Next, ServerActs, ClientActs

\* What a client says leaves the server as it is.
LEMMA ClientKeeps ==
    ASSUME NEW a \in App, ClientActs(a)
    PROVE  UNCHANGED <<core, ics, server, handled>>
BY DEF ClientActs, Focus, Type, SyncReply, Hear, Die, Request, Notice

LEMMA NoneInto ==
    ASSUME Typed, NEW a \in App, NEW msgs \in Seq(Message), Sent(a, msgs)
    PROVE  /\ toClient' \in [App -> Seq(Message)]
           /\ \A b \in App : b # a \/ Dead(a) => toClient'[b] = toClient[b]
           /\ ~Dead(a) => toClient'[a] = toClient[a] \o msgs
BY JoinNone DEF Sent, Typed

-----------------------------------------------------------------------------
(***************************************************************************)
(* Types, and the queue of the keys.                                       *)
(***************************************************************************)
LEMMA SaysTyped ==
    ASSUME Typed, NEW a \in App, NEW x \in Message, Says(a, x)
    PROVE  /\ toServer' \in [App -> Seq(Message)]
           /\ toServer'[a] = Append(toServer[a], x)
           /\ \A b \in App : b # a => toServer'[b] = toServer[b]
BY DEF Says, Typed

\* What a client says is a message.
LEMMA Sayings ==
    /\ \A y \in Kinds \ {"REPLY"} : m(y) \in Message /\ m(y).op = y
    /\ \A n \in Nat : Key(n) \in Message /\ Key(n).op = "FORWARD_EVENT"
    /\ Requests \subseteq Kinds \ {"REPLY"} /\ Notices \subseteq Kinds \ {"REPLY"}
    /\ {"FORWARD_EVENT", "SYNC_REPLY", "SET_IC_FOCUS", "UNSET_IC_FOCUS"} \subseteq Kinds \ {"REPLY"}
    /\ {"FORWARD_EVENT", "SYNC_REPLY", "SET_IC_FOCUS", "UNSET_IC_FOCUS"} \cap Requests = {}
    /\ Notices \cap Requests = {} /\ "" \notin Requests
BY DEF m, Key, Message, Kinds, Requests, Notices

\* What a client hears leaves it in a stage of its protocol.
LEMMA HeardTyped ==
    ASSUME NEW l \in Client, NEW x \in Message
    PROVE  /\ heard(l, x) \in Client
           /\ x.op = "REPLY" => heard(l, x).awaits = "" /\ heard(l, x).stage = after(x.to)
           /\ x.op # "REPLY" => heard(l, x).awaits = l.awaits /\ heard(l, x).stage = l.stage
           /\ l.mark \/ x.op = "FORWARD_EVENT" => heard(l, x).mark
<1>1. CASE x.op = "REPLY"
  <2>1. after(x.to) \in Stages
    BY <1>1, RequestStages DEF Message
  <2>2. heard(l, x) = [l EXCEPT !.awaits = "", !.stage = after(x.to),
                                !.mask = l.mask /\ after(x.to) = "ic"]
    BY <1>1 DEF heard
  <2>3. (l.mask /\ after(x.to) = "ic") \in BOOLEAN
    OBVIOUS
  <2> QED BY <1>1, <2>1, <2>2, <2>3 DEF Client
<1>2. CASE x.op # "REPLY"
  <2>1. heard(l, x) \in {l, [l EXCEPT !.mask = TRUE], [l EXCEPT !.mask = FALSE], [l EXCEPT !.mark = TRUE]}
    BY <1>2 DEF heard
  <2>2. x.op = "FORWARD_EVENT" => heard(l, x) = [l EXCEPT !.mark = TRUE]
    BY <1>2 DEF heard
  <2> QED BY <1>2, <2>1, <2>2 DEF Client
<1> QED BY <1>1, <1>2

LEMMA ClientTyped ==
    ASSUME Typed, NEW a \in App, ClientActs(a)
    PROVE  Typed'
<1> DEFINE Said == \E x \in Message : Says(a, x)
<1>1. /\ toServer' \in [App -> Seq(Message)]
      /\ toClient' \in [App -> Seq(Message)]
      /\ lib' \in [App -> Client]
  <2>1. ASSUME NEW r \in Requests, Request(a, r) PROVE <1>1
    <3>1. Says(a, m(r)) /\ m(r) \in Message /\ UNCHANGED toClient
          /\ lib' = [lib EXCEPT ![a].awaits = r, ![a].focus = @ /\ after(r) = "ic"]
      BY <2>1, Sayings DEF Request
    <3>2. (lib[a].focus /\ after(r) = "ic") \in BOOLEAN
      OBVIOUS
    <3>3. lib' \in [App -> Client]
      BY <3>1, <3>2 DEF Typed, Client
    <3> QED BY <3>1, <3>3, SaysTyped DEF Typed
  <2>2. ASSUME NEW r \in Notices, Notice(a, r) PROVE <1>1
    <3>1. Says(a, m(r)) /\ m(r) \in Message /\ UNCHANGED <<toClient, lib>>
      BY <2>2, Sayings DEF Notice
    <3> QED BY <3>1, SaysTyped DEF Typed
  <2>3. CASE Focus(a)
    <3>1. /\ Says(a, m("SET_IC_FOCUS")) \/ Says(a, m("UNSET_IC_FOCUS"))
          /\ m("SET_IC_FOCUS") \in Message /\ m("UNSET_IC_FOCUS") \in Message
          /\ UNCHANGED toClient /\ lib' = [lib EXCEPT ![a].focus = ~@]
      BY <2>3, Sayings DEF Focus
    <3>2. lib' \in [App -> Client]
      BY <3>1 DEF Typed, Client
    <3> QED BY <3>1, <3>2, SaysTyped DEF Typed
  <2>4. CASE Type(a)
    <3>1. /\ Says(a, Key(lib[a].typed + 1)) /\ UNCHANGED toClient
          /\ lib' = [lib EXCEPT ![a].typed = @ + 1] /\ lib[a].typed \in Nat
      BY <2>4 DEF Type, Typed, Client
    <3> DEFINE n == lib[a].typed + 1
    <3>a. n \in Nat
      BY <3>1
    <3>b. [lib[a] EXCEPT !.typed = n] \in Client
      <4>1. lib[a] \in Client
        BY DEF Typed
      <4> HIDE DEF n
      <4> QED BY <4>1, <3>a DEF Client
    <3>2. Key(n) \in Message
      <4> HIDE DEF n
      <4> QED BY <3>a, Sayings
    <3>c. lib' = [lib EXCEPT ![a] = [lib[a] EXCEPT !.typed = n]]
      BY <3>1
    <3> HIDE DEF n
    <3>3. lib' \in [App -> Client]
      BY <3>b, <3>c DEF Typed
    <3> QED BY <3>1, <3>2, <3>3, SaysTyped DEF Typed, n
  <2>5. CASE SyncReply(a)
    <3>1. /\ Says(a, m("SYNC_REPLY")) /\ m("SYNC_REPLY") \in Message
          /\ UNCHANGED toClient /\ lib' = [lib EXCEPT ![a].mark = FALSE]
      BY <2>5, Sayings DEF SyncReply
    <3>2. lib' \in [App -> Client]
      BY <3>1 DEF Typed, Client
    <3> QED BY <3>1, <3>2, SaysTyped DEF Typed
  <2>6. CASE Hear(a)
    <3> DEFINE x == Head(toClient[a])
    <3>1. /\ toClient[a] \in Seq(Message) /\ toClient[a] # <<>>
          /\ toClient' = [toClient EXCEPT ![a] = Tail(@)] /\ UNCHANGED toServer
          /\ lib' = [lib EXCEPT ![a] = heard(lib[a], x)] /\ lib[a] \in Client
      BY <2>6 DEF Hear, Typed
    <3>2. x \in Message /\ Tail(toClient[a]) \in Seq(Message)
      BY <3>1
    <3> HIDE DEF x
    <3>3. heard(lib[a], x) \in Client
      BY <3>1, <3>2, HeardTyped
    <3> QED BY <3>1, <3>2, <3>3 DEF Typed
  <2>7. CASE Die(a)
    <3>1. [Unborn EXCEPT !.stage = "dead", !.typed = lib[a].typed] \in Client
      BY DEF Unborn, Client, Stages, Typed
    <3>2. <<>> \in Seq(Message)
      OBVIOUS
    <3> QED BY <2>7, <3>1, <3>2 DEF Die, Typed
  <2> QED BY <2>1, <2>2, <2>3, <2>4, <2>5, <2>6, <2>7 DEF ClientActs
<1>2. WireTypeOK' /\ last_id' \in Nat
  BY ClientKeeps DEF core, Typed, WireTypeOK
<1> QED BY <1>1, <1>2 DEF Typed

LEMMA HandledTyped ==
    ASSUME Typed, NEW a \in App, NEW op, Handled(a, op), UNCHANGED lib,
           toServer' \in [App -> Seq(Message)]
    PROVE  Typed'
<1>1. WireTypeOK' /\ last_id' \in Nat
  BY DEF Handled
<1>2. PICK msgs : Answering(op, msgs) /\ Sent(a, msgs)
  BY DEF Handled
<1>3. toClient' \in [App -> Seq(Message)]
  BY <1>2, NoneInto DEF Answering
<1> QED BY <1>1, <1>3 DEF Typed

LEMMA TailTyped ==
    ASSUME Typed, NEW a \in App, toServer[a] # <<>>,
           toServer' = [toServer EXCEPT ![a] = Tail(@)]
    PROVE  /\ toServer' \in [App -> Seq(Message)]
           /\ toServer'[a] = Tail(toServer[a])
           /\ \A b \in App : b # a => toServer'[b] = toServer[b]
BY DEF Typed

LEMMA ServerTyped ==
    ASSUME Typed, ServerActs
    PROVE  Typed' /\ (NoKeyStranded => NoKeyStranded')
<1>1. ASSUME NEW a \in App, Receive(a) PROVE Typed' /\ (NoKeyStranded => NoKeyStranded')
  BY <1>1, ReceiveStep, HandledTyped, TailTyped DEF Handled
<1>2. CASE ProcessQueue
  <2>1. UNCHANGED <<toServer, lib>> /\ toServer' \in [App -> Seq(Message)]
    BY <1>2, QueueStep DEF Typed
  <2>2. CASE \E a \in App : Handled(a, "FORWARD_EVENT")
    BY <2>1, <2>2, HandledTyped DEF Handled
  <2>3. CASE /\ processing' = 0 /\ processing \in DOMAIN clients
             /\ clients[processing].sync \/ clients[processing].pending = <<>>
             /\ UNCHANGED <<clients, free_clients, last_id, ims_sync, ics, handled,
                            server, toClient>>
    <3>1. Typed'
      BY <2>1, <2>3 DEF Typed, WireTypeOK
    <3>2. NoKeyStranded => NoKeyStranded'
      BY <2>3 DEF NoKeyStranded
    <3> QED BY <3>1, <3>2
  <2> QED BY <1>2, <2>2, <2>3, QueueStep
<1>3. CASE XimClose
  <2>1. UNCHANGED <<toServer, lib>> /\ toServer' \in [App -> Seq(Message)]
    BY <1>3, CloseStep DEF Typed
  <2>2. CASE \E a \in App : Handled(a, "EXIT")
    BY <2>1, <2>2, HandledTyped DEF Handled
  <2>3. CASE UNCHANGED <<core, ics, handled, toClient>> /\ server' = "exitall"
    BY <2>1, <2>3 DEF core, Typed, WireTypeOK, NoKeyStranded
  <2> QED BY <1>3, <2>2, <2>3, CloseStep
<1> QED BY <1>1, <1>2, <1>3 DEF ServerActs

LEMMA InitTyped == Init => Typed /\ NoKeyStranded
<1> SUFFICES ASSUME Init PROVE Typed /\ NoKeyStranded
  OBVIOUS
<1>1. Unborn \in Client /\ NoIC \in [connect_id : 0 .. 0, connect : BOOLEAN]
  BY DEF Unborn, Client, Stages, NoIC
<1>2. clients = [i \in {} |-> 0] /\ DOMAIN clients = {} /\ free_clients \in Seq(1 .. last_id)
  BY DEF Init
<1>3. NoKeyStranded /\ \A i \in DOMAIN clients : clients[i] \in Record
  BY <1>2 DEF NoKeyStranded
<1>4. /\ ics \in IcType /\ handled \in [App -> Nat] /\ lib \in [App -> Client]
      /\ last_id \in Nat /\ DOMAIN clients \subseteq 1 .. last_id
      /\ processing \in DOMAIN clients \cup {0} /\ ims_sync \in BOOLEAN /\ server = "up"
  BY <1>1, <1>2 DEF Init, IcType
<1>5. toServer \in [App -> Seq(Message)] /\ toClient \in [App -> Seq(Message)]
  BY DEF Init
<1> QED BY <1>2, <1>3, <1>4, <1>5 DEF Typed, WireTypeOK, Record, IcType

LEMMA NextTyped ==
    ASSUME Typed, NoKeyStranded, [Next]_vars
    PROVE  Typed' /\ NoKeyStranded'
<1>1. CASE ServerActs
  BY <1>1, ServerTyped
<1>2. ASSUME NEW a \in App, ClientActs(a) PROVE Typed' /\ NoKeyStranded'
  BY <1>2, ClientTyped, ClientKeeps DEF core, NoKeyStranded
<1>3. CASE UNCHANGED vars
  BY <1>3 DEF vars, core, Typed, WireTypeOK, NoKeyStranded
<1> QED BY <1>1, <1>2, <1>3, NextActs

\* The records, the ICs and the queues have their types, in every state.
THEOREM WireTypes == Spec => []WireTypeOK
<1>1. Typed /\ NoKeyStranded /\ [Next]_vars => (Typed /\ NoKeyStranded)'
  BY NextTyped
<1>2. Typed => WireTypeOK
  BY DEF Typed
<1> QED BY InitTyped, <1>1, <1>2, PTL DEF Spec

\* No key is left in a queue when the client owes no answer: whoever clears the
\* flag runs the queue before the next message is looked at.
THEOREM KeysNotStranded == Spec => []NoKeyStranded
<1>1. Typed /\ NoKeyStranded /\ [Next]_vars => (Typed /\ NoKeyStranded)'
  BY NextTyped
<1> QED BY InitTyped, <1>1, PTL DEF Spec

-----------------------------------------------------------------------------
(***************************************************************************)
(* What a client asks for, and what becomes of its records and its IC.     *)
(***************************************************************************)
Asked(a, r) == \E x \in Range(toServer[a]) : x.op = r

\* A client has at most one request under way, or the reply to it.
OneAtATime(a) ==
    /\ Once(toServer[a], Requests) /\ Once(toClient[a], {"REPLY"})
    /\ None(toServer[a], Requests) \/ None(toClient[a], {"REPLY"})
    /\ \A x \in Range(toServer[a]) : x.op \in Requests => lib[a].awaits = x.op \/ Dead(a)
    /\ \A x \in Range(toClient[a]) : x.op = "REPLY" => x.to = lib[a].awaits
    /\ Dead(a) => toClient[a] = <<>>

\* It connects once.
Meets(a) ==
    /\ lib[a].stage = "new" /\ lib[a].awaits = "" => ~Connected(a)
    /\ Asked(a, "XCONNECT") => lib[a].stage = "new" /\ ~Connected(a)

\* Its IM is closed, or what closes it is under way.
Over(a) ==
    \/ lib[a].stage \in {"closed", "gone"}
    \/ Asked(a, "DISCONNECT")
    \/ \E x \in Range(toClient[a]) : x.op = "REPLY" /\ x.to \in {"CLOSE", "DISCONNECT"}

\* From then on it has no IC and asks for none.
Ends(a) == Over(a) => ~Asked(a, "CREATE_IC") /\ (server = "up" => ics[a] = NoIC)

\* No two records have one window, and no id is both in use and free.
Records ==
    /\ \A i, j \in DOMAIN clients : clients[i].win = clients[j].win => i = j
    /\ \A k, l \in DOMAIN free_clients : free_clients[k] = free_clients[l] => k = l
    /\ \A k \in DOMAIN free_clients : free_clients[k] \notin DOMAIN clients

Others(a) == \A b \in App : b # a => /\ toServer'[b] = toServer[b] /\ toClient'[b] = toClient[b]
                                     /\ lib'[b] = lib[b]

Asks(a, r) ==
    /\ lib[a].awaits = "" /\ lib[a].stage \in before(r)
    /\ toServer'[a] = Append(toServer[a], m(r)) /\ UNCHANGED toClient
    /\ lib'[a].awaits = r /\ lib'[a].stage = lib[a].stage /\ lib'[a].mark = lib[a].mark

Tells(a, x) ==
    /\ toServer'[a] = Append(toServer[a], x) /\ UNCHANGED toClient
    /\ lib'[a].awaits = lib[a].awaits /\ lib'[a].stage = lib[a].stage
    /\ lib'[a].mark = lib[a].mark \/ x = m("SYNC_REPLY")

Hears(a) ==
    /\ toClient[a] # <<>> /\ toClient'[a] = Tail(toClient[a]) /\ UNCHANGED toServer
    /\ lib'[a] = heard(lib[a], Head(toClient[a]))

Dies(a) ==
    /\ lib[a].stage # "new" /\ toClient'[a] = <<>> /\ UNCHANGED toServer
    /\ lib'[a].stage = "dead" /\ lib'[a].awaits = ""

\* The four things a client does.
LEMMA ClientForms ==
    ASSUME Typed, NEW a \in App, ClientActs(a)
    PROVE  /\ Others(a)
           /\ \/ \E r \in Requests : Asks(a, r)
              \/ \E x \in Message : x.op \notin Requests /\ Tells(a, x)
              \/ Hears(a)
              \/ Dies(a)
<1> USE DEF Others
<1>1. ASSUME NEW r \in Requests, Request(a, r) PROVE Others(a) /\ Asks(a, r)
  <2>1. /\ Says(a, m(r)) /\ m(r) \in Message /\ UNCHANGED toClient /\ lib[a].awaits = ""
        /\ lib[a].stage \in before(r)
        /\ lib' = [lib EXCEPT ![a].awaits = r, ![a].focus = @ /\ after(r) = "ic"]
    BY <1>1, Sayings DEF Request, Free
  <2>2. lib'[a].awaits = r /\ lib'[a].stage = lib[a].stage /\ lib'[a].mark = lib[a].mark
    BY <2>1 DEF Typed, Client
  <2> QED BY <2>1, <2>2, SaysTyped DEF Asks, Typed
<1>2. ASSUME NEW r \in Notices, Notice(a, r)
      PROVE  Others(a) /\ m(r) \in Message /\ m(r).op \notin Requests /\ Tells(a, m(r))
  <2>1. Says(a, m(r)) /\ m(r) \in Message /\ m(r).op = r /\ UNCHANGED <<toClient, lib>>
    BY <1>2, Sayings DEF Notice
  <2>2. r \notin Requests
    BY Sayings
  <2> QED BY <2>1, <2>2, SaysTyped DEF Tells
<1>3. CASE Focus(a)
  <2>1. PICK y \in {"SET_IC_FOCUS", "UNSET_IC_FOCUS"} : Says(a, m(y))
    BY <1>3 DEF Focus
  <2>2. m(y) \in Message /\ m(y).op \notin Requests
    BY Sayings
  <2>3. UNCHANGED toClient /\ lib' = [lib EXCEPT ![a].focus = ~@]
    BY <1>3 DEF Focus
  <2>4. Others(a) /\ Tells(a, m(y))
    BY <2>1, <2>2, <2>3, SaysTyped DEF Tells, Typed, Client
  <2> QED BY <2>2, <2>4
<1>4. CASE Type(a)
  <2> DEFINE x == Key(lib[a].typed + 1)
  <2>1. Says(a, x) /\ UNCHANGED toClient /\ lib' = [lib EXCEPT ![a].typed = @ + 1]
    BY <1>4 DEF Type
  <2>2. x \in Message /\ x.op \notin Requests
    <3> DEFINE n == lib[a].typed + 1
    <3>0. lib[a].typed \in Nat
      BY DEF Typed, Client
    <3>1. n \in Nat
      BY <3>0
    <3> HIDE DEF n
    <3>2. Key(n) \in Message /\ Key(n).op \notin Requests
      BY <3>1, Sayings
    <3> QED BY <3>2 DEF n
  <2> HIDE DEF x
  <2>3. Others(a) /\ Tells(a, x)
    BY <2>1, <2>2, SaysTyped DEF Tells, Typed, Client
  <2> QED BY <2>2, <2>3
<1>5. CASE SyncReply(a)
  <2>1. Says(a, m("SYNC_REPLY")) /\ UNCHANGED toClient /\ lib' = [lib EXCEPT ![a].mark = FALSE]
        /\ m("SYNC_REPLY") \in Message /\ m("SYNC_REPLY").op \notin Requests
    BY <1>5, Sayings DEF SyncReply
  <2>2. Others(a) /\ Tells(a, m("SYNC_REPLY"))
    BY <2>1, SaysTyped DEF Tells, Typed, Client
  <2> QED BY <2>1, <2>2
<1>6. CASE Hear(a)
  BY <1>6 DEF Hear, Hears, Typed
<1>7. CASE Die(a)
  BY <1>7 DEF Die, Dies, Typed, Unborn
<1> QED BY <1>1, <1>2, <1>3, <1>4, <1>5, <1>6, <1>7 DEF ClientActs

\* A client keeps the rules of its requests.
LEMMA ClientOne ==
    ASSUME Typed, NEW a \in App, NEW b \in App, Others(a), OneAtATime(b),
           \/ \E r \in Requests : Asks(a, r)
           \/ \E x \in Message : x.op \notin Requests /\ Tells(a, x)
           \/ Hears(a)
           \/ Dies(a)
    PROVE  OneAtATime(b)'
<1>0. toServer[a] \in Seq(Message) /\ toClient[a] \in Seq(Message) /\ lib[a] \in Client
  BY DEF Typed
<1>1. CASE b # a
  BY <1>1 DEF Others, OneAtATime, Dead
<1>2. ASSUME b = a, NEW r \in Requests, Asks(a, r) PROVE OneAtATime(a)'
  <2>1. /\ lib[a].awaits = "" /\ lib[a].stage \in before(r) /\ toClient' = toClient
        /\ toServer'[a] = Append(toServer[a], m(r))
        /\ lib'[a].awaits = r /\ lib'[a].stage = lib[a].stage
    BY <1>2 DEF Asks
  <2>2. m(r) \in Message /\ m(r).op = r /\ r # "" /\ r \notin {"REPLY"}
    BY Sayings
  <2>3. ~Dead(a) /\ ~Dead(a)'
    <3>1. "dead" \notin before(r)
      BY DEF before, Requests, Questions
    <3> QED BY <2>1, <3>1 DEF Dead
  <2>4. None(toServer[a], Requests)
    <3> SUFFICES ASSUME NEW k \in DOMAIN toServer[a], toServer[a][k].op \in Requests
                 PROVE  FALSE
      BY DEF None
    <3>1. toServer[a][k].op = ""
      BY <1>2, <2>1, <2>3 DEF OneAtATime, Range
    <3> QED BY <3>1, Sayings
  <2>5. None(toClient[a], {"REPLY"})
    <3> SUFFICES ASSUME NEW k \in DOMAIN toClient[a], toClient[a][k].op = "REPLY"
                 PROVE  FALSE
      BY DEF None
    <3>1. toClient[a][k] \in Message
      BY <1>0
    <3>2. toClient[a][k].to = ""
      BY <1>2, <2>1 DEF OneAtATime, Range
    <3> QED BY <3>1, <3>2, Sayings DEF Message
  <2>6. Once(toServer'[a], Requests)
    <3>1. Once(Append(toServer[a], m(r)), Requests)
      BY <1>0, <2>2, <2>4, AppendNone
    <3> QED BY <2>1, <3>1
  <2>7. \A x \in Range(toServer'[a]) : x.op \in Requests => x.op = r
    <3>1. \A x \in Range(toServer'[a]) : x \in Range(toServer[a]) \/ x = m(r)
      BY <1>0, <2>1, <2>2, AppendNone
    <3>2. \A x \in Range(toServer[a]) : x.op \notin Requests
      BY <2>4 DEF None, Range
    <3> QED BY <2>2, <3>1, <3>2
  <2>8. \A x \in Range(toClient[a]) : x.op # "REPLY"
    BY <2>5 DEF None, Range
  <2> QED BY <1>2, <2>1, <2>3, <2>5, <2>6, <2>7, <2>8 DEF OneAtATime
<1>3. ASSUME b = a, NEW x \in Message, x.op \notin Requests, Tells(a, x) PROVE OneAtATime(a)'
  <2>1. /\ toClient' = toClient /\ toServer'[a] = Append(toServer[a], x)
        /\ lib'[a].awaits = lib[a].awaits /\ lib'[a].stage = lib[a].stage
    BY <1>3 DEF Tells
  <2>2. /\ None(toServer[a], Requests) => None(toServer'[a], Requests)
        /\ Once(toServer[a], Requests) => Once(toServer'[a], Requests)
        /\ \A y \in Range(toServer'[a]) : y \in Range(toServer[a]) \/ y = x
    BY <1>0, <1>3, <2>1, AppendNone
  <2> QED BY <1>3, <2>1, <2>2 DEF OneAtATime, Dead
<1>4. ASSUME b = a, Hears(a) PROVE OneAtATime(a)'
  <2> DEFINE x == Head(toClient[a])
  <2>1. /\ toClient[a] # <<>> /\ toClient[a] \in Seq(Message) /\ toClient'[a] = Tail(toClient[a])
        /\ toServer' = toServer /\ lib'[a] = heard(lib[a], x) /\ lib[a] \in Client
    BY <1>0, <1>4 DEF Hears
  <2>2. x \in Message /\ x \in Range(toClient[a])
    <3>1. x \in Message /\ 1 \in DOMAIN toClient[a] /\ x = toClient[a][1]
      BY <2>1
    <3> QED BY <3>1 DEF Range
  <2>3. /\ None(toClient[a], {"REPLY"}) => None(toClient'[a], {"REPLY"})
        /\ Once(toClient'[a], {"REPLY"})
        /\ x.op = "REPLY" => None(toClient'[a], {"REPLY"})
        /\ \A y \in Range(toClient'[a]) : y \in Range(toClient[a])
    BY <1>4, <2>1, TailNone DEF OneAtATime
  <2>4. ~Dead(a)
    BY <1>4, <2>1 DEF OneAtATime
  <2> HIDE DEF x
  <2>5. CASE x.op = "REPLY"
    <3>1. /\ lib'[a].awaits = "" /\ lib'[a].stage = after(x.to) /\ x.to \in Requests
      <4>1. x.to \in Requests
        BY <2>2, <2>5 DEF Message
      <4>2. heard(lib[a], x).awaits = "" /\ heard(lib[a], x).stage = after(x.to)
        BY <1>0, <2>2, <2>5, HeardTyped
      <4> QED BY <4>1, <4>2, <2>1
    <3>2. lib'[a].stage # "dead"
      BY <3>1, RequestStages
    <3>3. None(toServer[a], Requests) /\ None(toClient'[a], {"REPLY"})
      <4>1. ~None(toClient[a], {"REPLY"})
        BY <2>2, <2>5 DEF None, Range
      <4> QED BY <1>4, <4>1, <2>3, <2>5 DEF OneAtATime
    <3>4. /\ \A y \in Range(toServer[a]) : y.op \notin Requests
          /\ \A y \in Range(toClient'[a]) : y.op # "REPLY"
      BY <3>3 DEF None, Range
    <3> QED BY <1>4, <2>1, <2>3, <3>2, <3>3, <3>4 DEF OneAtATime, Dead
  <2>6. CASE x.op # "REPLY"
    <3>1. lib'[a].awaits = lib[a].awaits /\ lib'[a].stage = lib[a].stage
      <4>1. heard(lib[a], x).awaits = lib[a].awaits /\ heard(lib[a], x).stage = lib[a].stage
        BY <1>0, <2>2, <2>6, HeardTyped
      <4> QED BY <4>1, <2>1
    <3> QED BY <1>4, <2>1, <2>3, <2>4, <3>1 DEF OneAtATime, Dead
  <2> QED BY <2>5, <2>6
<1>5. ASSUME b = a, Dies(a) PROVE OneAtATime(a)'
  <2>1. /\ toClient'[a] = <<>> /\ toServer' = toServer /\ lib'[a].stage = "dead"
    BY <1>5 DEF Dies
  <2>2. Once(<<>>, {"REPLY"}) /\ None(<<>>, {"REPLY"}) /\ Range(<<>>) = {}
    BY DEF Once, None, Range
  <2> QED BY <1>5, <2>1, <2>2 DEF OneAtATime, Dead
<1> QED BY <1>1, <1>2, <1>3, <1>4, <1>5

\* After what a client says, it asks for what it asked for before.
LEMMA AskedStill ==
    ASSUME Typed, NEW a \in App, NEW x \in Message, NEW r, x.op # r,
           toServer'[a] = Append(toServer[a], x)
    PROVE  Asked(a, r)' => Asked(a, r)
<1>1. \A y \in Range(Append(toServer[a], x)) : y \in Range(toServer[a]) \/ y = x
  <2>1. toServer[a] \in Seq(Message)
    BY DEF Typed
  <2> QED BY <2>1, AppendNone
<1>2. Range(toServer'[a]) = Range(Append(toServer[a], x))
  OBVIOUS
<1> QED BY <1>1, <1>2 DEF Asked

LEMMA ClientMeets ==
    ASSUME Typed, NEW a \in App, NEW b \in App, Others(a), OneAtATime(b), Meets(b),
           UNCHANGED clients,
           \/ \E r \in Requests : Asks(a, r)
           \/ \E x \in Message : x.op \notin Requests /\ Tells(a, x)
           \/ Hears(a)
           \/ Dies(a)
    PROVE  Meets(b)'
<1>0. toServer[a] \in Seq(Message) /\ toClient[a] \in Seq(Message) /\ lib[a] \in Client
  BY DEF Typed
<1>a. Connected(b)' <=> Connected(b)
  BY DEF Connected
<1>1. CASE b # a
  BY <1>1, <1>a DEF Others, Meets, Asked
<1>2. ASSUME b = a, NEW r \in Requests, Asks(a, r) PROVE Meets(a)'
  <2>1. /\ lib[a].awaits = "" /\ lib[a].stage \in before(r)
        /\ toServer'[a] = Append(toServer[a], m(r))
        /\ lib'[a].awaits = r /\ lib'[a].stage = lib[a].stage
    BY <1>2 DEF Asks
  <2>2. m(r) \in Message /\ m(r).op = r /\ r # ""
    BY Sayings
  <2>3. CASE r = "XCONNECT"
    <3>1. lib[a].stage = "new"
      BY <2>1, <2>3, RequestStages
    <3> QED BY <1>2, <1>a, <2>1, <2>2, <3>1 DEF Meets
  <2>4. CASE r # "XCONNECT"
    <3>1. Asked(a, "XCONNECT")' => Asked(a, "XCONNECT")
      BY <1>0, <2>1, <2>2, <2>4, AskedStill
    <3> QED BY <1>2, <1>a, <2>1, <2>2, <3>1 DEF Meets
  <2> QED BY <2>3, <2>4
<1>3. ASSUME b = a, NEW x \in Message, x.op \notin Requests, Tells(a, x) PROVE Meets(a)'
  <2>1. /\ toServer'[a] = Append(toServer[a], x)
        /\ lib'[a].awaits = lib[a].awaits /\ lib'[a].stage = lib[a].stage
    BY <1>3 DEF Tells
  <2>2. x.op # "XCONNECT"
    BY <1>3 DEF Requests
  <2>3. Asked(a, "XCONNECT")' => Asked(a, "XCONNECT")
    BY <1>0, <2>1, <2>2, AskedStill
  <2> QED BY <1>3, <1>a, <2>1, <2>3 DEF Meets
<1>4. ASSUME b = a, Hears(a) PROVE Meets(a)'
  <2> DEFINE x == Head(toClient[a])
  <2>1. toServer' = toServer /\ lib'[a] = heard(lib[a], x) /\ toClient[a] # <<>>
    BY <1>4 DEF Hears
  <2>2. x \in Message /\ x \in Range(toClient[a])
    <3>1. x \in Message /\ 1 \in DOMAIN toClient[a] /\ x = toClient[a][1]
      BY <1>0, <2>1
    <3> QED BY <3>1 DEF Range
  <2> HIDE DEF x
  <2>3. CASE x.op = "REPLY"
    <3>1. x.to \in Requests /\ after(x.to) # "new"
      BY <2>2, <2>3, RequestStages DEF Message
    <3>2. lib'[a].stage # "new"
      BY <1>0, <2>1, <2>2, <2>3, <3>1, HeardTyped
    <3>3. None(toServer[a], Requests)
      BY <1>4, <2>2, <2>3 DEF OneAtATime, None, Range
    <3>4. ~Asked(a, "XCONNECT")
      BY <3>3 DEF Asked, None, Range, Requests
    <3> QED BY <2>1, <3>2, <3>4 DEF Meets, Asked
  <2>4. CASE x.op # "REPLY"
    <3>1. heard(lib[a], x).awaits = lib[a].awaits /\ heard(lib[a], x).stage = lib[a].stage
      BY <1>0, <2>2, <2>4, HeardTyped
    <3> QED BY <1>4, <1>a, <2>1, <3>1 DEF Meets, Asked
  <2> QED BY <2>3, <2>4
<1>5. ASSUME b = a, Dies(a) PROVE Meets(a)'
  BY <1>5 DEF Dies, Meets, Asked
<1> QED BY <1>1, <1>2, <1>3, <1>4, <1>5

LEMMA ClientEnds ==
    ASSUME Typed, NEW a \in App, NEW b \in App, Others(a), OneAtATime(b), Ends(b),
           UNCHANGED <<ics, server>>,
           \/ \E r \in Requests : Asks(a, r)
           \/ \E x \in Message : x.op \notin Requests /\ Tells(a, x)
           \/ Hears(a)
           \/ Dies(a)
    PROVE  Ends(b)'
<1>0. toServer[a] \in Seq(Message) /\ toClient[a] \in Seq(Message) /\ lib[a] \in Client
  BY DEF Typed
<1>1. CASE b # a
  BY <1>1 DEF Others, Ends, Over, Asked
\* It suffices that nothing ends now that did not before, and no IC is asked for.
<1>a. ASSUME b = a, Over(a)' => Over(a), Asked(a, "CREATE_IC")' => Asked(a, "CREATE_IC")
      PROVE  Ends(a)'
  BY <1>a DEF Ends
<1>2. ASSUME b = a, NEW r \in Requests, Asks(a, r) PROVE Ends(a)'
  <2>1. /\ lib[a].awaits = "" /\ lib[a].stage \in before(r)
        /\ toServer'[a] = Append(toServer[a], m(r)) /\ toClient' = toClient
        /\ lib'[a].awaits = r /\ lib'[a].stage = lib[a].stage
    BY <1>2 DEF Asks
  <2>2. m(r) \in Message /\ m(r).op = r /\ r # ""
    BY Sayings
  <2>3. CASE r = "CREATE_IC"
    <3>1. lib[a].stage = "open" /\ ~Dead(a)
      BY <2>1, <2>3, RequestStages DEF Dead
    <3>2. ~Asked(a, "DISCONNECT")
      BY <1>2, <2>1, <3>1 DEF Asked, OneAtATime, Requests
    <3>3. \A x \in Range(toClient[a]) : x.op = "REPLY" => x.to = ""
      BY <1>2, <2>1 DEF OneAtATime
    <3>4. Asked(a, "DISCONNECT")' => Asked(a, "DISCONNECT")
      BY <1>0, <2>1, <2>2, <2>3, AskedStill
    <3>5. ~Over(a)'
      BY <2>1, <3>1, <3>2, <3>3, <3>4 DEF Over
    <3> QED BY <3>5 DEF Ends
  <2>4. CASE r # "CREATE_IC"
    <3>1. Asked(a, "CREATE_IC")' => Asked(a, "CREATE_IC")
      BY <1>0, <2>1, <2>2, <2>4, AskedStill
    <3>2. r = "DISCONNECT" => Over(a)
      BY <2>1, RequestStages DEF Over
    <3>3. r # "DISCONNECT" => (Asked(a, "DISCONNECT")' => Asked(a, "DISCONNECT"))
      BY <1>0, <2>1, <2>2, AskedStill
    <3>4. Over(a)' => Over(a)
      BY <2>1, <3>2, <3>3 DEF Over
    <3> QED BY <1>2, <1>a, <3>1, <3>4
  <2> QED BY <2>3, <2>4
<1>3. ASSUME b = a, NEW x \in Message, x.op \notin Requests, Tells(a, x) PROVE Ends(a)'
  <2>1. /\ toServer'[a] = Append(toServer[a], x) /\ toClient' = toClient
        /\ lib'[a].awaits = lib[a].awaits /\ lib'[a].stage = lib[a].stage
    BY <1>3 DEF Tells
  <2>2. x.op # "CREATE_IC" /\ x.op # "DISCONNECT"
    BY <1>3 DEF Requests
  <2>3. /\ Asked(a, "CREATE_IC")' => Asked(a, "CREATE_IC")
        /\ Asked(a, "DISCONNECT")' => Asked(a, "DISCONNECT")
    BY <1>0, <2>1, <2>2, AskedStill
  <2>4. Over(a)' => Over(a)
    BY <2>1, <2>3 DEF Over
  <2> QED BY <1>3, <1>a, <2>3, <2>4
<1>4. ASSUME b = a, Hears(a) PROVE Ends(a)'
  <2> DEFINE x == Head(toClient[a])
  <2>1. /\ toServer' = toServer /\ lib'[a] = heard(lib[a], x) /\ toClient[a] # <<>>
        /\ toClient'[a] = Tail(toClient[a])
    BY <1>4 DEF Hears
  <2>2. x \in Message /\ x \in Range(toClient[a])
    <3>1. x \in Message /\ 1 \in DOMAIN toClient[a] /\ x = toClient[a][1]
      BY <1>0, <2>1
    <3> QED BY <3>1 DEF Range
  <2> HIDE DEF x
  <2>3. Asked(a, "CREATE_IC")' => Asked(a, "CREATE_IC")
    BY <2>1 DEF Asked
  <2>4. \A y \in Range(toClient'[a]) : y \in Range(toClient[a])
    BY <1>0, <2>1, TailNone
  <2>5. lib'[a].stage \in {"closed", "gone"} => Over(a)
    <3>1. CASE x.op = "REPLY"
      <4>1. x.to \in Requests /\ lib'[a].stage = after(x.to)
        <5>1. x.to \in Requests
          BY <2>2, <3>1 DEF Message
        <5>2. heard(lib[a], x).stage = after(x.to)
          BY <1>0, <2>2, <3>1, HeardTyped
        <5> QED BY <2>1, <5>1, <5>2
      <4>2. after(x.to) \in {"closed", "gone"} => x.to \in {"CLOSE", "DISCONNECT"}
        BY <4>1, RequestStages
      <4> QED BY <2>2, <3>1, <4>1, <4>2 DEF Over
    <3>2. CASE x.op # "REPLY"
      <4>1. heard(lib[a], x).stage = lib[a].stage
        BY <1>0, <2>2, <3>2, HeardTyped
      <4> QED BY <2>1, <4>1 DEF Over
    <3> QED BY <3>1, <3>2
  <2>6. Over(a)' => Over(a)
    BY <2>1, <2>4, <2>5 DEF Over, Asked
  <2> QED BY <1>4, <1>a, <2>3, <2>6
<1>5. ASSUME b = a, Dies(a) PROVE Ends(a)'
  <2>1. Over(a)' => Over(a)
    <3>1. toClient'[a] = <<>> /\ toServer' = toServer /\ lib'[a].stage = "dead"
      BY <1>5 DEF Dies
    <3>2. Range(toClient'[a]) = {}
      BY <3>1 DEF Range
    <3> QED BY <3>1, <3>2 DEF Over, Asked
  <2>2. Asked(a, "CREATE_IC")' => Asked(a, "CREATE_IC")
    BY <1>5 DEF Dies, Asked
  <2> QED BY <1>5, <1>a, <2>1, <2>2
<1> QED BY <1>1, <1>2, <1>3, <1>4, <1>5

\* The server takes a message of a client, or acts of its own accord.
Takes(a, op) ==
    \/ UNCHANGED toServer /\ op \notin Requests \cup {"SYNC_REPLY"}
    \/ /\ toServer[a] # <<>> /\ op = Head(toServer[a]).op
       /\ toServer' = [toServer EXCEPT ![a] = Tail(@)]

LEMMA TakesFacts ==
    ASSUME Typed, NEW a \in App, NEW op, Takes(a, op)
    PROVE  /\ \A b \in App : b # a => toServer'[b] = toServer[b]
           /\ Once(toServer[a], Requests) => Once(toServer'[a], Requests)
           /\ None(toServer[a], Requests) => None(toServer'[a], Requests)
           /\ Once(toServer[a], Requests) /\ op \in Requests => None(toServer'[a], Requests)
           /\ op \in Requests => Asked(a, op)
           /\ \A x \in Range(toServer'[a]) : x \in Range(toServer[a])
           /\ \A x \in Range(toServer[a]) : x.op = op \/ x \in Range(toServer'[a])
           /\ \A b \in App : \A r : Asked(b, r)' => Asked(b, r)
<1>0. toServer[a] \in Seq(Message)
  BY DEF Typed
<1>1. CASE UNCHANGED toServer /\ op \notin Requests \cup {"SYNC_REPLY"}
  BY <1>1 DEF Asked
<1>2. CASE /\ toServer[a] # <<>> /\ op = Head(toServer[a]).op
           /\ toServer' = [toServer EXCEPT ![a] = Tail(@)]
  <2> DEFINE s == toServer[a]
  <2>1. toServer'[a] = Tail(s) /\ \A b \in App : b # a => toServer'[b] = toServer[b]
    BY <1>2, TailTyped
  <2>2. Head(s) \in Range(s)
    <3>1. 1 \in DOMAIN s /\ Head(s) = s[1]
      BY <1>0, <1>2
    <3> QED BY <3>1 DEF Range
  <2>3. s \in Seq(Message) /\ s # <<>>
    BY <1>0, <1>2
  <2>4. op = Head(s).op
    BY <1>2
  <2> DEFINE t == Tail(s)
  <2>5. /\ Once(s, Requests) => Once(t, Requests)
        /\ None(s, Requests) => None(t, Requests)
        /\ Once(s, Requests) /\ Head(s).op \in Requests => None(t, Requests)
        /\ \A x \in Range(t) : x \in Range(s)
        /\ \A x \in Range(s) : x = Head(s) \/ x \in Range(t)
    BY <2>3, TailNone
  <2>6. toServer'[a] = t
    BY <2>1
  <2> HIDE DEF t
  <2>7. \A r : Asked(a, r)' => Asked(a, r)
    BY <2>5, <2>6 DEF Asked
  <2>8. \A b \in App : \A r : Asked(b, r)' => Asked(b, r)
    BY <2>1, <2>7 DEF Asked
  <2>9. Asked(a, op)
    BY <2>2, <2>4 DEF Asked
  <2> QED BY <2>1, <2>4, <2>5, <2>6, <2>8, <2>9
<1> QED BY <1>1, <1>2 DEF Takes

LEMMA HandledOne ==
    ASSUME Typed, NEW a \in App, NEW b \in App, NEW op, OneAtATime(b), Handled(a, op),
           UNCHANGED lib, Takes(a, op)
    PROVE  OneAtATime(b)'
<1>1. PICK msgs : Answering(op, msgs) /\ Sent(a, msgs)
  BY DEF Handled
<1>2. /\ msgs \in Seq(Message) /\ Once(msgs, {"REPLY"})
      /\ \A x \in Range(msgs) : x.op = "REPLY" => x.to = op /\ op \in Requests
  BY <1>1 DEF Answering, Range
<1>3. /\ \A c \in App : c # a \/ Dead(a) => toClient'[c] = toClient[c]
      /\ ~Dead(a) => toClient'[a] = toClient[a] \o msgs
  BY <1>1, <1>2, NoneInto
<1>4. Dead(b)' <=> Dead(b)
  BY DEF Dead
<1>5. CASE b # a
  <2>1. toServer'[b] = toServer[b] /\ toClient'[b] = toClient[b]
    BY <1>3, <1>5, TakesFacts
  <2> QED BY <1>4, <2>1 DEF OneAtATime
<1>6. CASE b = a
  <2>1. /\ Once(toServer'[a], Requests)
        /\ None(toServer[a], Requests) => None(toServer'[a], Requests)
        /\ op \in Requests => None(toServer'[a], Requests) /\ Asked(a, op)
        /\ \A x \in Range(toServer'[a]) : x \in Range(toServer[a])
    BY <1>6, TakesFacts DEF OneAtATime
  <2>2. CASE Dead(a)
    BY <1>3, <1>4, <1>6, <2>1, <2>2 DEF OneAtATime
  <2>3. ASSUME ~Dead(a), op \in Requests PROVE OneAtATime(a)'
    <3>1. lib[a].awaits = op
      BY <1>6, <2>1, <2>3 DEF OneAtATime, Asked
    <3>2. None(toClient[a], {"REPLY"})
      BY <1>6, <2>1, <2>3 DEF OneAtATime, Asked, None, Range
    <3>3. \A x \in Range(toClient[a]) : x.op # "REPLY"
      BY <3>2 DEF None, Range
    <3>4. toClient[a] \in Seq(Message) /\ toClient'[a] = toClient[a] \o msgs
      BY <1>3, <2>3 DEF Typed
    <3>5. /\ Once(toClient[a] \o msgs, {"REPLY"})
          /\ \A x \in Range(toClient[a] \o msgs) : x \in Range(toClient[a]) \/ x \in Range(msgs)
      BY <1>2, <3>2, <3>4, JoinNone
    <3>6. /\ Once(toClient'[a], {"REPLY"})
          /\ \A x \in Range(toClient'[a]) : x \in Range(toClient[a]) \/ x \in Range(msgs)
      BY <3>4, <3>5
    <3>7. \A x \in Range(toServer'[a]) : x.op \notin Requests
      BY <2>1, <2>3 DEF None, Range
    <3> QED BY <1>2, <1>4, <1>6, <2>1, <2>3, <3>1, <3>3, <3>6, <3>7 DEF OneAtATime
  <2>4. ASSUME ~Dead(a), op \notin Requests PROVE OneAtATime(a)'
    <3>1. None(msgs, {"REPLY"})
      BY <1>2, <2>4 DEF None, Range
    <3>2. toClient[a] \in Seq(Message) /\ toClient'[a] = toClient[a] \o msgs
      BY <1>3, <2>4 DEF Typed
    <3>3. /\ Once(toClient[a], {"REPLY"}) => Once(toClient[a] \o msgs, {"REPLY"})
          /\ None(toClient[a], {"REPLY"}) => None(toClient[a] \o msgs, {"REPLY"})
          /\ \A x \in Range(toClient[a] \o msgs) : x \in Range(toClient[a]) \/ x \in Range(msgs)
      BY <1>2, <3>1, <3>2, JoinNone
    <3>4. /\ Once(toClient[a], {"REPLY"}) => Once(toClient'[a], {"REPLY"})
          /\ None(toClient[a], {"REPLY"}) => None(toClient'[a], {"REPLY"})
          /\ \A x \in Range(toClient'[a]) : x \in Range(toClient[a]) \/ x \in Range(msgs)
      BY <3>2, <3>3
    <3>5. \A x \in Range(msgs) : x.op # "REPLY"
      BY <1>2, <2>4
    <3> QED BY <1>4, <1>6, <2>1, <2>4, <3>4, <3>5 DEF OneAtATime
  <2> QED BY <1>6, <2>2, <2>3, <2>4
<1> QED BY <1>5, <1>6

\* The procedures that make, end or look up a record or an IC.
Performs(a, op) ==
    /\ op = "XCONNECT" => ReadXConnectMessage(a)
    /\ op = "DISCONNECT" => Connected(a) /\ DisConnectMessageProc(a)
    /\ op = "CREATE_IC" => Connected(a) /\ CreateICMessageProc(a)
    /\ op = "CLOSE" => Connected(a) /\ CloseMessageProc(a)
    /\ op = "SYNC_REPLY" => Connected(a) /\ SyncReplyMessageProc(a)

\* How the records change.
LEMMA RecordsChange ==
    ASSUME NEW a \in App, NEW op, Handled(a, op), Performs(a, op)
    PROVE  /\ op = "XCONNECT" =>
                /\ DOMAIN clients' = DOMAIN clients \cup {new_id}
                /\ \A i \in DOMAIN clients' : clients'[i] = IF i = new_id THEN NewClient(a)
                                                            ELSE clients[i]
                /\ free_clients' = IF free_clients # <<>> THEN Tail(free_clients) ELSE <<>>
           /\ op = "DISCONNECT" =>
                /\ DOMAIN clients' = DOMAIN clients \ {id(a)}
                /\ \A i \in DOMAIN clients' : clients'[i] = clients[i]
                /\ free_clients' = <<id(a)>> \o free_clients
           /\ op \notin {"XCONNECT", "DISCONNECT"} => SameRecords
<1>1. CASE op = "XCONNECT"
  BY <1>1 DEF Performs, ReadXConnectMessage, _Xi18nNewClient
<1>2. CASE op = "DISCONNECT"
  <2> DEFINE i == id(a)
  <2>1. /\ clients' = [j \in DOMAIN clients \ {i} |-> clients[j]]
        /\ free_clients' = <<i>> \o free_clients
    BY <1>2 DEF Performs, DisConnectMessageProc, _Xi18nDeleteClient
  <2> QED BY <1>2, <2>1
<1>3. CASE op \notin {"XCONNECT", "DISCONNECT"}
  BY <1>3 DEF Handled
<1> QED BY <1>1, <1>2, <1>3

LEMMA ConnectedStill ==
    ASSUME NEW a \in App, NEW b \in App, NEW op, Handled(a, op), Performs(a, op),
           b # a \/ op # "XCONNECT", Connected(b)'
    PROVE  Connected(b)
<1>1. PICK i \in DOMAIN clients' : clients'[i].win = b
  BY DEF Connected
<1>2. CASE op = "XCONNECT"
  <2>1. /\ DOMAIN clients' = DOMAIN clients \cup {new_id}
        /\ \A j \in DOMAIN clients' : clients'[j] = IF j = new_id THEN NewClient(a) ELSE clients[j]
    BY <1>2, RecordsChange
  <2>2. NewClient(a).win = a /\ b # a
    BY <1>2 DEF NewClient
  <2>3. clients'[i] = clients[i] /\ i \in DOMAIN clients
    BY <1>1, <2>1, <2>2
  <2> QED BY <1>1, <2>3 DEF Connected
<1>3. CASE op = "DISCONNECT"
  BY <1>1, <1>3, RecordsChange DEF Connected
<1>4. CASE op \notin {"XCONNECT", "DISCONNECT"}
  BY <1>1, <1>4, RecordsChange DEF SameRecords, Connected
<1> QED BY <1>2, <1>3, <1>4

LEMMA HandledMeets ==
    ASSUME Typed, NEW a \in App, NEW b \in App, NEW op, OneAtATime(b), Meets(b), Handled(a, op),
           Performs(a, op), UNCHANGED lib, Takes(a, op)
    PROVE  Meets(b)'
<1>1. Asked(b, "XCONNECT")' => Asked(b, "XCONNECT")
  BY TakesFacts
<1>2. CASE b # a \/ op # "XCONNECT"
  <2>1. Connected(b)' => Connected(b)
    BY <1>2, ConnectedStill
  <2> QED BY <1>1, <2>1 DEF Meets
<1>3. CASE b = a /\ op = "XCONNECT"
  <2>1. "XCONNECT" \in Requests /\ "XCONNECT" # ""
    BY DEF Requests
  <2>2. Asked(a, "XCONNECT") /\ None(toServer'[a], Requests)
    BY <1>3, <2>1, TakesFacts DEF OneAtATime
  <2>3. lib[a].stage = "new" /\ lib[a].awaits = "XCONNECT"
    <3>1. lib[a].stage = "new"
      BY <1>3, <2>2 DEF Meets
    <3>2. ~Dead(a)
      BY <3>1 DEF Dead
    <3> QED BY <1>3, <2>1, <2>2, <3>1, <3>2 DEF OneAtATime, Asked
  <2>4. ~Asked(a, "XCONNECT")'
    BY <2>1, <2>2 DEF Asked, None, Range
  <2> QED BY <1>3, <2>3, <2>4 DEF Meets
<1> QED BY <1>2, <1>3

\* The id of a new record is not in use.
LEMMA NewIdFresh ==
    ASSUME Typed, Records
    PROVE  new_id \notin DOMAIN clients
<1>1. CASE free_clients # <<>>
  <2>1. 1 \in DOMAIN free_clients /\ Head(free_clients) = free_clients[1]
    BY <1>1 DEF Typed, WireTypeOK
  <2> QED BY <1>1, <2>1, NewId DEF Records
<1>2. CASE free_clients = <<>>
  <2>1. new_id = last_id + 1 /\ last_id \in Nat /\ DOMAIN clients \subseteq 1 .. last_id
    BY <1>2, NewId DEF Typed, WireTypeOK
  <2> QED BY <2>1
<1> QED BY <1>1, <1>2

LEMMA HandledRecords ==
    ASSUME Typed, Records, NEW a \in App, NEW op, OneAtATime(a), Meets(a), Handled(a, op),
           Performs(a, op), Takes(a, op)
    PROVE  Records'
<1>1. CASE op \notin {"XCONNECT", "DISCONNECT"}
  BY <1>1, RecordsChange DEF SameRecords, Records
<1>2. CASE op = "XCONNECT"
  <2>1. ~Connected(a)
    <3>1. Asked(a, "XCONNECT")
      BY <1>2, TakesFacts DEF Requests
    <3> QED BY <3>1 DEF Meets
  <2> DEFINE f == free_clients
             g == free_clients'
  <2>2. /\ DOMAIN clients' = DOMAIN clients \cup {new_id} /\ new_id \notin DOMAIN clients
        /\ \A i \in DOMAIN clients' : clients'[i] = IF i = new_id THEN NewClient(a) ELSE clients[i]
        /\ g = IF f # <<>> THEN Tail(f) ELSE <<>>
    BY <1>2, RecordsChange, NewIdFresh
  <2>3. \A i, j \in DOMAIN clients' : clients'[i].win = clients'[j].win => i = j
    <3> SUFFICES ASSUME NEW i \in DOMAIN clients', NEW j \in DOMAIN clients',
                        clients'[i].win = clients'[j].win, i # j
                 PROVE  FALSE
      OBVIOUS
    <3>1. NewClient(a).win = a /\ \A k \in DOMAIN clients : clients[k].win # a
      BY <2>1 DEF NewClient, Connected
    <3> QED BY <2>2, <3>1 DEF Records
  <2>4. f \in Seq(1 .. last_id)
    BY DEF Typed, WireTypeOK
  <2>5. \A k \in DOMAIN g : k + 1 \in DOMAIN f /\ g[k] = f[k + 1] /\ k \in Int /\ k >= 1
    BY <2>2, <2>4
  <2>6. f # <<>> => new_id = f[1] /\ 1 \in DOMAIN f
    BY <2>4, NewId
  <2>7. \A k \in DOMAIN g : f # <<>>
    BY <2>2
  <2> HIDE DEF f, g
  <2>8. \A k, l \in DOMAIN g : g[k] = g[l] => k = l
    <3> SUFFICES ASSUME NEW k \in DOMAIN g, NEW l \in DOMAIN g, g[k] = g[l] PROVE k = l
      OBVIOUS
    <3>1. k + 1 = l + 1
      BY <2>5 DEF Records, f
    <3> QED BY <2>5, <3>1
  <2>9. \A k \in DOMAIN g : g[k] \notin DOMAIN clients'
    <3> SUFFICES ASSUME NEW k \in DOMAIN g PROVE g[k] \notin DOMAIN clients'
      OBVIOUS
    <3>1. g[k] = f[k + 1] /\ k + 1 \in DOMAIN f /\ k + 1 # 1 /\ new_id = f[1] /\ 1 \in DOMAIN f
      BY <2>5, <2>6, <2>7
    <3>2. f[k + 1] # f[1] /\ f[k + 1] \notin DOMAIN clients
      BY <3>1 DEF Records, f
    <3> QED BY <2>2, <3>1, <3>2
  <2> QED BY <2>3, <2>8, <2>9 DEF Records, g
<1>3. CASE op = "DISCONNECT"
  <2> DEFINE f == free_clients
             g == free_clients'
             i == id(a)
  <2>1. i \in DOMAIN clients
    BY <1>3, IdOf DEF Performs
  <2>2. /\ DOMAIN clients' = DOMAIN clients \ {i} /\ g = <<i>> \o f
        /\ \A j \in DOMAIN clients' : clients'[j] = clients[j]
    BY <1>3, RecordsChange
  <2>3. f \in Seq(1 .. last_id)
    BY DEF Typed, WireTypeOK
  <2> HIDE DEF i
  <2>4. \A k \in DOMAIN g : /\ k \in Int
                            /\ \/ k = 1 /\ g[k] = i
                               \/ k # 1 /\ k - 1 \in DOMAIN f /\ g[k] = f[k - 1]
    BY <2>2, <2>3
  <2> HIDE DEF f, g
  <2>5. \A k \in DOMAIN f : f[k] \notin DOMAIN clients
    BY DEF Records, f
  <2>6. \A k, l \in DOMAIN g : g[k] = g[l] => k = l
    <3> SUFFICES ASSUME NEW k \in DOMAIN g, NEW l \in DOMAIN g, g[k] = g[l] PROVE k = l
      OBVIOUS
    <3>1. CASE k = 1 \/ l = 1
      BY <2>1, <2>4, <2>5, <3>1
    <3>2. CASE k # 1 /\ l # 1
      <4>1. k - 1 = l - 1
        BY <2>4, <3>2 DEF Records, f
      <4> QED BY <2>4, <4>1
    <3> QED BY <3>1, <3>2
  <2>7. \A k \in DOMAIN g : g[k] \notin DOMAIN clients'
    BY <2>2, <2>4, <2>5
  <2>8. \A j, k \in DOMAIN clients' : clients'[j].win = clients'[k].win => j = k
    BY <2>2 DEF Records
  <2> QED BY <2>6, <2>7, <2>8 DEF Records, g
<1> QED BY <1>1, <1>2, <1>3

\* The IC of a client, while it has one, names its record.
Finds(b) == (server = "up" /\ ics[b] # NoIC) =>
                ics[b].connect_id \in DOMAIN clients /\ clients[ics[b].connect_id].win = b

LEMMA HandledFinds ==
    ASSUME Typed, Records, NEW a \in App, NEW b \in App, NEW op, Finds(b), Ends(a),
           Handled(a, op), Performs(a, op), Takes(a, op)
    PROVE  Finds(b)'
<1> SUFFICES ASSUME server' = "up", ics'[b] # NoIC
             PROVE  /\ ics'[b].connect_id \in DOMAIN clients'
                    /\ clients'[ics'[b].connect_id].win = b
  BY DEF Finds
<1>1. server = "up" /\ (op # "CREATE_IC" => ics[b] # NoIC /\ ics'[b].connect_id = ics[b].connect_id)
  BY DEF Handled, KeepsIcs
<1> DEFINE i == ics[b].connect_id
<1>2. ics[b] # NoIC => i \in DOMAIN clients /\ clients[i].win = b
  BY <1>1 DEF Finds
<1>3. CASE op = "XCONNECT"
  <2>1. /\ DOMAIN clients' = DOMAIN clients \cup {new_id} /\ new_id \notin DOMAIN clients
        /\ \A j \in DOMAIN clients' : clients'[j] = IF j = new_id THEN NewClient(a) ELSE clients[j]
    BY <1>3, RecordsChange, NewIdFresh
  <2> QED BY <1>1, <1>2, <1>3, <2>1
<1>4. CASE op = "DISCONNECT"
  <2>1. /\ DOMAIN clients' = DOMAIN clients \ {id(a)}
        /\ \A j \in DOMAIN clients' : clients'[j] = clients[j]
    BY <1>4, RecordsChange
  <2>2. clients[id(a)].win = a
    BY <1>4, IdOf DEF Performs
  <2>3. Asked(a, "DISCONNECT")
    BY <1>4, TakesFacts DEF Requests
  <2>4. ics[a] = NoIC
    BY <1>1, <2>3 DEF Ends, Over
  <2>5. b # a /\ i # id(a)
    BY <1>1, <1>2, <1>4, <2>2, <2>4
  <2> QED BY <1>1, <1>2, <1>4, <2>1, <2>5
<1>5. CASE op = "CREATE_IC"
  <2>1. SameRecords
    <3>1. op \notin {"XCONNECT", "DISCONNECT"}
      BY <1>5
    <3> QED BY <3>1 DEF Handled
  <2>2. id(a) \in DOMAIN clients /\ clients[id(a)].win = a
    BY <1>5, IdOf DEF Performs
  <2>3. ics' = [ics EXCEPT ![a] = [connect_id |-> id(a), connect |-> FALSE]]
    BY <1>1, <1>5 DEF Performs, CreateICMessageProc
  <2>4. CASE b = a
    <3>1. ics'[b].connect_id = id(a)
      BY <2>3, <2>4 DEF Typed, WireTypeOK
    <3> QED BY <2>1, <2>2, <2>4, <3>1 DEF SameRecords
  <2>5. CASE b # a
    <3>1. ics'[b] = ics[b]
      BY <2>3, <2>5 DEF Typed, WireTypeOK
    <3> QED BY <1>2, <2>1, <3>1 DEF SameRecords
  <2> QED BY <2>4, <2>5
<1>6. CASE op \notin {"XCONNECT", "DISCONNECT", "CREATE_IC"}
  BY <1>1, <1>2, <1>6, RecordsChange DEF SameRecords
<1> QED BY <1>3, <1>4, <1>5, <1>6

LEMMA HandledEnds ==
    ASSUME Typed, Records, NEW a \in App, NEW b \in App, NEW op, OneAtATime(b), Ends(b), Finds(b),
           Handled(a, op), Performs(a, op), UNCHANGED lib, Takes(a, op)
    PROVE  Ends(b)'
<1>1. PICK msgs : Answering(op, msgs) /\ Sent(a, msgs)
  BY DEF Handled
<1>2. /\ msgs \in Seq(Message)
      /\ \A x \in Range(msgs) : x.op = "REPLY" => x.to = op /\ op \in Requests
  BY <1>1 DEF Answering, Range
<1>3. /\ \A c \in App : c # a \/ Dead(a) => toClient'[c] = toClient[c]
      /\ ~Dead(a) => toClient'[a] = toClient[a] \o msgs
  BY <1>1, <1>2, NoneInto
<1>4. \A r : Asked(b, r)' => Asked(b, r)
  BY TakesFacts
<1>5. server' = "up" => server = "up"
  BY DEF Handled
<1>6. \A x \in Range(toClient'[b]) : x \in Range(toClient[b]) \/ (b = a /\ x \in Range(msgs))
  <2>1. CASE b # a \/ Dead(a)
    BY <1>3, <2>1
  <2>2. CASE b = a /\ ~Dead(a)
    <3>1. toClient[a] \in Seq(Message)
      BY DEF Typed
    <3>2. \A x \in Range(toClient[a] \o msgs) : x \in Range(toClient[a]) \/ x \in Range(msgs)
      BY <1>2, <3>1, JoinNone
    <3> QED BY <1>3, <2>2, <3>2
  <2> QED BY <2>1, <2>2
\* Only what closes or disconnects this client ends anything.
<1>7. CASE b # a \/ op \notin {"CLOSE", "DISCONNECT"}
  <2>1. Over(b)' => Over(b)
    <3>1. \A x \in Range(toClient'[b]) :
             x.op = "REPLY" /\ x.to \in {"CLOSE", "DISCONNECT"} => x \in Range(toClient[b])
      BY <1>2, <1>6, <1>7
    <3>2. lib'[b].stage = lib[b].stage
      OBVIOUS
    <3> QED BY <1>4, <3>1, <3>2 DEF Over
  <2>2. CASE b = a /\ op = "CREATE_IC"
    <3>1. Asked(a, "CREATE_IC")
      BY <2>2, TakesFacts DEF Requests
    <3> QED BY <2>1, <2>2, <3>1 DEF Ends
  <2>3. CASE b # a /\ op = "CREATE_IC"
    <3>1. ics'[b] = ics[b]
      BY <2>3 DEF Performs, CreateICMessageProc, Typed, WireTypeOK
    <3> QED BY <1>4, <1>5, <2>1, <3>1 DEF Ends
  <2>4. CASE op # "CREATE_IC"
    <3>1. ics[b] = NoIC => ics'[b] = NoIC
      BY <2>4 DEF Handled, KeepsIcs
    <3> QED BY <1>4, <1>5, <2>1, <3>1 DEF Ends
  <2> QED BY <2>2, <2>3, <2>4
<1>8. CASE b = a /\ op = "DISCONNECT"
  <2>1. Asked(a, "DISCONNECT")
    BY <1>8, TakesFacts DEF Requests
  <2>2. Over(a)
    BY <2>1 DEF Over
  <2>3. ics[b] = NoIC => ics'[b] = NoIC
    BY <1>8 DEF Handled, KeepsIcs
  <2> QED BY <1>4, <1>5, <1>8, <2>2, <2>3 DEF Ends
<1>9. CASE b = a /\ op = "CLOSE"
  <2>1. None(toServer'[a], Requests)
    BY <1>9, TakesFacts DEF Requests, OneAtATime
  <2>2. ~Asked(a, "CREATE_IC")'
    BY <2>1 DEF Asked, None, Range, Requests
  <2>3. ASSUME server' = "up" PROVE ics'[a] = NoIC
    <3>1. server = "up" /\ ics' = ic_clean_all(id(a)) /\ Connected(a)
      BY <1>5, <1>9, <2>3 DEF Performs, CloseMessageProc
    <3>2. ics'[a] = IF ics[a].connect_id = id(a) THEN NoIC ELSE ics[a]
      BY <3>1 DEF ic_clean_all
    <3>3. ics[a] # NoIC => ics[a].connect_id = id(a)
      BY <1>9, <3>1, IdOf DEF Finds, Records
    <3> QED BY <3>2, <3>3
  <2> QED BY <1>9, <2>2, <2>3 DEF Ends
<1> QED BY <1>7, <1>8, <1>9

\* A client whose keys wait owes an answer, or is dead.
Owed(a) == \/ Dead(a)
           \/ m("FORWARD_EVENT") \in Range(toClient[a])
           \/ lib[a].mark
           \/ m("SYNC_REPLY") \in Range(toServer[a])

LEMMA OwedIs == AnswerOwed <=> \A i \in DOMAIN clients : clients[i].sync => Owed(clients[i].win)
BY DEF AnswerOwed, Owed

LEMMA HandledOwed ==
    ASSUME Typed, Records, AnswerOwed, NEW a \in App, NEW op, Handled(a, op), Performs(a, op),
           UNCHANGED lib, Takes(a, op)
    PROVE  AnswerOwed'
<1>1. PICK msgs : Answering(op, msgs) /\ Sent(a, msgs)
  BY DEF Handled
<1>2. msgs \in Seq(Message)
  BY <1>1 DEF Answering
<1>3. \A b \in App : \A x \in Range(toClient[b]) : x \in Range(toClient'[b])
  <2> SUFFICES ASSUME NEW b \in App, NEW x \in Range(toClient[b]) PROVE x \in Range(toClient'[b])
    OBVIOUS
  <2>1. CASE b # a \/ Dead(a)
    BY <1>1, <1>2, <2>1, NoneInto
  <2>2. CASE b = a /\ ~Dead(a)
    <3>1. toClient[a] \in Seq(Message)
      BY DEF Typed
    <3>2. x \in Range(toClient[a] \o msgs)
      BY <1>2, <2>2, <3>1, JoinNone
    <3> QED BY <1>1, <1>2, <2>2, <3>2, NoneInto
  <2> QED BY <2>1, <2>2
<1>4. m("SYNC_REPLY").op = "SYNC_REPLY"
  BY DEF m
\* An answer still on its way is, unless it is the one just taken.
<1>5. \A b \in App : Owed(b) => Owed(b)' \/ (b = a /\ op = "SYNC_REPLY")
  BY <1>3, <1>4, TakesFacts DEF Owed, Dead
<1>6. ASSUME NEW i \in DOMAIN clients', clients'[i].sync, NEW b \in App, clients'[i].win = b
      PROVE  Owed(b)'
  <2>1. CASE clients'[i].win = a /\ (Dead(a) \/ m("FORWARD_EVENT") \in Range(toClient'[a]))
    BY <1>6, <2>1 DEF Owed, Dead
  <2>2. CASE i \in DOMAIN clients /\ clients[i].sync /\ clients[i].win = clients'[i].win
    <3>1. Owed(b) /\ clients[i].win = b
      BY <1>6, <2>2, OwedIs
    <3>2. CASE clients[i].win = a /\ op = "SYNC_REPLY"
      <4>1. i = id(a) /\ SyncReplyMessageProc(a)
        BY <2>2, <3>2, IdOf DEF Performs, Records
      <4>2. clients[i] \in Record
        BY <2>2 DEF Typed, WireTypeOK, Record
      <4>3. clients'[i] = answered(clients[i])
        BY <2>2, <4>1 DEF SyncReplyMessageProc
      <4>4. ~clients'[i].sync
        <5>1. \A r \in Record : ~[r EXCEPT !.sync = FALSE].sync
          BY DEF Record
        <5> QED BY <4>2, <4>3, <5>1 DEF answered
      <4> QED BY <1>6, <4>4
    <3> QED BY <1>5, <2>2, <3>1, <3>2
  <2>3. Owing(a)
    BY DEF Handled
  <2> QED BY <1>6, <2>1, <2>2, <2>3 DEF Owing
<1>7. \A i \in DOMAIN clients' : clients'[i].win \in App
  BY DEF Handled, WireTypeOK
<1> QED BY <1>6, <1>7 DEF AnswerOwed, Owed

LEMMA ClientOwed ==
    ASSUME Typed, AnswerOwed, NEW a \in App, Others(a), OneAtATime(a), UNCHANGED clients,
           \/ \E r \in Requests : Asks(a, r)
           \/ \E x \in Message : x.op \notin Requests /\ Tells(a, x)
           \/ Hears(a)
           \/ Dies(a)
    PROVE  AnswerOwed'
<1>0. toServer[a] \in Seq(Message) /\ toClient[a] \in Seq(Message) /\ lib[a] \in Client
  BY DEF Typed
<1>1. \A b \in App : b # a => (Owed(b) => Owed(b)')
  BY DEF Others, Owed, Dead
<1>2. ASSUME NEW r \in Requests, Asks(a, r), Owed(a) PROVE Owed(a)'
  <2>1. m(r) \in Message
    BY Sayings
  <2>2. \A y \in Range(toServer[a]) : y \in Range(Append(toServer[a], m(r)))
    BY <1>0, <2>1, AppendNone
  <2> QED BY <1>2, <2>2 DEF Asks, Owed, Dead
<1>3. ASSUME NEW x \in Message, Tells(a, x), Owed(a) PROVE Owed(a)'
  <2>1. \A y \in Range(toServer[a]) \cup {x} : y \in Range(Append(toServer[a], x))
    BY <1>0, AppendNone
  <2> QED BY <1>3, <2>1 DEF Tells, Owed, Dead
<1>4. ASSUME Hears(a), Owed(a) PROVE Owed(a)'
  <2> DEFINE x == Head(toClient[a])
             t == Tail(toClient[a])
  <2>1. /\ toClient[a] # <<>> /\ toClient'[a] = t /\ toServer' = toServer
        /\ lib'[a] = heard(lib[a], x)
    BY <1>4 DEF Hears
  <2>2. \A y \in Range(toClient[a]) : y = x \/ y \in Range(t)
    BY <1>0, <2>1, TailNone
  <2>3. x \in Message
    BY <1>0, <2>1
  <2>4. ~Dead(a)
    BY <2>1 DEF OneAtATime
  <2> HIDE DEF x, t
  <2>5. lib[a].mark \/ x.op = "FORWARD_EVENT" => lib'[a].mark
    BY <1>0, <2>1, <2>3, HeardTyped
  <2>6. m("FORWARD_EVENT").op = "FORWARD_EVENT"
    BY DEF m
  <2> QED BY <1>4, <2>1, <2>2, <2>4, <2>5, <2>6 DEF Owed
<1>5. ASSUME Dies(a) PROVE Owed(a)'
  BY <1>5 DEF Dies, Owed, Dead
<1>6. \A b \in App : Owed(b) => Owed(b)'
  BY <1>1, <1>2, <1>3, <1>4, <1>5
<1>7. \A i \in DOMAIN clients : clients[i].win \in App
  BY DEF Typed, WireTypeOK
<1> QED BY <1>6, <1>7 DEF AnswerOwed, Owed

-----------------------------------------------------------------------------
(***************************************************************************)
(* The invariant, and what follows from it.                                *)
(***************************************************************************)
ClientInv(b) == OneAtATime(b) /\ Meets(b) /\ Ends(b) /\ Finds(b)

IInv == Typed /\ Records /\ AnswerOwed /\ \A b \in App : ClientInv(b)

LEMMA InitIInv == Init => IInv
<1> SUFFICES ASSUME Init PROVE IInv
  OBVIOUS
<1>1. Typed
  BY InitTyped
<1>2. DOMAIN clients = {} /\ free_clients = <<>> /\ DOMAIN free_clients = {}
  BY DEF Init
<1>3. Records /\ AnswerOwed
  BY <1>2 DEF Records, AnswerOwed
<1>4. ASSUME NEW b \in App PROVE ClientInv(b)
  <2>1. /\ toServer[b] = <<>> /\ toClient[b] = <<>> /\ lib[b].stage = "new" /\ lib[b].awaits = ""
        /\ ics[b] = NoIC
    BY DEF Init, Unborn
  <2>2. /\ Range(toServer[b]) = {} /\ Range(toClient[b]) = {}
        /\ Once(toServer[b], Requests) /\ None(toServer[b], Requests)
        /\ Once(toClient[b], {"REPLY"})
    <3>1. Range(<<>>) = {}
      BY DEF Range
    <3>2. Once(<<>>, Requests) /\ None(<<>>, Requests) /\ Once(<<>>, {"REPLY"})
      BY DEF Once, None
    <3> QED BY <2>1, <3>1, <3>2
  <2> QED BY <1>2, <2>1, <2>2
             DEF ClientInv, OneAtATime, Dead, Meets, Connected, Asked, Ends, Over, Finds
<1> QED BY <1>1, <1>3, <1>4 DEF IInv

LEMMA ServesIInv ==
    ASSUME IInv, Typed', NEW a \in App, NEW op, Handled(a, op), Performs(a, op),
           UNCHANGED lib, Takes(a, op)
    PROVE  IInv'
<1>1. Typed /\ Records /\ AnswerOwed /\ \A b \in App : OneAtATime(b) /\ Meets(b) /\ Ends(b) /\ Finds(b)
  BY DEF IInv, ClientInv
<1>2. Records'
  BY <1>1, HandledRecords
<1>3. AnswerOwed'
  BY <1>1, HandledOwed
<1>4. ASSUME NEW b \in App PROVE ClientInv(b)'
  <2>1. OneAtATime(b)'
    BY <1>1, HandledOne
  <2>2. Meets(b)'
    BY <1>1, HandledMeets
  <2>3. Ends(b)'
    BY <1>1, HandledEnds
  <2>4. Finds(b)'
    BY <1>1, HandledFinds
  <2> QED BY <2>1, <2>2, <2>3, <2>4 DEF ClientInv
<1> QED BY <1>2, <1>3, <1>4 DEF IInv

\* Between the records and the clients nothing moves.
LEMMA StillIInv ==
    ASSUME IInv, Typed', UNCHANGED <<clients, free_clients, ics, lib, toServer, toClient>>,
           server' = "up" => server = "up"
    PROVE  IInv'
<1>1. Records' /\ AnswerOwed'
  BY DEF IInv, Records, AnswerOwed, Dead
<1>2. ASSUME NEW b \in App PROVE ClientInv(b)'
  <2>1. OneAtATime(b)' /\ Meets(b)' /\ Ends(b)'
    <3>1. OneAtATime(b) /\ Meets(b) /\ Ends(b)
      BY DEF IInv, ClientInv
    <3>2. OneAtATime(b)'
      BY <3>1 DEF OneAtATime, Dead
    <3>3. Meets(b)'
      BY <3>1 DEF Meets, Connected, Asked
    <3>4. Over(b)' => Over(b)
      BY DEF Over, Asked
    <3>5. Ends(b)'
      BY <3>1, <3>4 DEF Ends, Asked
    <3> QED BY <3>2, <3>3, <3>5
  <2>2. Finds(b)'
    BY DEF IInv, ClientInv, Finds
  <2> QED BY <2>1, <2>2 DEF ClientInv
<1> QED BY <1>1, <1>2 DEF IInv

LEMMA ServerIInv ==
    ASSUME IInv, ServerActs
    PROVE  IInv'
<1>1. Typed /\ Typed'
  BY ServerTyped DEF IInv
<1>2. ASSUME NEW a \in App, Receive(a) PROVE IInv'
  <2> DEFINE op == Head(toServer[a]).op
  <2>1. Handled(a, op) /\ Performs(a, op) /\ UNCHANGED lib /\ Takes(a, op)
    BY <1>1, <1>2, ReceiveStep DEF Performs, Takes
  <2> HIDE DEF op
  <2> QED BY <1>1, <2>1, ServesIInv
<1>3. CASE ProcessQueue
  <2>1. UNCHANGED <<toServer, lib>> /\ UNCHANGED lib
    BY <1>1, <1>3, QueueStep
  <2>2. ASSUME NEW a \in App, Handled(a, "FORWARD_EVENT") PROVE IInv'
    <3>1. Performs(a, "FORWARD_EVENT") /\ Takes(a, "FORWARD_EVENT")
      BY <2>1, Sayings DEF Performs, Takes
    <3> QED BY <1>1, <2>1, <2>2, <3>1, ServesIInv
  <2> QED BY <1>1, <1>3, <2>2, QueueStep, StillIInv
<1>4. CASE XimClose
  <2>1. UNCHANGED <<toServer, lib>> /\ UNCHANGED lib
    BY <1>1, <1>4, CloseStep
  <2>2. ASSUME NEW a \in App, Handled(a, "EXIT") PROVE IInv'
    <3>1. Performs(a, "EXIT") /\ Takes(a, "EXIT")
      BY <2>1 DEF Performs, Takes, Requests
    <3> QED BY <1>1, <2>1, <2>2, <3>1, ServesIInv
  <2> QED BY <1>1, <1>4, <2>2, CloseStep, StillIInv DEF core
<1> QED BY <1>2, <1>3, <1>4 DEF ServerActs

LEMMA ClientIInv ==
    ASSUME IInv, NEW a \in App, ClientActs(a)
    PROVE  IInv'
<1>1. Typed /\ Typed' /\ AnswerOwed /\ OneAtATime(a)
  BY ClientTyped DEF IInv, ClientInv
<1>2. /\ Others(a)
      /\ \/ \E r \in Requests : Asks(a, r)
         \/ \E x \in Message : x.op \notin Requests /\ Tells(a, x)
         \/ Hears(a)
         \/ Dies(a)
  BY <1>1, ClientForms
<1>3. UNCHANGED <<clients, free_clients, ics, server>>
  BY ClientKeeps DEF core
<1>4. Records'
  BY <1>3 DEF IInv, Records
<1>5. AnswerOwed'
  BY <1>1, <1>2, <1>3, ClientOwed
<1>6. ASSUME NEW b \in App PROVE ClientInv(b)'
  <2>1. OneAtATime(b) /\ Meets(b) /\ Ends(b) /\ Finds(b)
    BY DEF IInv, ClientInv
  <2>2. OneAtATime(b)'
    BY <1>1, <1>2, <2>1, ClientOne
  <2>3. Meets(b)'
    BY <1>1, <1>2, <1>3, <2>1, ClientMeets
  <2>4. Ends(b)'
    BY <1>1, <1>2, <1>3, <2>1, ClientEnds
  <2>5. Finds(b)'
    BY <1>3, <2>1 DEF Finds
  <2> QED BY <2>2, <2>3, <2>4, <2>5 DEF ClientInv
<1> QED BY <1>1, <1>4, <1>5, <1>6 DEF IInv

LEMMA NextIInv ==
    ASSUME IInv, [Next]_vars
    PROVE  IInv'
<1>1. CASE ServerActs
  BY <1>1, ServerIInv
<1>2. ASSUME NEW a \in App, ClientActs(a) PROVE IInv'
  BY <1>2, ClientIInv
<1>3. CASE UNCHANGED vars
  <2>1. UNCHANGED <<clients, free_clients, last_id, processing, ims_sync, ics, server, toServer,
                    toClient, lib, handled>>
    BY <1>3 DEF vars, core
  <2>2. Typed'
    BY <2>1 DEF IInv, Typed, WireTypeOK
  <2> QED BY <2>1, <2>2, StillIInv
<1> QED BY <1>1, <1>2, <1>3, NextActs

\* A client whose keys wait in the queue owes the answer that lets them out, for
\* every number of clients: the flag and the key given back go together.
THEOREM AnswersOwed == Spec => []AnswerOwed
<1>1. IInv /\ [Next]_vars => IInv'
  BY NextIInv
<1>2. IInv => AnswerOwed
  BY DEF IInv
<1> QED BY InitIInv, <1>1, <1>2, PTL DEF Spec

\* While xcin is up, what it sends for an IC goes to the client that made it:
\* the record of a client outlives its IC, and an id is used again only after.
THEOREM IcsFindClients == Spec => []IcFindsClient
<1>1. IInv /\ [Next]_vars => IInv'
  BY NextIInv
<1>2. IInv => IcFindsClient
  BY DEF IInv, ClientInv, Finds, Records, IcFindsClient, Range
<1> QED BY InitIInv, <1>1, <1>2, PTL DEF Spec
=============================================================================
