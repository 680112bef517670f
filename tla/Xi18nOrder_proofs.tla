-------------------------- MODULE Xi18nOrder_proofs --------------------------
(***************************************************************************)
(* Proofs about the order of the messages: the keys of a client are        *)
(* handled one by one as they were typed, which is the refinement of       *)
(* KeyChannel, and the event mask that is on its way to a client is that   *)
(* of its IC.                                                              *)
(*                                                                         *)
(* Both rest on what a client does while it waits for a reply: nothing.    *)
(* So a request is the last message of its queue (Behaves), no key comes   *)
(* after DISCONNECT, and no mask after the reply that ends an IC.          *)
(***************************************************************************)
EXTENDS Xi18n_proofs, WellFoundedInduction

-----------------------------------------------------------------------------
(***************************************************************************)
(* The keys of a queue.                                                    *)
(***************************************************************************)
LEMMA LeastElement ==
    ASSUME NEW S \in SUBSET Nat, S # {}
    PROVE  \E n \in S : \A k \in S : n <= k
<1>1. PICK n \in S : \A k \in S : ~(<<k, n>> \in OpToRel(<, Nat))
  BY NatLessThanWellFounded, WFMin
<1>2. \A k \in S : ~(k < n)
  BY <1>1 DEF OpToRel
<1> QED BY <1>2

IsKey(x) == x.op = "FORWARD_EVENT"

\* The keys u, and then that of the message x if it is one.
with(u, x) == IF IsKey(x) THEN Append(u, x.n) ELSE u

\* f[k] are the keys among the first k messages of s, up to N.
Walk(s, f, N) ==
    /\ f \in [0 .. N -> Seq(Nat)] /\ f[0] = <<>>
    /\ \A k \in 1 .. N : f[k] = with(f[k - 1], s[k])

LEMMA WithTyped ==
    ASSUME NEW u \in Seq(Nat), NEW x \in Message
    PROVE  with(u, x) \in Seq(Nat)
<1>1. x.n \in Nat
  BY DEF Message
<1> QED BY <1>1 DEF with

further(s, f, N) == [k \in 0 .. N |-> IF k < N THEN f[k] ELSE with(f[N - 1], s[N])]

\* A walk of N - 1 messages is taken one further.
LEMMA WalkOn ==
    ASSUME NEW s, NEW N \in Nat \ {0}, NEW f, Walk(s, f, N - 1), s[N] \in Message
    PROVE  Walk(s, further(s, f, N), N)
<1> DEFINE last == with(f[N - 1], s[N])
           g == [k \in 0 .. N |-> IF k < N THEN f[k] ELSE last]
<1>0. further(s, f, N) = g
  BY DEF further
<1>1. f \in [0 .. N - 1 -> Seq(Nat)] /\ f[0] = <<>>
      /\ \A k \in 1 .. N - 1 : f[k] = with(f[k - 1], s[k])
  BY DEF Walk
<1>2. last \in Seq(Nat)
  BY <1>1, WithTyped
<1>3. /\ \A k \in 0 .. N - 1 : g[k] = f[k]
      /\ g[N] = last
  OBVIOUS
<1>4. g \in [0 .. N -> Seq(Nat)]
  BY <1>1, <1>2
<1>5. last = with(f[N - 1], s[N]) /\ g[N - 1] = f[N - 1]
  BY <1>3
<1> HIDE DEF last, g
<1>6. \A k \in 1 .. N : g[k] = with(g[k - 1], s[k])
  <2> SUFFICES ASSUME NEW k \in 1 .. N PROVE g[k] = with(g[k - 1], s[k])
    OBVIOUS
  <2>1. CASE k = N
    BY <1>3, <1>5, <2>1
  <2>2. CASE k # N
    <3>1. k \in 0 .. N - 1 /\ k - 1 \in 0 .. N - 1 /\ k \in 1 .. N - 1
      BY <2>2
    <3> QED BY <1>1, <1>3, <3>1
  <2> QED BY <2>1, <2>2
<1>7. g[0] = <<>>
  BY <1>1, <1>3
<1>8. Walk(s, g, N)
  BY <1>4, <1>6, <1>7 DEF Walk
<1> QED BY <1>0, <1>8

LEMMA WalkExists ==
    ASSUME NEW s \in Seq(Message)
    PROVE  \E f : Walk(s, f, Len(s))
<1> DEFINE Short == {N \in 0 .. Len(s) : ~\E f : Walk(s, f, N)}
<1> SUFFICES ASSUME Short # {} PROVE FALSE
  <2>1. Len(s) \in 0 .. Len(s)
    OBVIOUS
  <2> QED BY <2>1
<1>1. Short \in SUBSET Nat
  OBVIOUS
<1>2. PICK N \in Short : \A k \in Short : N <= k
  BY <1>1, LeastElement
<1>3. N # 0
  <2>1. Walk(s, [k \in 0 .. 0 |-> <<>>], 0)
    BY DEF Walk
  <2> QED BY <2>1
<1>4. N \in Nat \ {0} /\ N - 1 \in 0 .. Len(s) /\ N \in 1 .. Len(s) /\ ~(N <= N - 1)
  BY <1>3
<1>5. PICK f : Walk(s, f, N - 1)
  BY <1>2, <1>4
<1>6. s[N] \in Message
  BY <1>4
<1>7. \E g : Walk(s, g, N)
  BY <1>4, <1>5, <1>6, WalkOn
<1> QED BY <1>2, <1>7

LEMMA WalkIsKeys ==
    ASSUME NEW s \in Seq(Message), NEW f, Walk(s, f, Len(s))
    PROVE  keys_of(s) = f[Len(s)]
<1> DEFINE N == Len(s)
           body(h) == [k \in 0 .. N |-> IF k = 0 THEN <<>>
                                        ELSE IF s[k].op = "FORWARD_EVENT"
                                             THEN Append(h[k - 1], s[k].n) ELSE h[k - 1]]
           keys == CHOOSE h : h = body(h)
<1>1. keys_of(s) = keys[N]
  BY DEF keys_of
<1>2. N \in Nat
  OBVIOUS
<1> HIDE DEF N
<1>3. /\ f \in [0 .. N -> Seq(Nat)] /\ f[0] = <<>>
      /\ \A k \in 1 .. N : f[k] = with(f[k - 1], s[k])
  BY DEF Walk, N
<1>4. f = body(f)
  <2>1. \A k \in 0 .. N : f[k] = body(f)[k]
    <3> SUFFICES ASSUME NEW k \in 0 .. N PROVE f[k] = body(f)[k]
      OBVIOUS
    <3>1. CASE k = 0
      BY <1>3, <3>1
    <3>2. CASE k # 0
      <4>1. k \in 1 .. N
        BY <1>2, <3>2
      <4>2. f[k] = with(f[k - 1], s[k])
        BY <1>3, <4>1
      <4>3. body(f)[k] = IF s[k].op = "FORWARD_EVENT" THEN Append(f[k - 1], s[k].n) ELSE f[k - 1]
        BY <3>2
      <4> QED BY <4>2, <4>3 DEF with, IsKey
    <3> QED BY <3>1, <3>2
  <2>2. DOMAIN f = 0 .. N /\ DOMAIN body(f) = 0 .. N
    BY <1>3
  <2>3. f = [k \in 0 .. N |-> f[k]]
    BY <1>3
  <2> QED BY <2>1, <2>3
<1>5. keys = body(keys)
  BY <1>4
<1> HIDE DEF keys
<1>6. /\ 0 \in 0 .. N /\ keys[0] = <<>>
      /\ \A k \in 1 .. N : keys[k] = with(keys[k - 1], s[k])
  <2>1. 0 \in 0 .. N
    BY <1>2
  <2>2. keys[0] = body(keys)[0] /\ body(keys)[0] = <<>>
    BY <1>5, <2>1
  <2>3. ASSUME NEW k \in 1 .. N PROVE keys[k] = with(keys[k - 1], s[k])
    <3>1. k \in 0 .. N /\ k # 0
      BY <1>2
    <3>2. keys[k] = body(keys)[k]
      BY <1>5
    <3>3. body(keys)[k] = IF s[k].op = "FORWARD_EVENT" THEN Append(keys[k - 1], s[k].n)
                                                       ELSE keys[k - 1]
      BY <3>1
    <3> QED BY <3>2, <3>3 DEF with, IsKey
  <2> QED BY <2>1, <2>2, <2>3
<1> DEFINE Off == {k \in 0 .. N : keys[k] # f[k]}
<1>7. ASSUME Off # {} PROVE FALSE
  <2>1. Off \in SUBSET Nat
    BY <1>2
  <2>2. PICK k \in Off : \A l \in Off : k <= l
    BY <1>7, <2>1, LeastElement
  <2>3. k # 0
    BY <1>3, <1>6
  <2>4. k \in 1 .. N /\ k - 1 \in 0 .. N /\ ~(k <= k - 1)
    BY <1>2, <2>3
  <2>5. keys[k - 1] = f[k - 1]
    BY <2>2, <2>4
  <2> QED BY <1>3, <1>6, <2>2, <2>4, <2>5
<1>8. keys[N] = f[N]
  BY <1>2, <1>7
<1> QED BY <1>1, <1>8 DEF N

LEMMA KeysTyped ==
    ASSUME NEW s \in Seq(Message)
    PROVE  keys_of(s) \in Seq(Nat)
<1>1. PICK f : Walk(s, f, Len(s))
  BY WalkExists
<1>2. f[Len(s)] \in Seq(Nat)
  BY <1>1 DEF Walk
<1> QED BY <1>1, <1>2, WalkIsKeys

LEMMA KeysEmpty == keys_of(<<>>) = <<>>
<1> DEFINE f == [k \in 0 .. 0 |-> <<>>]
<1>1. Walk(<<>>, f, Len(<<>>)) /\ f[Len(<<>>)] = <<>> /\ <<>> \in Seq(Message)
  BY DEF Walk
<1> HIDE DEF f
<1> QED BY <1>1, WalkIsKeys

LEMMA KeysAppend ==
    ASSUME NEW s \in Seq(Message), NEW x \in Message
    PROVE  keys_of(Append(s, x)) = with(keys_of(s), x)
<1> DEFINE t == Append(s, x)
           N == Len(s) + 1
<1>1. /\ t \in Seq(Message) /\ Len(t) = N /\ t[N] = x /\ N \in Nat \ {0} /\ N - 1 = Len(s)
      /\ \A k \in 1 .. N - 1 : t[k] = s[k]
  OBVIOUS
<1> HIDE DEF t, N
<1>2. PICK f : Walk(s, f, N - 1)
  BY <1>1, WalkExists
<1>3. Walk(t, f, N - 1)
  BY <1>1, <1>2 DEF Walk
<1> DEFINE g == further(t, f, N)
<1>4. Walk(t, g, N)
  BY <1>1, <1>3, WalkOn
<1>5. g[N] = with(f[N - 1], x)
  BY <1>1 DEF further
<1> HIDE DEF g
<1>6. keys_of(t) = g[N] /\ keys_of(s) = f[N - 1]
  BY <1>1, <1>2, <1>4, WalkIsKeys
<1> QED BY <1>5, <1>6 DEF t

LEMMA KeysTail ==
    ASSUME NEW s \in Seq(Message), s # <<>>
    PROVE  keys_of(s) = with(<<>>, Head(s)) \o keys_of(Tail(s))
<1> DEFINE t == Tail(s)
           N == Len(s)
           pre == with(<<>>, Head(s))
<1>1. /\ t \in Seq(Message) /\ Len(t) = N - 1 /\ N \in Nat \ {0} /\ Head(s) = s[1]
      /\ Head(s) \in Message /\ <<>> \in Seq(Nat)
      /\ \A k \in 1 .. N - 1 : t[k] = s[k + 1] /\ t[k] \in Message
  OBVIOUS
<1>2. pre \in Seq(Nat) /\ pre = with(<<>>, s[1])
  BY <1>1, WithTyped
<1> HIDE DEF t, N, pre
<1>3. PICK f : Walk(t, f, N - 1)
  BY <1>1, WalkExists
<1>4. /\ f \in [0 .. N - 1 -> Seq(Nat)] /\ f[0] = <<>>
      /\ \A k \in 1 .. N - 1 : f[k] = with(f[k - 1], t[k])
  BY <1>3 DEF Walk
<1> DEFINE h(k) == pre \o f[k - 1]
           none == <<>>
           g == [k \in 0 .. N |-> IF k = 0 THEN none ELSE h(k)]
<1>5. /\ g \in [0 .. N -> Seq(Nat)] /\ g[0] = <<>>
      /\ \A k \in 1 .. N : g[k] = pre \o f[k - 1]
  <2>1. \A k \in 1 .. N : h(k) \in Seq(Nat)
    <3>1. \A k \in 1 .. N : f[k - 1] \in Seq(Nat)
      BY <1>1, <1>4
    <3> QED BY <1>2, <3>1
  <2>2. none \in Seq(Nat)
    BY <1>1
  <2>3. \A k \in 1 .. N : h(k) = pre \o f[k - 1]
    OBVIOUS
  <2> HIDE DEF h, none
  <2>4. g \in [0 .. N -> Seq(Nat)] /\ g[0] = none /\ \A k \in 1 .. N : g[k] = h(k)
    BY <1>1, <2>1, <2>2
  <2> QED BY <2>3, <2>4 DEF none
<1> HIDE DEF g
<1>6. \A u \in Seq(Nat), x \in Message : pre \o with(u, x) = with(pre \o u, x)
  <2>1. \A u \in Seq(Nat), n \in Nat : pre \o Append(u, n) = Append(pre \o u, n)
    BY <1>2
  <2> QED BY <2>1 DEF with, Message
<1>7. \A k \in 1 .. N : g[k] = with(g[k - 1], s[k])
  <2> SUFFICES ASSUME NEW k \in 1 .. N PROVE g[k] = with(g[k - 1], s[k])
    OBVIOUS
  <2>1. CASE k = 1
    <3>1. g[1] = pre \o <<>> /\ g[0] = <<>>
      <4>1. 1 \in 1 .. N /\ 1 - 1 = 0
        BY <1>1
      <4>2. g[1] = pre \o f[0]
        BY <1>5, <4>1
      <4> QED BY <1>4, <1>5, <4>2
    <3>2. pre \o <<>> = pre
      BY <1>2
    <3> QED BY <1>2, <2>1, <3>1, <3>2
  <2>2. CASE k # 1
    <3>1. k - 1 \in 1 .. N - 1 /\ k - 2 \in 0 .. N - 1 /\ (k - 1) - 1 = k - 2 /\ (k - 1) + 1 = k
      BY <1>1, <2>2
    <3>2. f[k - 1] = with(f[k - 2], s[k]) /\ f[k - 2] \in Seq(Nat) /\ s[k] \in Message
      BY <1>1, <1>4, <3>1
    <3>3. g[k] = pre \o f[k - 1] /\ g[k - 1] = pre \o f[k - 2]
      <4>1. k - 1 \in 1 .. N
        BY <1>1, <3>1
      <4>2. g[k - 1] = pre \o f[(k - 1) - 1]
        BY <1>5, <4>1
      <4> QED BY <1>5, <3>1, <4>2
    <3> QED BY <1>6, <3>2, <3>3
  <2> QED BY <2>1, <2>2
<1>8. Walk(s, g, N) /\ g[N] = pre \o f[N - 1]
  <2>1. N \in 1 .. N
    BY <1>1
  <2>2. g[N] = pre \o f[N - 1]
    BY <1>5, <2>1
  <2>3. Walk(s, g, N)
    BY <1>5, <1>7 DEF Walk
  <2> QED BY <2>2, <2>3
<1>9. keys_of(s) = g[N] /\ keys_of(t) = f[N - 1]
  BY <1>1, <1>3, <1>8, WalkIsKeys DEF N
<1> QED BY <1>8, <1>9 DEF t, pre

-----------------------------------------------------------------------------
(***************************************************************************)
(* What a client does, and what it does not do while it waits.             *)
(***************************************************************************)
\* The messages at which the server may connect or disconnect an IC.
Steers == {"SET_IC_FOCUS", "TRIGGER_NOTIFY"}

Behaves(a) ==
    /\ lib[a].focus => /\ lib[a].stage = "ic"
                       /\ lib[a].awaits # "" => after(lib[a].awaits) = "ic"
    /\ Dead(a) => ~lib[a].mark
    /\ lib[a].awaits # "" =>
          /\ lib[a].stage \in before(lib[a].awaits)
          /\ toServer[a] = <<>> \/ toServer[a][Len(toServer[a])].op \in Requests
    /\ ~None(toClient[a], {"REPLY"}) => toServer[a] = <<>>
    /\ \A k \in DOMAIN toServer[a] :
          toServer[a][k].op = "DISCONNECT" => k = Len(toServer[a])
    /\ lib[a].stage \notin {"ic", "dead"} => None(toServer[a], Steers)

Requesting(a, r) ==
    /\ Asks(a, r)
    /\ lib'[a].focus => lib[a].focus /\ after(r) = "ic"
    /\ lib'[a].mask = lib[a].mask /\ lib'[a].typed = lib[a].typed

Telling(a, x) ==
    /\ Tells(a, x) /\ x.op \notin Requests
    /\ lib[a].awaits = "" /\ ~Dead(a)
    /\ x.op = "SET_IC_FOCUS" \/ lib'[a].focus => lib[a].stage = "ic"
    /\ lib'[a].mask = lib[a].mask
    /\ IF IsKey(x) THEN /\ lib[a].stage = "ic" /\ x.n = lib[a].typed + 1
                        /\ lib'[a].typed = lib[a].typed + 1
                   ELSE lib'[a].typed = lib[a].typed

Dying(a) ==
    /\ Dies(a) /\ ~lib'[a].focus /\ ~lib'[a].mark /\ lib'[a].typed = lib[a].typed

Speaks(a) ==
    \/ \E r \in Requests : Requesting(a, r)
    \/ \E x \in Message : Telling(a, x)
    \/ Hears(a)
    \/ Dying(a)

\* What a client says changes its record and the tail of its queue.
LEMMA LibOf ==
    ASSUME Typed, NEW a \in App, NEW l \in Client, lib' = [lib EXCEPT ![a] = l]
    PROVE  lib'[a] = l /\ \A b \in App : b # a => lib'[b] = lib[b]
BY DEF Typed

LEMMA ClientSpeaks ==
    ASSUME Typed, NEW a \in App, ClientActs(a), Behaves(a)
    PROVE  Others(a) /\ Speaks(a)
<1> DEFINE l == lib[a]
<1>0. Others(a)
  BY ClientForms
<1>t. /\ l \in Client /\ toServer \in [App -> Seq(Message)] /\ lib \in [App -> Client]
      /\ DOMAIN lib = App
  BY DEF Typed
<1>1. ASSUME NEW r \in Requests, Request(a, r) PROVE Requesting(a, r)
  <2>1. /\ Says(a, m(r)) /\ m(r) \in Message /\ UNCHANGED toClient /\ l.awaits = ""
        /\ l.stage \in before(r)
        /\ lib' = [lib EXCEPT ![a].awaits = r, ![a].focus = @ /\ after(r) = "ic"]
    BY <1>1, Sayings DEF Request, Free
  <2>2. /\ lib'[a].awaits = r /\ lib'[a].stage = l.stage /\ lib'[a].mark = l.mark
        /\ lib'[a].mask = l.mask /\ lib'[a].typed = l.typed
    BY <1>t, <2>1 DEF Client
  <2>3. lib'[a].focus = (l.focus /\ after(r) = "ic")
    BY <1>t, <2>1 DEF Client
  <2> QED BY <2>1, <2>2, <2>3, SaysTyped DEF Asks, Requesting
<1>2. ASSUME NEW r \in Notices, Notice(a, r) PROVE m(r) \in Message /\ Telling(a, m(r))
  <2>1. /\ Says(a, m(r)) /\ m(r) \in Message /\ m(r).op = r /\ UNCHANGED <<toClient, lib>>
        /\ l.awaits = "" /\ l.stage = "ic"
    BY <1>2, Sayings DEF Notice, Free
  <2>2. r \notin Requests /\ r # "FORWARD_EVENT"
    BY Sayings DEF Notices
  <2>3. toServer'[a] = Append(toServer[a], m(r))
    BY <2>1, SaysTyped
  <2> QED BY <2>1, <2>2, <2>3 DEF Tells, Telling, IsKey, Dead
<1>3. ASSUME Focus(a) PROVE \E x \in Message : Telling(a, x)
  <2>1. PICK y \in {"SET_IC_FOCUS", "UNSET_IC_FOCUS"} : Says(a, m(y))
    BY <1>3 DEF Focus
  <2>2. m(y) \in Message /\ m(y).op = y /\ y \notin Requests
    BY Sayings
  <2>3. /\ UNCHANGED toClient /\ l.awaits = "" /\ l.stage = "ic"
        /\ lib' = [lib EXCEPT ![a].focus = ~@]
    BY <1>3 DEF Focus, Free
  <2>4. /\ lib'[a].awaits = l.awaits /\ lib'[a].stage = l.stage /\ lib'[a].mark = l.mark
        /\ lib'[a].mask = l.mask /\ lib'[a].typed = l.typed
    BY <1>t, <2>3 DEF Client
  <2>5. toServer'[a] = Append(toServer[a], m(y))
    BY <2>1, <2>2, SaysTyped
  <2>6. Telling(a, m(y))
    BY <2>2, <2>3, <2>4, <2>5 DEF Tells, Telling, IsKey, Dead
  <2> QED BY <2>2, <2>6
<1>4. ASSUME Type(a) PROVE \E x \in Message : Telling(a, x)
  <2> DEFINE n == l.typed + 1
  <2>1. /\ Says(a, Key(n)) /\ UNCHANGED toClient /\ l.awaits = "" /\ l.focus
        /\ lib' = [lib EXCEPT ![a].typed = @ + 1]
    BY <1>4 DEF Type, Free
  <2>2. n \in Nat
    <3>1. lib[a].typed \in Nat
      BY DEF Typed, Client
    <3> QED BY <3>1
  <2>3. /\ lib'[a].awaits = l.awaits /\ lib'[a].stage = l.stage /\ lib'[a].mark = l.mark
        /\ lib'[a].mask = l.mask /\ lib'[a].typed = n
    BY <1>t, <2>1 DEF Client
  <2>4. l.stage = "ic"
    BY <2>1 DEF Behaves
  <2> HIDE DEF n
  <2>5. /\ Key(n) \in Message /\ Key(n).op = "FORWARD_EVENT" /\ Key(n).n = n
        /\ "FORWARD_EVENT" \notin Requests
    BY <2>2, Sayings DEF Key
  <2>6. toServer'[a] = Append(toServer[a], Key(n))
    BY <2>1, <2>5, SaysTyped
  <2>7. Telling(a, Key(n))
    BY <2>1, <2>3, <2>4, <2>5, <2>6 DEF Tells, Telling, IsKey, Dead, n
  <2> QED BY <2>5, <2>7
<1>5. ASSUME SyncReply(a) PROVE \E x \in Message : Telling(a, x)
  <2> DEFINE x == m("SYNC_REPLY")
  <2>1. /\ Says(a, x) /\ UNCHANGED toClient /\ l.awaits = "" /\ l.mark
        /\ lib' = [lib EXCEPT ![a].mark = FALSE]
    BY <1>5 DEF SyncReply
  <2>2. x \in Message /\ x.op = "SYNC_REPLY" /\ "SYNC_REPLY" \notin Requests
    BY Sayings
  <2>3. /\ lib'[a].awaits = l.awaits /\ lib'[a].stage = l.stage
        /\ lib'[a].mask = l.mask /\ lib'[a].typed = l.typed
    BY <1>t, <2>1 DEF Client
  <2>4. lib'[a].focus = l.focus
    BY <1>t, <2>1 DEF Client
  <2>5. toServer'[a] = Append(toServer[a], x)
    BY <2>1, <2>2, SaysTyped
  <2>6. ~Dead(a) /\ (l.focus => l.stage = "ic")
    BY <2>1 DEF Behaves
  <2> HIDE DEF x
  <2>7. Telling(a, x)
    <3>1. Tells(a, x)
      BY <2>1, <2>3, <2>5 DEF Tells, x
    <3> QED BY <2>1, <2>2, <2>3, <2>4, <2>6, <3>1 DEF Telling, IsKey
  <2> QED BY <2>2, <2>7
<1>6. ASSUME Hear(a) PROVE Hears(a)
  <2>1. /\ toClient' = [toClient EXCEPT ![a] = Tail(toClient[a])] /\ toClient[a] # <<>>
        /\ lib' = [lib EXCEPT ![a] = heard(lib[a], Head(toClient[a]))] /\ UNCHANGED toServer
    BY <1>6 DEF Hear
  <2>2. DOMAIN toClient = App /\ DOMAIN lib = App
    BY DEF Typed
  <2> QED BY <2>1, <2>2 DEF Hears
<1>7. ASSUME Die(a) PROVE Dying(a)
  <2>1. /\ lib' = [lib EXCEPT ![a] = [Unborn EXCEPT !.stage = "dead", !.typed = lib[a].typed]]
    BY <1>7 DEF Die
  <2>2. lib'[a].typed = l.typed /\ ~lib'[a].focus /\ ~lib'[a].mark
    BY <1>t, <2>1 DEF Unborn
  <2>3. Dies(a)
    BY <1>7 DEF Die, Dies, Typed, Unborn
  <2> QED BY <2>2, <2>3 DEF Dying
<1> QED BY <1>0, <1>1, <1>2, <1>3, <1>4, <1>5, <1>6, <1>7 DEF ClientActs, Speaks

\* What a client hears leaves its focus and its keys alone.
LEMMA HeardKeeps ==
    ASSUME NEW l \in Client, NEW x \in Message
    PROVE  /\ heard(l, x).focus = l.focus /\ heard(l, x).typed = l.typed
           /\ x.op \notin {"SET_EVENT_MASK", "CLEAR_EVENT_MASK", "REPLY"}
              => heard(l, x).mask = l.mask
           /\ x.op = "SET_EVENT_MASK" => heard(l, x).mask = TRUE
           /\ x.op = "CLEAR_EVENT_MASK" => heard(l, x).mask = FALSE
           /\ x.op = "REPLY" => heard(l, x).mask = (l.mask /\ after(x.to) = "ic")
<1>1. CASE x.op = "REPLY"
  <2>1. heard(l, x) = [l EXCEPT !.awaits = "", !.stage = after(x.to),
                                !.mask = l.mask /\ after(x.to) = "ic"]
    BY <1>1 DEF heard
  <2>2. heard(l, x).focus = l.focus /\ heard(l, x).typed = l.typed
    BY <2>1 DEF Client
  <2>3. heard(l, x).mask = (l.mask /\ after(x.to) = "ic")
    BY <2>1 DEF Client
  <2> QED BY <1>1, <2>2, <2>3
<1>2. CASE x.op = "SET_EVENT_MASK"
  BY <1>2 DEF heard, Client
<1>3. CASE x.op = "CLEAR_EVENT_MASK"
  BY <1>3 DEF heard, Client
<1>4. CASE x.op \in {"FORWARD_EVENT", "COMMIT", "SYNC"}
  BY <1>4 DEF heard, Client
<1>5. CASE x.op \notin {"REPLY", "SET_EVENT_MASK", "CLEAR_EVENT_MASK", "FORWARD_EVENT",
                       "COMMIT", "SYNC"}
  <2>1. heard(l, x) = l
    BY <1>5 DEF heard
  <2> QED BY <1>5, <2>1
<1> QED BY <1>1, <1>2, <1>3, <1>4, <1>5

LEMMA ClientBehaves ==
    ASSUME Typed, NEW a \in App, NEW b \in App, Others(a), Speaks(a), OneAtATime(b), Behaves(b)
    PROVE  Behaves(b)'
<1>0. toServer[a] \in Seq(Message) /\ toClient[a] \in Seq(Message) /\ lib[a] \in Client
  BY DEF Typed
<1>1. CASE b # a
  BY <1>1 DEF Others, Behaves, Dead
\* A client that is not waiting has neither a request nor a reply under way.
<1>2. ASSUME b = a, lib[a].awaits = "", ~Dead(a)
      PROVE  None(toServer[a], Requests) /\ None(toClient[a], {"REPLY"})
  <2>1. ASSUME NEW k \in DOMAIN toServer[a], toServer[a][k].op \in Requests PROVE FALSE
    <3>1. toServer[a][k].op = ""
      BY <1>2, <2>1 DEF OneAtATime, Range
    <3> QED BY <2>1, <3>1, Sayings
  <2>2. ASSUME NEW k \in DOMAIN toClient[a], toClient[a][k].op = "REPLY" PROVE FALSE
    <3>1. toClient[a][k] \in Message
      BY <1>0
    <3>2. toClient[a][k].to = ""
      BY <1>2, <2>2 DEF OneAtATime, Range
    <3> QED BY <2>2, <3>1, <3>2, Sayings DEF Message
  <2> QED BY <2>1, <2>2 DEF None
<1>3. \A x \in Message : LET t == Append(toServer[a], x) IN
         /\ t[Len(t)] = x /\ Len(t) = Len(toServer[a]) + 1
         /\ DOMAIN t = 1 .. Len(t) /\ DOMAIN toServer[a] = 1 .. Len(toServer[a])
         /\ \A k \in 1 .. Len(toServer[a]) : t[k] = toServer[a][k]
  BY <1>0
<1>4. ASSUME b = a, NEW r \in Requests, Requesting(a, r) PROVE Behaves(a)'
  <2> DEFINE s == toServer[a]
             t == Append(s, m(r))
  <2>1. /\ lib[a].awaits = "" /\ lib[a].stage \in before(r)
        /\ toServer'[a] = t /\ UNCHANGED toClient
        /\ lib'[a].awaits = r /\ lib'[a].stage = lib[a].stage /\ lib'[a].mark = lib[a].mark
        /\ lib'[a].focus => lib[a].focus /\ after(r) = "ic"
    BY <1>4 DEF Requesting, Asks
  <2>2. m(r) \in Message /\ m(r).op = r /\ r # ""
    BY Sayings
  <2>3. ~Dead(a) /\ lib[a].stage # "dead"
    <3>1. "dead" \notin before(r)
      BY DEF before, Requests, Questions
    <3> QED BY <2>1, <3>1 DEF Dead
  <2>4. None(s, Requests) /\ None(toClient[a], {"REPLY"})
    BY <1>2, <1>4, <2>1, <2>3
  <2>5. /\ t[Len(t)] = m(r) /\ DOMAIN t = 1 .. Len(t) /\ DOMAIN s = 1 .. Len(s)
        /\ Len(t) = Len(s) + 1 /\ \A k \in 1 .. Len(s) : t[k] = s[k]
    BY <1>3, <2>2
  <2>6. s \in Seq(Message) /\ Len(s) \in Nat
    BY <1>0
  <2> HIDE DEF t, s
  <2>7. \A k \in DOMAIN t : t[k].op = "DISCONNECT" => k = Len(t)
    <3> SUFFICES ASSUME NEW k \in DOMAIN t, t[k].op = "DISCONNECT", k # Len(t) PROVE FALSE
      OBVIOUS
    <3>1. k \in DOMAIN s /\ t[k] = s[k]
      BY <2>5, <2>6
    <3>2. "DISCONNECT" \in Requests
      BY DEF Requests
    <3> QED BY <2>4, <3>1, <3>2 DEF None
  <2>8. lib[a].stage # "ic" => None(t, Steers)
    <3> SUFFICES ASSUME lib[a].stage # "ic", NEW k \in DOMAIN t, t[k].op \in Steers PROVE FALSE
      BY DEF None
    <3>1. r \notin Steers
      <4>1. before("TRIGGER_NOTIFY") = {"ic"}
        BY DEF before, Questions
      <4>2. "SET_IC_FOCUS" \notin Requests
        BY Sayings
      <4> QED BY <2>1, <4>1, <4>2 DEF Steers
    <3>2. CASE k = Len(t)
      BY <2>2, <2>5, <3>1, <3>2
    <3>3. CASE k # Len(t)
      <4>1. k \in DOMAIN s /\ t[k] = s[k]
        BY <2>5, <2>6, <3>3
      <4>2. None(s, Steers)
        BY <1>4, <2>3 DEF Behaves, s
      <4> QED BY <4>1, <4>2 DEF None
    <3> QED BY <3>2, <3>3
  <2>9. t[Len(t)].op \in Requests
    <3>1. t[Len(t)].op = r
      BY <2>2, <2>5
    <3> QED BY <3>1
  <2> QED BY <1>4, <2>1, <2>2, <2>3, <2>4, <2>7, <2>8, <2>9 DEF Behaves, Dead
<1>5. ASSUME b = a, NEW x \in Message, Telling(a, x) PROVE Behaves(a)'
  <2> DEFINE s == toServer[a]
             t == Append(s, x)
  <2>1. /\ lib[a].awaits = "" /\ ~Dead(a) /\ x.op \notin Requests
        /\ toServer'[a] = t /\ UNCHANGED toClient
        /\ lib'[a].awaits = "" /\ lib'[a].stage = lib[a].stage
        /\ x.op = "SET_IC_FOCUS" \/ lib'[a].focus => lib[a].stage = "ic"
    BY <1>5 DEF Telling, Tells
  <2>2. None(s, Requests) /\ None(toClient[a], {"REPLY"})
    BY <1>2, <1>5, <2>1
  <2>3. /\ t[Len(t)] = x /\ DOMAIN t = 1 .. Len(t) /\ DOMAIN s = 1 .. Len(s)
        /\ Len(t) = Len(s) + 1 /\ \A k \in 1 .. Len(s) : t[k] = s[k]
    BY <1>3
  <2>4. s \in Seq(Message) /\ Len(s) \in Nat
    BY <1>0
  <2> HIDE DEF t, s
  <2>5. None(t, Requests)
    <3> SUFFICES ASSUME NEW k \in DOMAIN t, t[k].op \in Requests PROVE FALSE
      BY DEF None
    <3>1. CASE k = Len(t)
      BY <2>1, <2>3, <3>1
    <3>2. CASE k # Len(t)
      <4>1. k \in DOMAIN s /\ t[k] = s[k]
        BY <2>3, <2>4, <3>2
      <4> QED BY <2>2, <4>1 DEF None
    <3> QED BY <3>1, <3>2
  <2>6. \A k \in DOMAIN t : t[k].op # "DISCONNECT"
    <3>1. "DISCONNECT" \in Requests
      BY DEF Requests
    <3> QED BY <2>5, <3>1 DEF None
  <2>7. lib[a].stage # "ic" => None(t, Steers)
    <3> SUFFICES ASSUME lib[a].stage # "ic", NEW k \in DOMAIN t, t[k].op \in Steers PROVE FALSE
      BY DEF None
    <3>1. "TRIGGER_NOTIFY" \in Requests
      BY DEF Requests
    <3>2. CASE k = Len(t)
      BY <2>1, <2>3, <3>1, <3>2 DEF Steers
    <3>3. CASE k # Len(t)
      <4>1. k \in DOMAIN s /\ t[k] = s[k]
        BY <2>3, <2>4, <3>3
      <4>2. None(s, Steers)
        BY <1>5, <2>1 DEF Behaves, Dead, s
      <4> QED BY <4>1, <4>2 DEF None
    <3> QED BY <3>2, <3>3
  <2> QED BY <1>5, <2>1, <2>2, <2>6, <2>7 DEF Behaves, Dead
<1>6. ASSUME b = a, Hears(a) PROVE Behaves(a)'
  <2> DEFINE x == Head(toClient[a])
             s == toServer[a]
  <2>1. /\ toClient[a] # <<>> /\ toClient[a] \in Seq(Message) /\ toClient'[a] = Tail(toClient[a])
        /\ toServer'[a] = s /\ lib'[a] = heard(lib[a], x)
    BY <1>0, <1>6 DEF Hears
  <2>2. x \in Message /\ x \in Range(toClient[a]) /\ 1 \in DOMAIN toClient[a] /\ x = toClient[a][1]
    <3>1. x \in Message /\ 1 \in DOMAIN toClient[a] /\ x = toClient[a][1]
      BY <2>1
    <3> QED BY <3>1 DEF Range
  <2>3. ~Dead(a)
    BY <1>6, <2>1 DEF OneAtATime
  <2>4. None(toClient[a], {"REPLY"}) => None(toClient'[a], {"REPLY"})
    BY <2>1, TailNone
  <2> HIDE DEF x, s
  <2>5. lib'[a].focus = lib[a].focus
    BY <1>0, <2>1, <2>2, HeardKeeps
  <2>6. CASE x.op = "REPLY"
    <3>1. s = <<>>
      BY <1>6, <2>2, <2>6 DEF Behaves, None, s
    <3>2. x.to = lib[a].awaits /\ x.to \in Requests
      BY <1>6, <2>2, <2>6 DEF OneAtATime, Message
    <3>3. lib'[a].awaits = "" /\ lib'[a].stage = after(x.to)
      <4>1. heard(lib[a], x).awaits = "" /\ heard(lib[a], x).stage = after(x.to)
        BY <1>0, <2>2, <2>6, HeardTyped
      <4> QED BY <2>1, <4>1
    <3>4. x.to # "" /\ after(x.to) # "dead"
      BY <3>2, RequestStages
    <3>5. lib'[a].focus => lib'[a].stage = "ic"
      BY <1>6, <2>5, <3>2, <3>3, <3>4 DEF Behaves
    <3>6. DOMAIN s = {} /\ None(s, Steers)
      BY <3>1 DEF None
    <3> QED BY <2>1, <3>1, <3>3, <3>4, <3>5, <3>6 DEF Behaves, Dead
  <2>7. CASE x.op # "REPLY"
    <3>1. lib'[a].awaits = lib[a].awaits /\ lib'[a].stage = lib[a].stage
      <4>1. heard(lib[a], x).awaits = lib[a].awaits /\ heard(lib[a], x).stage = lib[a].stage
        BY <1>0, <2>2, <2>7, HeardTyped
      <4> QED BY <2>1, <4>1
    <3> QED BY <1>6, <2>1, <2>3, <2>4, <2>5, <3>1 DEF Behaves, Dead, s
  <2> QED BY <2>6, <2>7
<1>7. ASSUME b = a, Dying(a) PROVE Behaves(a)'
  <2>1. /\ toClient'[a] = <<>> /\ toServer' = toServer /\ lib'[a].stage = "dead"
        /\ lib'[a].awaits = "" /\ ~lib'[a].focus /\ ~lib'[a].mark
    BY <1>7 DEF Dying, Dies
  <2>2. None(<<>>, {"REPLY"})
    BY DEF None
  <2> QED BY <1>7, <2>1, <2>2 DEF Behaves, Dead
<1> QED BY <1>1, <1>4, <1>5, <1>6, <1>7 DEF Speaks

LEMMA TailLast ==
    ASSUME NEW s \in Seq(Message), s # <<>>, Tail(s) # <<>>
    PROVE  Tail(s)[Len(Tail(s))] = s[Len(s)]
<1>1. /\ Tail(s) \in Seq(Message) /\ Len(Tail(s)) = Len(s) - 1
      /\ Len(s) \in Nat
      /\ \A k \in 1 .. Len(s) - 1 : Tail(s)[k] = s[k + 1]
  OBVIOUS
<1>2. Len(Tail(s)) \in Nat \ {0}
  BY <1>1, EmptySeq
<1>3. Len(s) - 1 \in 1 .. Len(s) - 1 /\ (Len(s) - 1) + 1 = Len(s)
  BY <1>1, <1>2
<1> QED BY <1>1, <1>3

LEMMA HandledBehaves ==
    ASSUME Typed, NEW a \in App, NEW b \in App, NEW op, OneAtATime(b), Behaves(b), Handled(a, op),
           UNCHANGED lib, Takes(a, op)
    PROVE  Behaves(b)'
<1>1. PICK msgs : Answering(op, msgs) /\ Sent(a, msgs)
  BY DEF Handled
<1>2. /\ msgs \in Seq(Message)
      /\ ~None(msgs, {"REPLY"}) => op \in Requests
  BY <1>1 DEF Answering, None
<1>3. /\ \A c \in App : c # a \/ Dead(a) => toClient'[c] = toClient[c]
      /\ ~Dead(a) => toClient'[a] = toClient[a] \o msgs
  BY <1>1, <1>2, NoneInto
<1>4. CASE b # a
  <2>1. toServer'[b] = toServer[b] /\ toClient'[b] = toClient[b]
    BY <1>3, <1>4, TakesFacts
  <2> QED BY <2>1 DEF Behaves, Dead
<1>5. CASE b = a
  <2> DEFINE s == toServer[a]
             t == toServer'[a]
  <2>0. s \in Seq(Message) /\ toClient[a] \in Seq(Message)
    BY DEF Typed
  <2>1. CASE t = s /\ op \notin Requests
    <3>1. None(msgs, {"REPLY"})
      BY <1>2, <2>1
    <3>2. None(toClient[a], {"REPLY"}) => None(toClient'[a], {"REPLY"})
      <4>1. CASE Dead(a)
        BY <1>3, <4>1
      <4>2. CASE ~Dead(a)
        <5>1. None(toClient[a], {"REPLY"}) => None(toClient[a] \o msgs, {"REPLY"})
          BY <1>2, <2>0, <3>1, JoinNone
        <5> QED BY <1>3, <4>2, <5>1
      <4> QED BY <4>1, <4>2
    <3> QED BY <1>5, <2>1, <3>2 DEF Behaves, Dead
  <2>2. CASE s # <<>> /\ op = Head(s).op /\ t = Tail(s)
    <3> HIDE DEF t, s
    <3>1. /\ t \in Seq(Message) /\ Len(t) = Len(s) - 1 /\ Len(s) \in Nat /\ Len(s) > 0
          /\ DOMAIN s = 1 .. Len(s) /\ DOMAIN t = 1 .. Len(s) - 1
          /\ \A k \in 1 .. Len(s) - 1 : t[k] = s[k + 1]
          /\ Head(s) = s[1]
      BY <2>0, <2>2 DEF s, t
    <3>2. ASSUME NEW R, None(s, R) PROVE None(t, R)
      BY <2>0, <2>2, <3>2, TailNone DEF s
    <3>3. \A k \in DOMAIN t : t[k].op = "DISCONNECT" => k = Len(t)
      <4> SUFFICES ASSUME NEW k \in DOMAIN t, t[k].op = "DISCONNECT" PROVE k = Len(t)
        OBVIOUS
      <4>1. k + 1 \in DOMAIN s /\ s[k + 1] = t[k] /\ k \in Int
        BY <3>1
      <4>2. k + 1 = Len(s)
        BY <1>5, <4>1 DEF Behaves, s
      <4> QED BY <3>1, <4>1, <4>2
    <3>4. lib[a].awaits # "" => t = <<>> \/ t[Len(t)].op \in Requests
      <4>1. t # <<>> => t[Len(t)] = s[Len(s)]
        BY <2>0, <2>2, TailLast DEF s
      <4>2. lib[a].awaits # "" => s[Len(s)].op \in Requests
        BY <1>5, <2>2 DEF Behaves, s
      <4> QED BY <4>1, <4>2
    <3>5. None(toClient[a], {"REPLY"})
      BY <1>5, <2>2 DEF Behaves, s
    <3>6. ~None(toClient'[a], {"REPLY"}) => t = <<>>
      <4> SUFFICES ASSUME ~None(toClient'[a], {"REPLY"}) PROVE t = <<>>
        OBVIOUS
      <4>1. ~Dead(a)
        BY <1>3, <3>5
      <4>2. ~None(msgs, {"REPLY"})
        <5>1. None(msgs, {"REPLY"}) => None(toClient[a] \o msgs, {"REPLY"})
          BY <1>2, <2>0, <3>5, JoinNone
        <5> QED BY <1>3, <4>1, <5>1
      <4>3. op \in Requests /\ s[1].op \in Requests /\ 1 \in DOMAIN s /\ Len(s) \in DOMAIN s
        BY <1>2, <2>2, <3>1, <4>2
      <4>4. lib[a].awaits = s[1].op
        <5>1. s[1] \in Range(s)
          BY <4>3 DEF Range
        <5> QED BY <1>5, <4>1, <4>3, <5>1 DEF OneAtATime, s
      <4>5. s[Len(s)].op \in Requests
        BY <1>5, <2>2, <4>3, <4>4, Sayings DEF Behaves, s
      <4>6. Len(s) = 1
        BY <1>5, <4>3, <4>5 DEF OneAtATime, Once, s
      <4> QED BY <3>1, <4>6
    <3>7. lib[a].stage \notin {"ic", "dead"} => None(t, Steers)
      BY <1>5, <3>2 DEF Behaves, s
    <3> QED BY <1>5, <3>3, <3>4, <3>6, <3>7 DEF Behaves, Dead, t
  <2>3. \/ t = s /\ op \notin Requests
        \/ s # <<>> /\ op = Head(s).op /\ t = Tail(s)
    <3>1. DOMAIN toServer = App
      BY DEF Typed
    <3> QED BY <3>1 DEF Takes
  <2> QED BY <2>1, <2>2, <2>3
<1> QED BY <1>4, <1>5

-----------------------------------------------------------------------------
(***************************************************************************)
(* The keys that wait in the server, and what its steps do with a key.     *)
(***************************************************************************)
Distinct(cl) == \A i, j \in DOMAIN cl : cl[i].win = cl[j].win => i = j

\* waiting(a) in the records cl.
Line(cl, a) == IF \E i \in DOMAIN cl : cl[i].win = a
               THEN cl[CHOOSE i \in DOMAIN cl : cl[i].win = a].pending
               ELSE <<>>

LEMMA WaitingLine ==
    ASSUME NEW a
    PROVE  waiting(a) = Line(clients, a) /\ waiting(a)' = Line(clients', a)
BY DEF waiting, Line, Connected, id

LEMMA LineIs ==
    ASSUME NEW cl, Distinct(cl), NEW i \in DOMAIN cl
    PROVE  Line(cl, cl[i].win) = cl[i].pending
<1> DEFINE j == CHOOSE k \in DOMAIN cl : cl[k].win = cl[i].win
<1>1. j \in DOMAIN cl /\ cl[j].win = cl[i].win
  OBVIOUS
<1>2. j = i
  BY <1>1 DEF Distinct
<1> QED BY <1>2 DEF Line

LEMMA LineNone ==
    ASSUME NEW cl, NEW a, \A i \in DOMAIN cl : cl[i].win # a
    PROVE  Line(cl, a) = <<>>
BY DEF Line

\* Where the records of a window are the same, its keys are.
LEMMA LineSame ==
    ASSUME NEW cl, NEW dl, Distinct(cl), Distinct(dl), NEW a,
           \A i \in DOMAIN cl : cl[i].win = a
              => i \in DOMAIN dl /\ dl[i].win = a /\ dl[i].pending = cl[i].pending,
           \A i \in DOMAIN dl : dl[i].win = a => i \in DOMAIN cl /\ cl[i].win = a
    PROVE  Line(dl, a) = Line(cl, a)
<1>1. CASE \A i \in DOMAIN cl : cl[i].win # a
  <2>1. \A i \in DOMAIN dl : dl[i].win # a
    BY <1>1
  <2> QED BY <1>1, <2>1, LineNone
<1>2. ASSUME NEW i \in DOMAIN cl, cl[i].win = a PROVE Line(dl, a) = Line(cl, a)
  <2>1. Line(cl, a) = cl[i].pending
    BY <1>2, LineIs
  <2>2. i \in DOMAIN dl /\ dl[i].win = a /\ dl[i].pending = cl[i].pending
    BY <1>2
  <2>3. Line(dl, dl[i].win) = dl[i].pending
    BY <2>2, LineIs
  <2> QED BY <2>1, <2>2, <2>3
<1> QED BY <1>1, <1>2

OthersWait(a) == \A b \in App : b # a => waiting(b)' = waiting(b)

\* The key n of a client is handled as it comes, put into the queue, or taken
\* from it; or the keys of the client are given up; or no key is touched.
TakesKey(a, n) == /\ waiting(a) = <<>> /\ waiting(a)' = <<>> /\ OthersWait(a)
                  /\ handled' = [handled EXCEPT ![a] = n]

QueuesKey(a, n) == /\ waiting(a)' = Append(waiting(a), n) /\ OthersWait(a)
                   /\ UNCHANGED handled

DrainsKey(a) == /\ waiting(a) # <<>> /\ waiting(a)' = Tail(waiting(a)) /\ OthersWait(a)
                /\ handled' = [handled EXCEPT ![a] = Head(waiting(a))]

DropsKeys(a) == waiting(a)' = <<>> /\ OthersWait(a) /\ UNCHANGED handled

KeysStay == (\A b \in App : waiting(b)' = waiting(b)) /\ UNCHANGED handled

LEMMA SameClients ==
    ASSUME UNCHANGED <<clients, handled>>
    PROVE  KeysStay
BY DEF KeysStay, waiting, Connected, id

\* One record gets new contents for its window.
LEMMA OneRecord ==
    ASSUME Records, NEW a, NEW i \in DOMAIN clients, NEW c, c.win = a, clients[i].win = a,
           clients' = [clients EXCEPT ![i] = c]
    PROVE  waiting(a) = clients[i].pending /\ waiting(a)' = c.pending /\ OthersWait(a)
<1>1. /\ DOMAIN clients' = DOMAIN clients /\ clients'[i] = c
      /\ \A j \in DOMAIN clients : j # i => clients'[j] = clients[j]
  OBVIOUS
<1>2. Distinct(clients)
  BY DEF Records, Distinct
<1>3. Distinct(clients')
  <2>1. \A j \in DOMAIN clients : clients'[j].win = clients[j].win
    BY <1>1
  <2> QED BY <1>1, <1>2, <2>1 DEF Distinct
<1>4. waiting(a) = clients[i].pending
  BY <1>2, LineIs, WaitingLine
<1>5. waiting(a)' = c.pending
  <2>1. i \in DOMAIN clients' /\ clients'[i].win = a
    BY <1>1
  <2>2. Line(clients', clients'[i].win) = clients'[i].pending
    BY <1>3, <2>1, LineIs
  <2>3. Line(clients', a) = c.pending
    BY <1>1, <2>1, <2>2
  <2> QED BY <2>3, WaitingLine
<1>6. ASSUME NEW b \in App, b # a PROVE waiting(b)' = waiting(b)
  <2>1. \A j \in DOMAIN clients : clients[j].win = b \/ clients'[j].win = b => j # i
    BY <1>1, <1>6
  <2>2. Line(clients', b) = Line(clients, b)
    BY <1>1, <1>2, <1>3, <2>1, LineSame
  <2> QED BY <2>2, WaitingLine
<1> QED BY <1>4, <1>5, <1>6 DEF OthersWait

LEMMA KeyPasses ==
    ASSUME Records, NEW a, NEW i \in DOMAIN clients, NEW c \in Record, NEW key,
           c.win = a, clients[i].win = a, ForwardEventMessageProc(i, c, key)
    PROVE  /\ waiting(a) = clients[i].pending /\ waiting(a)' = c.pending
           /\ OthersWait(a) /\ handled' = [handled EXCEPT ![a] = key]
<1>1. handled' = [handled EXCEPT ![a] = key]
  BY DEF ForwardEventMessageProc
<1>2. clients' = [clients EXCEPT ![i] = c] \/ clients' = [clients EXCEPT ![i] = given_back(c)]
  BY DEF ForwardEventMessageProc
<1>3. given_back(c).win = c.win /\ given_back(c).pending = c.pending
  BY DEF given_back, Record
<1>4. CASE clients' = [clients EXCEPT ![i] = c]
  <2>1. waiting(a) = clients[i].pending /\ waiting(a)' = c.pending /\ OthersWait(a)
    BY <1>4, OneRecord
  <2> QED BY <1>1, <2>1
<1>5. CASE clients' = [clients EXCEPT ![i] = given_back(c)]
  <2> DEFINE d == given_back(c)
  <2>1. d.win = a /\ d.pending = c.pending /\ clients' = [clients EXCEPT ![i] = d]
    BY <1>3, <1>5
  <2> HIDE DEF d
  <2>2. waiting(a) = clients[i].pending /\ waiting(a)' = d.pending /\ OthersWait(a)
    BY <2>1, OneRecord
  <2> QED BY <1>1, <2>1, <2>2
<1> QED BY <1>2, <1>4, <1>5

LEMMA ForwardKeys ==
    ASSUME Typed, Records, NoKeyStranded, NEW a \in App, NEW key \in Nat, Connected(a),
           processing = 0, ForwardEvent(a, key)
    PROVE  TakesKey(a, key) \/ QueuesKey(a, key)
<1> DEFINE i == id(a)
           c == clients[i]
<1>1. i \in DOMAIN clients /\ c.win = a /\ c \in Record /\ i # 0
  BY IdOf DEF Typed, WireTypeOK, Record
<1>2. CASE c.sync
  <2> DEFINE d == AddQueue(c, key)
  <2>1. d.win = a /\ d.pending = Append(c.pending, key)
    BY <1>1 DEF AddQueue, Record
  <2>2. clients' = [clients EXCEPT ![i] = d] /\ UNCHANGED handled
    BY <1>2 DEF ForwardEvent
  <2> HIDE DEF i, d
  <2>3. waiting(a) = clients[i].pending /\ waiting(a)' = d.pending /\ OthersWait(a)
    BY <1>1, <2>1, <2>2, OneRecord
  <2> QED BY <2>1, <2>2, <2>3 DEF QueuesKey
<1>3. CASE ~c.sync
  <2>1. ForwardEventMessageProc(i, c, key)
    BY <1>3 DEF ForwardEvent
  <2>2. c.pending = <<>>
    BY <1>1, <1>3 DEF NoKeyStranded
  <2> HIDE DEF i
  <2>3. /\ waiting(a) = clients[i].pending /\ waiting(a)' = c.pending
        /\ OthersWait(a) /\ handled' = [handled EXCEPT ![a] = key]
    BY <1>1, <2>1, KeyPasses
  <2> QED BY <1>1, <2>2, <2>3 DEF TakesKey
<1> QED BY <1>2, <1>3

\* A record of a window that had none, and a record that goes.
LEMMA XConnectKeys ==
    ASSUME IInv, NEW a \in App, Asked(a, "XCONNECT"), ReadXConnectMessage(a)
    PROVE  KeysStay
<1>1. Typed /\ Records /\ ~Connected(a)
  BY DEF IInv, ClientInv, Meets
<1>2. /\ DOMAIN clients' = DOMAIN clients \cup {new_id}
      /\ \A i \in DOMAIN clients' : clients'[i] = IF i = new_id THEN NewClient(a)
                                                  ELSE clients[i]
      /\ UNCHANGED handled
  BY DEF ReadXConnectMessage, _Xi18nNewClient
<1>3. new_id \notin DOMAIN clients
  BY <1>1, NewIdFresh
<1>4. NewClient(a).win = a /\ NewClient(a).pending = <<>>
  BY DEF NewClient
<1>5. \A i \in DOMAIN clients : clients[i].win # a
  BY <1>1 DEF Connected
<1>6. Distinct(clients)
  BY <1>1 DEF Records, Distinct
<1>7. Distinct(clients')
  <2> SUFFICES ASSUME NEW i \in DOMAIN clients', NEW j \in DOMAIN clients',
                      clients'[i].win = clients'[j].win
               PROVE  i = j
    BY DEF Distinct
  <2> QED BY <1>2, <1>4, <1>5, <1>6 DEF Distinct
<1>8. waiting(a) = <<>> /\ waiting(a)' = <<>>
  <2>1. Line(clients, a) = <<>>
    BY <1>5, LineNone
  <2>2. new_id \in DOMAIN clients' /\ clients'[new_id] = NewClient(a)
    BY <1>2
  <2>3. Line(clients', clients'[new_id].win) = clients'[new_id].pending
    BY <1>7, <2>2, LineIs
  <2> QED BY <1>4, <2>1, <2>2, <2>3, WaitingLine
<1>9. ASSUME NEW b \in App, b # a PROVE waiting(b)' = waiting(b)
  <2>1. /\ \A i \in DOMAIN clients : clients[i].win = b
              => i \in DOMAIN clients' /\ clients'[i].win = b
                 /\ clients'[i].pending = clients[i].pending
        /\ \A i \in DOMAIN clients' : clients'[i].win = b
              => i \in DOMAIN clients /\ clients[i].win = b
    BY <1>2, <1>3, <1>4, <1>9
  <2>2. Line(clients', b) = Line(clients, b)
    BY <1>6, <1>7, <2>1, LineSame
  <2> QED BY <2>2, WaitingLine
<1> QED BY <1>2, <1>8, <1>9 DEF KeysStay

LEMMA DisConnectKeys ==
    ASSUME Records, NEW a \in App, Connected(a), DisConnectMessageProc(a)
    PROVE  DropsKeys(a)
<1>1. id(a) \in DOMAIN clients /\ clients[id(a)].win = a
  BY IdOf
<1>2. /\ clients' = [j \in DOMAIN clients \ {id(a)} |-> clients[j]] /\ UNCHANGED handled
  BY DEF DisConnectMessageProc, _Xi18nDeleteClient
<1>3. /\ DOMAIN clients' = DOMAIN clients \ {id(a)}
      /\ \A j \in DOMAIN clients' : clients'[j] = clients[j]
  BY <1>2
<1>4. Distinct(clients) /\ Distinct(clients')
  BY <1>3 DEF Records, Distinct
<1>5. waiting(a)' = <<>>
  <2>1. \A j \in DOMAIN clients' : clients'[j].win # a
    BY <1>1, <1>3, <1>4 DEF Distinct
  <2>2. Line(clients', a) = <<>>
    BY <2>1, LineNone
  <2> QED BY <2>2, WaitingLine
<1>6. ASSUME NEW b \in App, b # a PROVE waiting(b)' = waiting(b)
  <2>1. /\ \A i \in DOMAIN clients : clients[i].win = b
              => i \in DOMAIN clients' /\ clients'[i].win = b
                 /\ clients'[i].pending = clients[i].pending
        /\ \A i \in DOMAIN clients' : clients'[i].win = b
              => i \in DOMAIN clients /\ clients[i].win = b
    BY <1>1, <1>3, <1>6
  <2>2. Line(clients', b) = Line(clients, b)
    BY <1>4, <2>1, LineSame
  <2> QED BY <2>2, WaitingLine
<1> QED BY <1>2, <1>5, <1>6 DEF DropsKeys, OthersWait

\* The record of a client is marked, and its keys wait on.
LEMMA MarkKeys ==
    ASSUME Typed, Records, NEW a \in App, Connected(a),
           ConnectMessageProc(a) \/ SyncReplyMessageProc(a)
    PROVE  KeysStay
<1> DEFINE i == id(a)
           c == clients[i]
<1>1. i \in DOMAIN clients /\ c.win = a /\ c \in Record
  BY IdOf DEF Typed, WireTypeOK, Record
<1>2. UNCHANGED handled
  BY DEF ConnectMessageProc, SyncReplyMessageProc
<1>3. \/ clients' = [clients EXCEPT ![i] = [c EXCEPT !.byte_order = "l"]]
      \/ clients' = [clients EXCEPT ![i] = [c EXCEPT !.sync = FALSE]]
  BY DEF ConnectMessageProc, SyncReplyMessageProc, answered
<1>4. \E d : d.win = a /\ d.pending = c.pending /\ clients' = [clients EXCEPT ![i] = d]
  <2>1. \A d \in {[c EXCEPT !.byte_order = "l"], [c EXCEPT !.sync = FALSE]} :
           d.win = a /\ d.pending = c.pending
    BY <1>1 DEF Record
  <2> QED BY <1>3, <2>1
<1>5. PICK d : d.win = a /\ d.pending = c.pending /\ clients' = [clients EXCEPT ![i] = d]
  BY <1>4
<1> HIDE DEF i
<1>6. waiting(a) = clients[i].pending /\ waiting(a)' = d.pending /\ OthersWait(a)
  BY <1>1, <1>5, OneRecord
<1> QED BY <1>2, <1>5, <1>6 DEF KeysStay, OthersWait

LEMMA ReceiveKeys ==
    ASSUME IInv, NoKeyStranded, NEW a \in App, Receive(a)
    PROVE  LET x == Head(toServer[a]) IN
           \/ IsKey(x) /\ (TakesKey(a, x.n) \/ QueuesKey(a, x.n))
           \/ x.op = "DISCONNECT" /\ DropsKeys(a)
           \/ ~IsKey(x) /\ KeysStay
<1> DEFINE x == Head(toServer[a])
<1>1. Typed /\ Records /\ processing = 0 /\ toServer[a] \in Seq(Message) /\ toServer[a] # <<>>
  BY DEF IInv, Typed, Receive
<1>2. /\ x \in Message /\ x.n \in Nat
      /\ \A r : x.op = r => Asked(a, r)
  <2>1. x \in Message /\ 1 \in DOMAIN toServer[a] /\ x = toServer[a][1]
    BY <1>1
  <2> QED BY <2>1 DEF Message, Asked, Range
<1>3. \/ x.op = "XCONNECT" /\ ReadXConnectMessage(a)
      \/ Connected(a) /\ _Xi18nMessageHandler(a, x)
  BY DEF Receive
<1> HIDE DEF x
<1>4. CASE x.op = "XCONNECT" /\ ReadXConnectMessage(a)
  BY <1>2, <1>4, XConnectKeys DEF IsKey, x
<1>5. CASE Connected(a) /\ x.op = "DISCONNECT" /\ DisConnectMessageProc(a)
  BY <1>1, <1>5, DisConnectKeys DEF x
<1>6. CASE Connected(a) /\ x.op = "FORWARD_EVENT" /\ ForwardEvent(a, x.n)
  BY <1>1, <1>2, <1>6, ForwardKeys DEF IsKey, x
<1>7. CASE Connected(a) /\ \/ x.op = "CONNECT" /\ ConnectMessageProc(a)
                           \/ x.op = "SYNC_REPLY" /\ SyncReplyMessageProc(a)
  BY <1>1, <1>7, MarkKeys DEF IsKey, x
<1>8. CASE x.op # "FORWARD_EVENT" /\ UNCHANGED <<core, handled>>
  BY <1>8, SameClients DEF IsKey, core, x
<1>9. Connected(a) /\ _Xi18nMessageHandler(a, x) /\ x.op \notin {"CONNECT", "DISCONNECT", "FORWARD_EVENT", "SYNC_REPLY"}
         => UNCHANGED <<core, handled>>
  BY DEF _Xi18nMessageHandler, OpenMessageProc, CloseMessageProc, CreateICMessageProc,
         SetICValuesMessageProc, GetICValuesMessageProc, DestroyICMessageProc,
         SetICFocusMessageProc, UnsetICFocusMessageProc, TriggerNotifyMessageProc,
         QueryExtensionMessageProc, GetIMValuesMessageProc, ResetICMessageProc,
         EncodingNegotiatonMessageProc, ExtForwardKeyEventMessageProc, ExtMoveMessageProc,
         PreeditStartReplyMessageProc, PreeditCaretReplyMessageProc, Answered, Unheeded
<1>10. /\ x.op = "CONNECT" /\ _Xi18nMessageHandler(a, x) => ConnectMessageProc(a)
       /\ x.op = "DISCONNECT" /\ _Xi18nMessageHandler(a, x) => DisConnectMessageProc(a)
       /\ x.op = "FORWARD_EVENT" /\ _Xi18nMessageHandler(a, x) => ForwardEvent(a, x.n)
       /\ x.op = "SYNC_REPLY" /\ _Xi18nMessageHandler(a, x) => SyncReplyMessageProc(a)
  <2>1. ASSUME NEW op, x.op = op, op \in {"CONNECT", "DISCONNECT", "FORWARD_EVENT", "SYNC_REPLY"},
               _Xi18nMessageHandler(a, x)
        PROVE  \/ op = "CONNECT" /\ ConnectMessageProc(a)
               \/ op = "DISCONNECT" /\ DisConnectMessageProc(a)
               \/ op = "FORWARD_EVENT" /\ ForwardEvent(a, x.n)
               \/ op = "SYNC_REPLY" /\ SyncReplyMessageProc(a)
    BY <2>1 DEF _Xi18nMessageHandler
  <2> QED BY <2>1
<1> QED BY <1>3, <1>4, <1>5, <1>6, <1>7, <1>8, <1>9, <1>10

\* The first key that waits goes to the handler.
LEMMA FirstKey ==
    ASSUME Typed, Records, NEW a \in App, NEW i \in DOMAIN clients, NEW c, NEW key,
           clients[i].win = a, clients[i].pending # <<>>,
           c = [clients[i] EXCEPT !.pending = Tail(clients[i].pending)],
           key = Head(clients[i].pending),
           ForwardEventMessageProc(i, c, key)
    PROVE  DrainsKey(a)
<1>1. clients[i] \in Record
  BY DEF Typed, WireTypeOK, Record
<1>2. \A q \in Seq(Nat) : LET e == [clients[i] EXCEPT !.pending = q]
                          IN  e \in Record /\ e.win = a /\ e.pending = q
  BY <1>1 DEF Record
<1>3. Tail(clients[i].pending) \in Seq(Nat)
  BY <1>1 DEF Record
<1>4. c \in Record /\ c.win = a /\ c.pending = Tail(clients[i].pending)
  BY <1>2, <1>3
<1>5. /\ waiting(a) = clients[i].pending /\ waiting(a)' = c.pending
      /\ OthersWait(a) /\ handled' = [handled EXCEPT ![a] = key]
  BY ONLY Records, i \in DOMAIN clients, clients[i].win = a, <1>4,
          ForwardEventMessageProc(i, c, key), KeyPasses
<1> QED BY <1>4, <1>5 DEF DrainsKey

LEMMA QueueKeys ==
    ASSUME IInv, ProcessQueue
    PROVE  \/ \E a \in App : DrainsKey(a)
           \/ KeysStay
<1>1. Typed /\ Records
  BY DEF IInv
<1>2. processing \in DOMAIN clients
  BY <1>1 DEF ProcessQueue, Typed, WireTypeOK
<1>3. \A i \in DOMAIN clients : clients[i].win \in App
  BY <1>1 DEF Typed, WireTypeOK
<1>4. ASSUME NEW i \in DOMAIN clients, NEW a \in App, i = processing, clients[i].win = a,
             ~clients[i].sync /\ clients[i].pending # <<>>
      PROVE  DrainsKey(a)
  <2>1. ForwardEventMessageProc(i, [clients[i] EXCEPT !.pending = Tail(clients[i].pending)],
                                Head(clients[i].pending))
    BY <1>4 DEF ProcessQueue
  <2> QED BY <1>1, <1>4, <2>1, FirstKey
<1>5. CASE ~(~clients[processing].sync /\ clients[processing].pending # <<>>)
  <2>1. UNCHANGED <<clients, handled>>
    BY <1>5 DEF ProcessQueue
  <2> QED BY <2>1, SameClients
<1> QED BY <1>2, <1>3, <1>4, <1>5


-----------------------------------------------------------------------------
(***************************************************************************)
(* The keys on the way of a client, and what a step does to them.          *)
(***************************************************************************)
LEMMA JoinedKeys ==
    ASSUME NEW u \in Seq(Nat), NEW v \in Seq(Nat), NEW n \in Nat
    PROVE  /\ u \o v \in Seq(Nat) /\ <<>> \o v = v /\ u \o <<>> = u
           /\ Append(u, n) \in Seq(Nat) /\ Append(u, n) # <<>> /\ Len(Append(u, n)) = Len(u) + 1
           /\ u \o Append(v, n) = Append(u \o v, n)
           /\ Append(u, n) \o v = u \o (Append(<<>>, n) \o v)
           /\ u # <<>> => /\ u \o v # <<>> /\ Head(u \o v) = Head(u)
                          /\ Tail(u \o v) = Tail(u) \o v
<1>1. u \o v \in Seq(Nat) /\ <<>> \o v = v /\ u \o <<>> = u
  OBVIOUS
<1>2. Append(u, n) \in Seq(Nat) /\ Append(u, n) # <<>> /\ Len(Append(u, n)) = Len(u) + 1
  <2>1. Append(u, n) \in Seq(Nat) /\ Len(Append(u, n)) = Len(u) + 1 /\ Len(u) \in Nat
    OBVIOUS
  <2> QED BY <2>1, EmptySeq
<1>3. u \o Append(v, n) = Append(u \o v, n)
  OBVIOUS
<1>4. Append(u, n) \o v = u \o (Append(<<>>, n) \o v)
  OBVIOUS
<1>5. ASSUME u # <<>>
      PROVE  u \o v # <<>> /\ Head(u \o v) = Head(u) /\ Tail(u \o v) = Tail(u) \o v
  <2>1. Len(u) \in Nat \ {0} /\ Len(v) \in Nat /\ Len(u \o v) = Len(u) + Len(v)
    BY <1>5, EmptySeq
  <2>2. u \o v # <<>>
    BY <2>1
  <2>3. Head(u \o v) = Head(u)
    BY <2>1
  <2>4. Tail(u \o v) = Tail(u) \o v
    BY <1>5, <2>1
  <2> QED BY <2>2, <2>3, <2>4
<1> QED BY <1>1, <1>2, <1>3, <1>4, <1>5

\* The keys of q are those after the key h, one by one.
Numbered(q, h) == \A j \in 1 .. Len(q) : q[j] = h + j

LEMMA NumberedTail ==
    ASSUME NEW q \in Seq(Nat), q # <<>>, NEW h \in Nat, Numbered(q, h)
    PROVE  /\ Head(q) = h + 1 /\ Tail(q) \in Seq(Nat) /\ Len(Tail(q)) = Len(q) - 1
           /\ Len(q) \in Nat /\ Numbered(Tail(q), h + 1)
<1>1. /\ Len(q) \in Nat \ {0} /\ Head(q) = q[1] /\ Tail(q) \in Seq(Nat)
      /\ Len(Tail(q)) = Len(q) - 1
      /\ \A j \in 1 .. Len(q) - 1 : Tail(q)[j] = q[j + 1]
  BY EmptySeq
<1>2. Head(q) = h + 1
  BY <1>1 DEF Numbered
<1>3. ASSUME NEW j \in 1 .. Len(Tail(q)) PROVE Tail(q)[j] = (h + 1) + j
  <2>1. j \in 1 .. Len(q) - 1 /\ j + 1 \in 1 .. Len(q)
    BY <1>1
  <2>2. Tail(q)[j] = q[j + 1] /\ q[j + 1] = h + (j + 1)
    BY <1>1, <2>1 DEF Numbered
  <2> QED BY <2>1, <2>2
<1> QED BY <1>1, <1>2, <1>3 DEF Numbered

LEMMA NumberedAppend ==
    ASSUME NEW q \in Seq(Nat), NEW h \in Nat, Numbered(q, h), NEW n \in Nat, n = h + Len(q) + 1
    PROVE  Numbered(Append(q, n), h)
<1>1. /\ Len(q) \in Nat /\ Len(Append(q, n)) = Len(q) + 1 /\ Append(q, n)[Len(q) + 1] = n
      /\ \A j \in 1 .. Len(q) : Append(q, n)[j] = q[j]
  OBVIOUS
<1>2. ASSUME NEW j \in 1 .. Len(q) + 1 PROVE Append(q, n)[j] = h + j
  <2>1. CASE j = Len(q) + 1
    BY <1>1, <2>1
  <2>2. CASE j # Len(q) + 1
    <3>1. j \in 1 .. Len(q)
      BY <1>1, <2>2
    <3> QED BY <1>1, <3>1 DEF Numbered
  <2> QED BY <2>1, <2>2
<1> QED BY <1>1, <1>2 DEF Numbered

LEMMA LineTyped ==
    ASSUME Typed, NEW a \in App
    PROVE  waiting(a) \in Seq(Nat) /\ keys_of(toServer[a]) \in Seq(Nat)
           /\ KeysOnTheWay(a) \in Seq(Nat)
<1>1. waiting(a) \in Seq(Nat)
  <2>1. CASE Connected(a)
    BY <2>1, IdOf DEF Typed, WireTypeOK, waiting
  <2>2. CASE ~Connected(a)
    BY <2>2 DEF waiting
  <2> QED BY <2>1, <2>2
<1>2. keys_of(toServer[a]) \in Seq(Nat)
  <2>1. toServer[a] \in Seq(Message)
    BY DEF Typed
  <2> QED BY <2>1, KeysTyped
<1>3. waiting(a) \o keys_of(toServer[a]) \in Seq(Nat)
  BY <1>1, <1>2, JoinedKeys
<1> QED BY <1>1, <1>2, <1>3 DEF KeysOnTheWay

\* The stages of a client that will type no more.
Ending == {"closed", "gone", "dead"}

\* The keys on the way of a client are numbered on from the last one that was
\* handled to the last one it typed.
Counted(a) ==
    /\ Numbered(KeysOnTheWay(a), handled[a])
    /\ lib[a].stage \notin Ending => lib[a].typed = handled[a] + Len(KeysOnTheWay(a))

OthersRest(a) == \A b \in App : b # a => KeysOnTheWay(b)' = KeysOnTheWay(b)

\* No key moves; or one of a client is typed, or handled; or all are given up.
Rests == (\A b \in App : KeysOnTheWay(b)' = KeysOnTheWay(b)) /\ UNCHANGED handled

Typing(a) == /\ lib[a].stage = "ic" /\ lib'[a].typed = lib[a].typed + 1
             /\ KeysOnTheWay(a)' = Append(KeysOnTheWay(a), lib[a].typed + 1)
             /\ OthersRest(a) /\ UNCHANGED handled

Handling(a) == /\ KeysOnTheWay(a) # <<>>
               /\ KeysOnTheWay(a)' = Tail(KeysOnTheWay(a))
               /\ OthersRest(a) /\ handled' = [handled EXCEPT ![a] = Head(KeysOnTheWay(a))]

GivingUp(a) == /\ lib[a].stage \in Ending /\ KeysOnTheWay(a)' = <<>>
               /\ OthersRest(a) /\ UNCHANGED handled


LEMMA ReceiveMoves ==
    ASSUME IInv, NoKeyStranded, NEW a \in App, Behaves(a), Receive(a)
    PROVE  Rests \/ Handling(a) \/ GivingUp(a)
<1> DEFINE s == toServer[a]
           x == Head(s)
           t == Tail(s)
           w == waiting(a)
<1>1. Typed /\ OneAtATime(a) /\ s \in Seq(Message) /\ s # <<>>
  BY DEF IInv, ClientInv, Typed, Receive
<1>2. /\ toServer'[a] = t /\ x \in Message /\ x.n \in Nat /\ x = s[1] /\ 1 \in DOMAIN s
      /\ t \in Seq(Message)
      /\ \A b \in App : b # a => toServer'[b] = toServer[b]
  <2>1. x \in Message /\ 1 \in DOMAIN s /\ x = s[1] /\ t \in Seq(Message)
    BY <1>1
  <2>2. x.n \in Nat
    BY <2>1 DEF Message
  <2> QED BY <2>1, <2>2 DEF Receive, Taken, IInv, Typed
<1>3. \/ IsKey(x) /\ (TakesKey(a, x.n) \/ QueuesKey(a, x.n))
      \/ x.op = "DISCONNECT" /\ DropsKeys(a)
      \/ ~IsKey(x) /\ KeysStay
  BY ReceiveKeys
<1>4. keys_of(s) = with(<<>>, x) \o keys_of(t)
  BY <1>1, KeysTail
<1>5. w \in Seq(Nat) /\ keys_of(t) \in Seq(Nat) /\ <<>> \in Seq(Nat)
  <2>1. w \in Seq(Nat)
    BY <1>1, LineTyped
  <2>2. keys_of(t) \in Seq(Nat)
    BY <1>2, KeysTyped
  <2> QED BY <2>1, <2>2
<1>6. /\ KeysOnTheWay(a) = w \o keys_of(s)
      /\ KeysOnTheWay(a)' = waiting(a)' \o keys_of(t)
  BY <1>2 DEF KeysOnTheWay
<1>7. (\A b \in App : b # a => waiting(b)' = waiting(b)) => OthersRest(a)
  BY <1>2 DEF OthersRest, KeysOnTheWay
<1> HIDE DEF s, x, t, w
<1>8. CASE IsKey(x) /\ TakesKey(a, x.n)
  <2>1. with(<<>>, x) = Append(<<>>, x.n)
    BY <1>8 DEF with
  <2>2. w = <<>> /\ waiting(a)' = <<>> /\ handled' = [handled EXCEPT ![a] = x.n]
    BY <1>8 DEF TakesKey, w
  <2>3. /\ Append(<<>>, x.n) \in Seq(Nat) /\ Append(<<>>, x.n) # <<>>
        /\ Head(Append(<<>>, x.n)) = x.n /\ Tail(Append(<<>>, x.n)) = <<>>
    BY <1>2
  <2>4. KeysOnTheWay(a) = Append(<<>>, x.n) \o keys_of(t)
    <3> DEFINE v == Append(<<>>, x.n) \o keys_of(t)
    <3>1. v \in Seq(Nat)
      BY <1>2, <1>5, <2>3, JoinedKeys
    <3>2. keys_of(s) = v
      BY <1>4, <2>1
    <3> HIDE DEF v
    <3>3. <<>> \o v = v
      BY <3>1
    <3> QED BY <1>6, <2>2, <3>2, <3>3 DEF v
  <2>5. /\ KeysOnTheWay(a) # <<>> /\ Head(KeysOnTheWay(a)) = x.n
        /\ Tail(KeysOnTheWay(a)) = <<>> \o keys_of(t)
    BY <1>2, <1>5, <2>3, <2>4, JoinedKeys
  <2>6. OthersRest(a)
    BY <1>7, <1>8 DEF TakesKey, OthersWait
  <2>7. KeysOnTheWay(a)' = Tail(KeysOnTheWay(a))
    BY <1>6, <2>2, <2>5
  <2> QED BY <2>2, <2>5, <2>6, <2>7 DEF Handling
<1>9. CASE IsKey(x) /\ QueuesKey(a, x.n)
  <2>1. with(<<>>, x) = Append(<<>>, x.n)
    BY <1>9 DEF with
  <2>2. waiting(a)' = Append(w, x.n) /\ UNCHANGED handled
    BY <1>9 DEF QueuesKey, w
  <2>3. Append(w, x.n) \o keys_of(t) = w \o (Append(<<>>, x.n) \o keys_of(t))
    BY <1>2, <1>5, JoinedKeys
  <2>4. KeysOnTheWay(a)' = KeysOnTheWay(a)
    BY <1>4, <1>6, <2>1, <2>2, <2>3
  <2>5. OthersRest(a)
    BY <1>7, <1>9 DEF QueuesKey, OthersWait
  <2> QED BY <2>2, <2>4, <2>5 DEF Rests, OthersRest
<1>10. CASE x.op = "DISCONNECT" /\ DropsKeys(a)
  <2>1. Len(s) = 1
    BY <1>2, <1>10 DEF Behaves, s
  <2>2. t = <<>>
    <3>1. Len(t) = 0
      BY <1>1, <2>1 DEF t, s
    <3> QED BY <1>2, <3>1, EmptySeq
  <2>3. KeysOnTheWay(a)' = <<>>
    BY <1>6, <1>10, <2>2, KeysEmpty, JoinedKeys DEF DropsKeys
  <2>4. lib[a].stage \in Ending
    <3>1. x \in Range(s) /\ x.op \in Requests
      BY <1>2, <1>10 DEF Range, Requests
    <3>2. lib[a].awaits = "DISCONNECT" \/ Dead(a)
      BY <1>1, <1>10, <3>1 DEF OneAtATime, s
    <3>3. lib[a].awaits = "DISCONNECT" => lib[a].stage \in before("DISCONNECT")
      BY DEF Behaves
    <3> QED BY <3>2, <3>3 DEF before, Questions, Dead, Ending
  <2>5. OthersRest(a) /\ UNCHANGED handled
    BY <1>7, <1>10 DEF DropsKeys, OthersWait
  <2> QED BY <2>3, <2>4, <2>5 DEF GivingUp
<1>11. CASE ~IsKey(x) /\ KeysStay
  <2>1. keys_of(s) = keys_of(t)
    BY <1>4, <1>5, <1>11, JoinedKeys DEF with
  <2>2. waiting(a)' = w /\ UNCHANGED handled /\ OthersRest(a)
    BY <1>7, <1>11 DEF KeysStay, w
  <2>3. KeysOnTheWay(a)' = KeysOnTheWay(a)
    BY <1>6, <2>1, <2>2
  <2> QED BY <2>2, <2>3 DEF Rests, OthersRest
<1> QED BY <1>3, <1>8, <1>9, <1>10, <1>11

\* Where the messages stay, so does what is not waiting.
LEMMA QueueMoves ==
    ASSUME IInv, ProcessQueue
    PROVE  Rests \/ \E a \in App : Handling(a)
<1>1. UNCHANGED toServer /\ Typed
  BY DEF ProcessQueue, IInv
<1>2. CASE KeysStay
  BY <1>1, <1>2 DEF KeysStay, Rests, KeysOnTheWay
<1>3. ASSUME NEW a \in App, DrainsKey(a) PROVE Handling(a)
  <2> DEFINE w == waiting(a)
             k == keys_of(toServer[a])
  <2>1. w \in Seq(Nat) /\ k \in Seq(Nat)
    BY <1>1, LineTyped
  <2>2. w # <<>> /\ waiting(a)' = Tail(w) /\ handled' = [handled EXCEPT ![a] = Head(w)]
    BY <1>3 DEF DrainsKey
  <2>3. KeysOnTheWay(a) = w \o k /\ KeysOnTheWay(a)' = waiting(a)' \o k
    BY <1>1 DEF KeysOnTheWay
  <2>4. OthersRest(a)
    BY <1>1, <1>3 DEF DrainsKey, OthersWait, OthersRest, KeysOnTheWay
  <2> HIDE DEF w, k
  <2>5. w \o k # <<>> /\ Head(w \o k) = Head(w) /\ Tail(w \o k) = Tail(w) \o k
    BY <2>1, <2>2, JoinedKeys
  <2> QED BY <2>2, <2>3, <2>4, <2>5 DEF Handling
<1> QED BY <1>2, <1>3, QueueKeys


LEMMA StillRests ==
    ASSUME UNCHANGED <<clients, handled>>, NEW a \in App,
           \A b \in App : b # a => toServer'[b] = toServer[b]
    PROVE  /\ OthersRest(a)
           /\ keys_of(toServer'[a]) = keys_of(toServer[a]) => Rests
<1>1. KeysStay
  BY SameClients
<1> QED BY <1>1 DEF KeysStay, OthersRest, Rests, KeysOnTheWay

\* What a client typed is no less, and a stage that ends is not left.
Lasts(b) == /\ lib'[b].stage \notin Ending => lib[b].stage \notin Ending
            /\ lib'[b].typed = lib[b].typed

LEMMA ClientLasts ==
    ASSUME Typed, NEW a \in App, Others(a), OneAtATime(a), Behaves(a)
    PROVE  /\ \A b \in App : b # a => Lasts(b)
           /\ \A r \in Requests : Requesting(a, r) => Lasts(a)
           /\ \A x \in Message : Telling(a, x) /\ ~IsKey(x) => Lasts(a)
           /\ Hears(a) \/ Dying(a) => Lasts(a)
<1>1. ASSUME NEW b \in App, b # a PROVE Lasts(b)
  BY <1>1 DEF Others, Lasts
<1>2. ASSUME NEW r \in Requests, Requesting(a, r) PROVE Lasts(a)
  BY <1>2 DEF Requesting, Asks, Lasts
<1>3. ASSUME NEW x \in Message, Telling(a, x), ~IsKey(x) PROVE Lasts(a)
  BY <1>3 DEF Telling, Tells, Lasts
<1>4. ASSUME Dying(a) PROVE Lasts(a)
  BY <1>4 DEF Dying, Dies, Lasts, Ending
<1>5. ASSUME Hears(a) PROVE Lasts(a)
  <2> DEFINE x == Head(toClient[a])
             l == heard(lib[a], x)
  <2>1. lib[a] \in Client /\ toClient[a] \in Seq(Message) /\ toClient[a] # <<>> /\ lib'[a] = l
    BY <1>5 DEF Typed, Hears
  <2>2. x \in Message /\ x \in Range(toClient[a])
    <3>1. x \in Message /\ 1 \in DOMAIN toClient[a] /\ x = toClient[a][1]
      BY <2>1
    <3> QED BY <3>1 DEF Range
  <2> HIDE DEF x
  <2>3. /\ l.typed = lib[a].typed
        /\ x.op # "REPLY" => l.stage = lib[a].stage
        /\ x.op = "REPLY" => l.stage = after(x.to)
    BY <2>1, <2>2, HeardKeeps, HeardTyped
  <2> HIDE DEF l
  <2>4. CASE x.op # "REPLY"
    BY <2>1, <2>3, <2>4 DEF Lasts
  <2>5. CASE x.op = "REPLY"
    <3>1. lib[a].awaits = x.to /\ x.to \in Requests
      BY <2>2, <2>5 DEF OneAtATime, Message
    <3>2. lib[a].stage \in before(x.to)
      BY <3>1, Sayings DEF Behaves
    <3>3. after(x.to) \notin Ending => lib[a].stage \notin Ending
      BY <3>1, <3>2 DEF Requests, Questions, before, after, Ending
    <3> QED BY <2>1, <2>3, <2>5, <3>3 DEF Lasts
  <2> QED BY <2>4, <2>5
<1> QED BY <1>1, <1>2, <1>3, <1>4, <1>5

LEMMA ClientMoves ==
    ASSUME Typed, NEW a \in App, ClientActs(a), OneAtATime(a), Behaves(a)
    PROVE  /\ \A b \in App : b # a => Lasts(b)
           /\ Typing(a) \/ (Rests /\ Lasts(a))
<1>1. Others(a) /\ Speaks(a)
  BY ClientSpeaks
<1>2. UNCHANGED <<clients, handled>> /\ \A b \in App : b # a => toServer'[b] = toServer[b]
  BY <1>1, ClientKeeps DEF core, Others
<1>3. toServer[a] \in Seq(Message)
  BY DEF Typed
<1>4. ASSUME NEW x \in Message, ~IsKey(x), toServer'[a] = Append(toServer[a], x) PROVE Rests
  <2>1. keys_of(toServer'[a]) = keys_of(toServer[a])
    BY <1>3, <1>4, KeysAppend DEF with
  <2> QED BY <1>2, <2>1, StillRests
<1>5. ASSUME NEW r \in Requests, Requesting(a, r) PROVE Rests /\ Lasts(a)
  <2>1. m(r) \in Message /\ ~IsKey(m(r))
    BY Sayings DEF IsKey
  <2>2. toServer'[a] = Append(toServer[a], m(r))
    BY <1>5 DEF Requesting, Asks
  <2>3. Lasts(a)
    BY <1>1, <1>5, ClientLasts
  <2> QED BY <1>4, <2>1, <2>2, <2>3
<1>6. ASSUME NEW x \in Message, Telling(a, x) PROVE Typing(a) \/ (Rests /\ Lasts(a))
  <2>1. toServer'[a] = Append(toServer[a], x)
    BY <1>6 DEF Telling, Tells
  <2>2. CASE ~IsKey(x)
    BY <1>1, <1>4, <1>6, <2>1, <2>2, ClientLasts
  <2>3. CASE IsKey(x)
    <3>1. lib[a].stage = "ic" /\ x.n = lib[a].typed + 1 /\ lib'[a].typed = lib[a].typed + 1
      BY <1>6, <2>3 DEF Telling
    <3>2. keys_of(toServer'[a]) = Append(keys_of(toServer[a]), x.n)
      BY <1>3, <2>1, <2>3, KeysAppend DEF with
    <3>3. waiting(a)' = waiting(a)
      BY <1>2, SameClients DEF KeysStay
    <3>4. waiting(a) \in Seq(Nat) /\ keys_of(toServer[a]) \in Seq(Nat) /\ x.n \in Nat
      BY LineTyped DEF Message
    <3>5. KeysOnTheWay(a)' = waiting(a) \o Append(keys_of(toServer[a]), x.n)
      BY <3>2, <3>3 DEF KeysOnTheWay
    <3>6. KeysOnTheWay(a)' = Append(KeysOnTheWay(a), x.n)
      BY <3>4, <3>5, JoinedKeys DEF KeysOnTheWay
    <3>7. OthersRest(a)
      BY <1>2, StillRests
    <3> QED BY <1>2, <3>1, <3>6, <3>7 DEF Typing
  <2> QED BY <2>2, <2>3
<1>7. ASSUME Hears(a) \/ Dying(a) PROVE Rests /\ Lasts(a)
  <2>1. UNCHANGED toServer
    BY <1>7 DEF Hears, Dying, Dies
  <2>2. Lasts(a)
    BY <1>1, <1>7, ClientLasts
  <2> QED BY <1>2, <2>1, <2>2, StillRests
<1>8. \A b \in App : b # a => Lasts(b)
  BY <1>1, ClientLasts
<1> QED BY <1>1, <1>5, <1>6, <1>7, <1>8 DEF Speaks


-----------------------------------------------------------------------------
(***************************************************************************)
(* The invariant, and the channel of each client.                          *)
(***************************************************************************)
Moved ==
    \/ Rests /\ \A b \in App : Lasts(b)
    \/ \E a \in App : Typing(a) /\ \A b \in App : b # a => Lasts(b)
    \/ \E a \in App : (Handling(a) \/ GivingUp(a)) /\ \A b \in App : Lasts(b)

OrderInv == IInv /\ NoKeyStranded /\ \A b \in App : Behaves(b) /\ Counted(b)

LEMMA SameBehaves ==
    ASSUME NEW b \in App, Behaves(b), UNCHANGED <<toServer, toClient, lib>>
    PROVE  Behaves(b)'
BY DEF Behaves, Dead

LEMMA ServerBehaves ==
    ASSUME IInv, NEW b \in App, Behaves(b), ServerActs
    PROVE  Behaves(b)'
<1>1. Typed /\ OneAtATime(b)
  BY DEF IInv, ClientInv
<1>2. ASSUME NEW a \in App, Receive(a) PROVE Behaves(b)'
  <2> DEFINE op == Head(toServer[a]).op
  <2>1. Handled(a, op) /\ UNCHANGED lib /\ Takes(a, op)
    BY <1>1, <1>2, ReceiveStep DEF Takes
  <2> HIDE DEF op
  <2> QED BY <1>1, <2>1, HandledBehaves
<1>3. CASE ProcessQueue
  <2>1. UNCHANGED <<toServer, lib>> /\ UNCHANGED lib
    BY <1>1, <1>3, QueueStep
  <2>2. ASSUME NEW a \in App, Handled(a, "FORWARD_EVENT") PROVE Behaves(b)'
    <3>1. Takes(a, "FORWARD_EVENT")
      BY <2>1, Sayings DEF Takes
    <3> QED BY <1>1, <2>1, <2>2, <3>1, HandledBehaves
  <2>3. UNCHANGED toClient => Behaves(b)'
    BY <2>1, SameBehaves
  <2> QED BY <1>1, <1>3, <2>2, <2>3, QueueStep
<1>4. CASE XimClose
  <2>1. UNCHANGED <<toServer, lib>> /\ UNCHANGED lib
    BY <1>1, <1>4, CloseStep
  <2>2. ASSUME NEW a \in App, Handled(a, "EXIT") PROVE Behaves(b)'
    <3>1. Takes(a, "EXIT")
      BY <2>1 DEF Takes, Requests
    <3> QED BY <1>1, <2>1, <2>2, <3>1, HandledBehaves
  <2>3. UNCHANGED toClient => Behaves(b)'
    BY <2>1, SameBehaves
  <2> QED BY <1>1, <1>4, <2>2, <2>3, CloseStep
<1> QED BY <1>2, <1>3, <1>4 DEF ServerActs

LEMMA SameMoved ==
    ASSUME UNCHANGED <<clients, handled, toServer, lib>>
    PROVE  Moved
<1>1. \A b \in App : Lasts(b)
  BY DEF Lasts
<1>2. Rests
  <2>1. KeysStay
    BY SameClients
  <2> QED BY <2>1 DEF KeysStay, Rests, KeysOnTheWay
<1> QED BY <1>1, <1>2 DEF Moved

LEMMA NextMoved ==
    ASSUME OrderInv, [Next]_vars
    PROVE  Moved /\ \A b \in App : Behaves(b)'
<1>1. IInv /\ Typed /\ NoKeyStranded /\ \A b \in App : Behaves(b) /\ OneAtATime(b)
  BY DEF OrderInv, IInv, ClientInv
<1>2. CASE ServerActs
  <2>1. \A b \in App : Behaves(b)'
    BY <1>1, <1>2, ServerBehaves
  <2>2. UNCHANGED lib => \A b \in App : Lasts(b)
    BY DEF Lasts
  <2>3. ASSUME NEW a \in App, Receive(a) PROVE Moved
    <3>1. UNCHANGED lib
      BY <2>3 DEF Receive
    <3> QED BY <1>1, <2>2, <2>3, <3>1, ReceiveMoves DEF Moved
  <2>4. ASSUME ProcessQueue PROVE Moved
    <3>1. UNCHANGED lib
      BY <2>4 DEF ProcessQueue
    <3> QED BY <1>1, <2>2, <2>4, <3>1, QueueMoves DEF Moved
  <2>5. ASSUME XimClose PROVE Moved
    <3>1. UNCHANGED <<clients, handled, toServer, lib>>
      BY <2>5 DEF XimClose
    <3> QED BY <3>1, SameMoved
  <2> QED BY <1>2, <2>1, <2>3, <2>4, <2>5 DEF ServerActs
<1>3. ASSUME NEW a \in App, ClientActs(a) PROVE Moved /\ \A b \in App : Behaves(b)'
  <2>1. Others(a) /\ Speaks(a)
    BY <1>1, <1>3, ClientSpeaks
  <2>2. \A b \in App : Behaves(b)'
    BY <1>1, <2>1, ClientBehaves
  <2>3. /\ \A b \in App : b # a => Lasts(b)
        /\ Typing(a) \/ (Rests /\ Lasts(a))
    BY <1>1, <1>3, ClientMoves
  <2> QED BY <2>2, <2>3 DEF Moved
<1>4. CASE UNCHANGED vars
  <2>1. UNCHANGED <<clients, handled, toServer, lib, toClient>>
    BY <1>4 DEF vars, core
  <2> QED BY <1>1, <2>1, SameMoved, SameBehaves
<1> QED BY <1>2, <1>3, <1>4, NextActs

\* The count of a client whose keys rest.
LEMMA RestCounted ==
    ASSUME NEW b \in App, Counted(b), Lasts(b), KeysOnTheWay(b)' = KeysOnTheWay(b),
           handled'[b] = handled[b]
    PROVE  Counted(b)'
BY DEF Counted, Lasts, Numbered

LEMMA TypingCounted ==
    ASSUME Typed, NEW a \in App, Counted(a), Typing(a)
    PROVE  /\ Counted(a)'
           /\ lib[a].typed + 1 = handled[a] + Len(KeysOnTheWay(a)) + 1
<1> DEFINE q == KeysOnTheWay(a)
           h == handled[a]
           n == lib[a].typed + 1
<1>1. q \in Seq(Nat) /\ Len(q) \in Nat /\ h \in Nat /\ lib[a].typed \in Nat
  <2>1. q \in Seq(Nat)
    BY LineTyped
  <2>2. h \in Nat /\ lib[a] \in Client
    BY DEF Typed, WireTypeOK
  <2>3. lib[a].typed \in Nat
    BY <2>2 DEF Client
  <2> HIDE DEF q, h
  <2> QED BY <2>1, <2>2, <2>3
<1>2. /\ KeysOnTheWay(a)' = Append(q, n) /\ handled'[a] = h /\ lib'[a].typed = n
      /\ lib[a].stage = "ic"
  BY DEF Typing
<1>3. lib[a].typed = h + Len(q) /\ Numbered(q, h)
  BY <1>2 DEF Counted, Ending
<1>4. n = h + Len(q) + 1 /\ n \in Nat
  BY <1>1, <1>3
<1> HIDE DEF q, h, n
<1>5. Numbered(Append(q, n), h)
  BY <1>1, <1>3, <1>4, NumberedAppend
<1>6. Len(Append(q, n)) = Len(q) + 1
  BY <1>1, <1>4
<1>7. n = h + Len(Append(q, n))
  BY <1>1, <1>4, <1>6
<1>8. Counted(a)'
  BY <1>2, <1>5, <1>7 DEF Counted
<1> QED BY <1>4, <1>8 DEF q, h, n

LEMMA HandlingCounted ==
    ASSUME Typed, NEW a \in App, Counted(a), Handling(a), Lasts(a)
    PROVE  Counted(a)'
<1> DEFINE q == KeysOnTheWay(a)
           h == handled[a]
<1>1. q \in Seq(Nat) /\ h \in Nat /\ DOMAIN handled = App
  <2>1. q \in Seq(Nat)
    BY LineTyped
  <2> QED BY <2>1 DEF Typed, WireTypeOK
<1>2. q # <<>> /\ KeysOnTheWay(a)' = Tail(q) /\ handled'[a] = Head(q)
  BY <1>1 DEF Handling
<1>3. Numbered(q, h)
  BY DEF Counted
<1>4. lib'[a].stage \notin Ending => lib'[a].typed = h + Len(q)
  BY DEF Counted, Lasts
<1> HIDE DEF q, h
<1>5. /\ Head(q) = h + 1 /\ Len(Tail(q)) = Len(q) - 1 /\ Len(q) \in Nat
      /\ Numbered(Tail(q), h + 1)
  BY <1>1, <1>2, <1>3, NumberedTail
<1>6. h + Len(q) = (h + 1) + Len(Tail(q))
  <2>1. \A n \in Nat : h + n = (h + 1) + (n - 1)
    BY <1>1
  <2> QED BY <1>5, <2>1
<1>7. handled'[a] = h + 1
  BY <1>2, <1>5
<1> QED BY <1>2, <1>4, <1>5, <1>6, <1>7 DEF Counted

LEMMA GivingUpCounted ==
    ASSUME Typed, NEW a \in App, GivingUp(a), Lasts(a)
    PROVE  Counted(a)'
<1>1. KeysOnTheWay(a)' = <<>> /\ lib[a].stage \in Ending
  BY DEF GivingUp
<1>2. lib'[a].stage \in Ending
  BY <1>1 DEF Lasts
<1>3. Numbered(<<>>, handled'[a])
  BY DEF Numbered
<1> QED BY <1>1, <1>2, <1>3 DEF Counted

LEMMA MovedCounted ==
    ASSUME Typed, \A b \in App : Counted(b), Moved, NEW b \in App
    PROVE  Counted(b)'
<1>0. DOMAIN handled = App
  BY DEF Typed, WireTypeOK
<1>1. CASE Rests /\ Lasts(b)
  BY <1>1, RestCounted DEF Rests
<1>2. ASSUME NEW a \in App, Typing(a), b # a => Lasts(b) PROVE Counted(b)'
  <2>1. CASE b = a
    BY <1>2, <2>1, TypingCounted
  <2>2. CASE b # a
    BY <1>2, <2>2, RestCounted DEF Typing, OthersRest
  <2> QED BY <2>1, <2>2
<1>3. ASSUME NEW a \in App, Handling(a) \/ GivingUp(a), Lasts(b) PROVE Counted(b)'
  <2>1. CASE b = a
    BY <1>3, <2>1, HandlingCounted, GivingUpCounted
  <2>2. CASE b # a
    <3>1. handled'[b] = handled[b] /\ KeysOnTheWay(b)' = KeysOnTheWay(b)
      BY <1>0, <1>3, <2>2 DEF Handling, GivingUp, OthersRest
    <3> QED BY <1>3, <3>1, RestCounted
  <2> QED BY <2>1, <2>2
<1> QED BY <1>1, <1>2, <1>3 DEF Moved


\* Every move is one of the channel, or none.
LEMMA MovedChannel ==
    ASSUME Typed, \A b \in App : Counted(b), Moved
    PROVE  [Channel!Next]_(Channel!channel)
<1> DEFINE Q == [b \in App |-> KeysOnTheWay(b)]
<1>1. /\ Q' = [b \in App |-> KeysOnTheWay(b)'] /\ DOMAIN handled = App
  BY DEF Typed, WireTypeOK
<1>2. \A a \in App : \A q : OthersRest(a) /\ KeysOnTheWay(a)' = q => Q' = [Q EXCEPT ![a] = q]
  <2> SUFFICES ASSUME NEW a \in App, NEW q, OthersRest(a), KeysOnTheWay(a)' = q
               PROVE  Q' = [Q EXCEPT ![a] = q]
    OBVIOUS
  <2>1. \A b \in App : KeysOnTheWay(b)' = IF b = a THEN q ELSE Q[b]
    BY DEF OthersRest
  <2> HIDE DEF Q
  <2> QED BY <1>1, <2>1 DEF Q
<1>3. CASE Rests
  <2>1. Q' = Q /\ UNCHANGED handled
    BY <1>3, <1>1 DEF Rests
  <2> QED BY <2>1 DEF Channel!channel
<1>4. ASSUME NEW a \in App, Typing(a) PROVE Channel!Next
  <2> DEFINE n == lib[a].typed + 1
  <2>1. /\ Q' = [Q EXCEPT ![a] = Append(Q[a], n)] /\ UNCHANGED handled
    BY <1>2, <1>4 DEF Typing
  <2>2. n = handled[a] + Len(Q[a]) + 1
    BY <1>4, TypingCounted
  <2> HIDE DEF n
  <2>3. Channel!Type(a)
    BY <2>1, <2>2 DEF Channel!Type
  <2> QED BY <2>3 DEF Channel!Next
<1>5. ASSUME NEW a \in App, Handling(a) PROVE Channel!Next
  <2>1. /\ Q[a] # <<>> /\ handled' = [handled EXCEPT ![a] = Head(Q[a])]
        /\ Q' = [Q EXCEPT ![a] = Tail(Q[a])]
    BY <1>2, <1>5 DEF Handling
  <2>2. Channel!Handle(a)
    BY <2>1 DEF Channel!Handle
  <2> QED BY <2>2 DEF Channel!Next
<1>6. ASSUME NEW a \in App, GivingUp(a) PROVE [Channel!Next]_(Channel!channel)
  <2>1. Q' = [Q EXCEPT ![a] = <<>>] /\ UNCHANGED handled
    BY <1>2, <1>6 DEF GivingUp
  <2>2. CASE Q[a] # <<>>
    <3>1. Channel!HangUp(a)
      BY <2>1, <2>2 DEF Channel!HangUp
    <3> QED BY <3>1 DEF Channel!Next
  <2>3. CASE Q[a] = <<>>
    <3>1. Q' = Q
      BY <2>1, <2>3
    <3> QED BY <2>1, <3>1 DEF Channel!channel
  <2> QED BY <2>2, <2>3
<1> QED BY <1>3, <1>4, <1>5, <1>6 DEF Moved

LEMMA InitOrder == Init => OrderInv /\ Channel!Init
<1> SUFFICES ASSUME Init PROVE OrderInv /\ Channel!Init
  OBVIOUS
<1>1. IInv /\ NoKeyStranded
  BY InitIInv, InitTyped
<1>2. ASSUME NEW b \in App PROVE Behaves(b) /\ Counted(b) /\ KeysOnTheWay(b) = <<>>
  <2>1. /\ toServer[b] = <<>> /\ toClient[b] = <<>> /\ DOMAIN clients = {} /\ handled[b] = 0
        /\ lib[b].stage = "new" /\ lib[b].awaits = "" /\ ~lib[b].focus /\ ~lib[b].mark
        /\ lib[b].typed = 0
    BY DEF Init, Unborn
  <2>2. DOMAIN toServer[b] = {} /\ DOMAIN toClient[b] = {}
    <3>1. \A s : s = <<>> => DOMAIN s = {}
      OBVIOUS
    <3> QED BY <2>1, <3>1
  <2>3. Behaves(b)
    <3>1. None(toClient[b], {"REPLY"}) /\ None(toServer[b], Steers)
      BY <2>2 DEF None
    <3>2. \A k \in DOMAIN toServer[b] : toServer[b][k].op = "DISCONNECT" => k = Len(toServer[b])
      BY <2>2
    <3>3. ~lib[b].focus /\ ~Dead(b) /\ ~(lib[b].awaits # "")
      BY <2>1 DEF Dead
    <3> QED BY <3>1, <3>2, <3>3 DEF Behaves
  <2>4. KeysOnTheWay(b) = <<>>
    <3>1. waiting(b) = <<>>
      BY <2>1 DEF waiting, Connected
    <3>2. keys_of(toServer[b]) = <<>>
      BY <2>1, KeysEmpty
    <3> QED BY <3>1, <3>2 DEF KeysOnTheWay
  <2>5. Counted(b)
    <3>1. Numbered(<<>>, 0) /\ 0 = 0 + Len(<<>>)
      BY DEF Numbered
    <3>2. Numbered(KeysOnTheWay(b), handled[b])
      BY <2>1, <2>4, <3>1
    <3>3. lib[b].typed = handled[b] + Len(KeysOnTheWay(b))
      BY <2>1, <2>4, <3>1
    <3> QED BY <3>2, <3>3 DEF Counted
  <2> QED BY <2>3, <2>4, <2>5
<1>3. Channel!Init
  BY <1>2 DEF Channel!Init, Init
<1> QED BY <1>1, <1>2, <1>3 DEF OrderInv

LEMMA NextOrder ==
    ASSUME OrderInv, [Next]_vars
    PROVE  OrderInv' /\ [Channel!Next]_(Channel!channel)
<1>1. Typed /\ NoKeyStranded /\ IInv /\ \A b \in App : Counted(b)
  BY DEF OrderInv, IInv
<1>2. Moved /\ \A b \in App : Behaves(b)'
  BY NextMoved
<1>3. IInv' /\ NoKeyStranded'
  BY <1>1, NextIInv, NextTyped
<1>4. \A b \in App : Counted(b)'
  BY <1>1, <1>2, MovedCounted
<1>5. [Channel!Next]_(Channel!channel)
  BY <1>1, <1>2, MovedChannel
<1> QED BY <1>2, <1>3, <1>4, <1>5 DEF OrderInv

\* The queue of the server beside the connection keeps the promise of
\* KeyChannel to every client: its keys are handled one by one in the order
\* they were typed, and none is lost before it hangs up (AddQueue,
\* ProcessQueue and ForwardEventMessageProc).
THEOREM KeysHandledInOrder == Spec => KeysInOrder
<1>1. Init => OrderInv /\ Channel!Init
  BY InitOrder
<1>2. OrderInv /\ [Next]_vars => OrderInv' /\ [Channel!Next]_(Channel!channel)
  BY NextOrder
<1> QED BY <1>1, <1>2, PTL DEF Spec, KeysInOrder, Channel!Spec


-----------------------------------------------------------------------------
(***************************************************************************)
(* The event masks on their way.                                           *)
(***************************************************************************)
\* A client whose mask is v has the mask on when it has heard the messages s.
Turns(v, s, on) == LastMask(s, on) \/ (NoMask(s) /\ v = on)

\* The mask after the message x.
turned(v, x) == IF x.op = "SET_EVENT_MASK" THEN TRUE
                ELSE IF x.op = "CLEAR_EVENT_MASK" THEN FALSE ELSE v

LEMMA MaskOf ==
    \A on \in BOOLEAN : /\ SET_EVENT_MASK(on) \in Message
                        /\ SET_EVENT_MASK(on).op \in Masks
                        /\ \A v : turned(v, SET_EVENT_MASK(on)) = on
BY PlainMessages DEF SET_EVENT_MASK, m, Masks, turned

LEMMA NoMaskNone == \A s : NoMask(s) <=> None(s, Masks)
BY DEF NoMask, None

LEMMA TurnsJoin ==
    ASSUME NEW s \in Seq(Message), NEW t \in Seq(Message), NEW u, NEW v, NEW w,
           Turns(u, s, v), Turns(v, t, w)
    PROVE  Turns(u, s \o t, w)
<1> DEFINE st == s \o t
<1>1. /\ Len(s) \in Nat /\ Len(t) \in Nat
      /\ DOMAIN s = 1 .. Len(s) /\ DOMAIN t = 1 .. Len(t)
      /\ DOMAIN st = 1 .. Len(s) + Len(t)
      /\ \A k \in 1 .. Len(s) : st[k] = s[k]
      /\ \A k \in Len(s) + 1 .. Len(s) + Len(t) : st[k] = t[k - Len(s)]
  OBVIOUS
<1>2. /\ \A k \in DOMAIN st : \/ k \in DOMAIN s /\ st[k] = s[k]
                              \/ k - Len(s) \in DOMAIN t /\ st[k] = t[k - Len(s)]
      /\ \A k \in DOMAIN s : k \in DOMAIN st /\ st[k] = s[k]
      /\ \A k \in DOMAIN t : k + Len(s) \in DOMAIN st /\ st[k + Len(s)] = t[k]
  BY <1>1
<1> HIDE DEF st
<1>3. ASSUME LastMask(t, w) PROVE LastMask(st, w)
  <2>1. PICK k \in DOMAIN t : /\ t[k] = SET_EVENT_MASK(w)
                              /\ \A l \in DOMAIN t : l > k => t[l].op \notin Masks
    BY <1>3 DEF LastMask
  <2>2. \A l \in DOMAIN st : l > k + Len(s) => st[l].op \notin Masks
    <3> SUFFICES ASSUME NEW l \in DOMAIN st, l > k + Len(s) PROVE st[l].op \notin Masks
      OBVIOUS
    <3>1. l - Len(s) \in DOMAIN t /\ l - Len(s) > k /\ st[l] = t[l - Len(s)]
      BY <1>1
    <3> QED BY <2>1, <3>1
  <2> QED BY <1>2, <2>1, <2>2 DEF LastMask
<1>4. ASSUME LastMask(s, w), NoMask(t) PROVE LastMask(st, w)
  <2>1. PICK k \in DOMAIN s : /\ s[k] = SET_EVENT_MASK(w)
                              /\ \A l \in DOMAIN s : l > k => s[l].op \notin Masks
    BY <1>4 DEF LastMask
  <2>2. \A l \in DOMAIN st : l > k => st[l].op \notin Masks
    BY <1>2, <1>4, <2>1 DEF NoMask
  <2> QED BY <1>2, <2>1, <2>2 DEF LastMask
<1>5. ASSUME NoMask(s), NoMask(t) PROVE NoMask(st)
  BY <1>2, <1>5 DEF NoMask
<1>6. CASE LastMask(t, w)
  BY <1>3, <1>6 DEF Turns, st
<1>7. CASE NoMask(t) /\ v = w /\ LastMask(s, v)
  BY <1>4, <1>7 DEF Turns, st
<1>8. CASE NoMask(t) /\ v = w /\ NoMask(s) /\ u = v
  BY <1>5, <1>8 DEF Turns, st
<1> QED BY <1>6, <1>7, <1>8 DEF Turns

LEMMA TurnsTail ==
    ASSUME NEW s \in Seq(Message), s # <<>>, NEW v \in BOOLEAN, NEW on \in BOOLEAN,
           Turns(v, s, on)
    PROVE  Turns(turned(v, Head(s)), Tail(s), on)
<1> DEFINE t == Tail(s)
<1>1. /\ Len(s) \in Nat /\ Len(s) > 0
      /\ DOMAIN s = 1 .. Len(s) /\ DOMAIN t = 1 .. Len(s) - 1
      /\ \A k \in 1 .. Len(s) - 1 : t[k] = s[k + 1]
      /\ Head(s) = s[1]
  BY EmptySeq
<1>2. \A k \in DOMAIN t : k + 1 \in DOMAIN s /\ t[k] = s[k + 1] /\ k \in Int
  BY <1>1
<1> HIDE DEF t
<1>3. CASE NoMask(s) /\ v = on
  <2>1. NoMask(t) /\ Head(s).op \notin Masks
    BY <1>1, <1>2, <1>3 DEF NoMask
  <2>2. turned(v, Head(s)) = v
    BY <2>1 DEF turned, Masks
  <2> QED BY <1>3, <2>1, <2>2 DEF Turns, t
<1>4. CASE LastMask(s, on)
  <2>1. PICK k \in DOMAIN s : /\ s[k] = SET_EVENT_MASK(on)
                              /\ \A l \in DOMAIN s : l > k => s[l].op \notin Masks
    BY <1>4 DEF LastMask
  <2>2. CASE k = 1
    <3>1. NoMask(t)
      <4>1. \A l \in DOMAIN t : l + 1 > k
        BY <1>1, <2>2
      <4> QED BY <1>2, <2>1, <4>1 DEF NoMask
    <3>2. turned(v, Head(s)) = on
      BY <1>1, <2>1, <2>2, MaskOf
    <3> QED BY <3>1, <3>2 DEF Turns, t
  <2>3. CASE k # 1
    <3>1. k - 1 \in DOMAIN t /\ t[k - 1] = SET_EVENT_MASK(on)
      BY <1>1, <2>1, <2>3
    <3>2. \A l \in DOMAIN t : l > k - 1 => t[l].op \notin Masks
      <4> SUFFICES ASSUME NEW l \in DOMAIN t, l > k - 1 PROVE t[l].op \notin Masks
        OBVIOUS
      <4>1. l + 1 > k /\ l + 1 \in DOMAIN s /\ t[l] = s[l + 1]
        BY <1>1, <1>2
      <4> QED BY <2>1, <4>1
    <3>3. LastMask(t, on)
      BY <3>1, <3>2 DEF LastMask
    <3> QED BY <3>3 DEF Turns, t
  <2> QED BY <2>2, <2>3
<1> QED BY <1>3, <1>4 DEF Turns

\* xim_connect and xim_disconnect turn the mask with the flag.
Turning(ic) ==
    /\ Turns(ic.connect, xim_connect(ic).msgs, TRUE)
    /\ Turns(ic.connect, xim_disconnect(ic).msgs, FALSE)
    /\ Turns(ic.connect, <<>>, ic.connect)
    /\ ~ic.connect => NoMask(xim_disconnect(ic).msgs)

LEMMA ConnectTurns == ASSUME NEW ic, ic.connect \in BOOLEAN PROVE Turning(ic)
<1>1. \A on : LastMask(<<SET_EVENT_MASK(on)>>, on)
  BY DEF LastMask
<1>2. NoMask(<<>>)
  BY DEF NoMask
<1> QED BY <1>1, <1>2 DEF Turning, Turns, xim_connect, xim_disconnect

LEMMA Quiets ==
    /\ NoMask(<<>>)
    /\ \A x \in Message : x.op \notin Masks => NoMask(<<x>>)
    /\ \A r \in Requests : NoMask(<<Reply(r)>>) /\ Reply(r) \in Message
    /\ \A y \in Kinds \ {"REPLY"} : y \notin Masks => NoMask(<<m(y)>>)
<1>1. NoMask(<<>>) /\ \A x \in Message : x.op \notin Masks => NoMask(<<x>>)
  BY DEF NoMask
<1>2. \A r \in Requests : Reply(r) \in Message /\ Reply(r).op \notin Masks
  BY DEF Reply, Message, Kinds, Masks
<1> QED BY <1>1, <1>2, Sayings


\* What the server does with a message of client a as to the masks.
Steered(a, op) ==
    \E msgs :
       /\ Answering(op, msgs) /\ Sent(a, msgs)
       /\ NoMask(msgs) \/ op \in Steers \/ (op = "FORWARD_EVENT" /\ ics[a].connect)
       /\ ics'[a].connect => op \in Steers \/ ics[a].connect
       /\ \/ ics'[a] = NoIC \/ op = "CREATE_IC"
          \/ Turns(ics[a].connect, msgs, ics'[a].connect)
       /\ op \in {"DESTROY_IC", "CLOSE"} => ics'[a] = NoIC
       /\ \A b \in App : b # a => ics'[b] \in {ics[b], NoIC}

LEMMA QuietSteers ==
    ASSUME NEW a \in App, NEW op, op \notin {"DESTROY_IC", "CLOSE"}, NEW msgs,
           Answering(op, msgs), Sent(a, msgs), NoMask(msgs), UNCHANGED ics
    PROVE  Steered(a, op)
<1>1. Turns(ics[a].connect, msgs, ics'[a].connect)
  BY DEF Turns
<1> QED BY <1>1 DEF Steered

LEMMA AnsweredSteers ==
    ASSUME NEW a \in App, NEW op \in Requests \ {"DESTROY_IC", "CLOSE"}, UNCHANGED ics,
           Sent(a, <<Reply(op)>>) \/ Sent(a, <<>>)
    PROVE  Steered(a, op)
<1>1. Answering(op, <<Reply(op)>>) /\ Answering(op, <<>>)
  BY ReplyAnswers, Silent
<1>2. NoMask(<<Reply(op)>>) /\ NoMask(<<>>)
  BY Quiets
<1>3. CASE Sent(a, <<Reply(op)>>)
  BY <1>1, <1>2, <1>3, QuietSteers
<1>4. CASE Sent(a, <<>>)
  BY <1>1, <1>2, <1>4, QuietSteers
<1> QED BY <1>3, <1>4

\* The procedures that leave the ICs alone.
LEMMA PlainSteers ==
    ASSUME NEW a \in App
    PROVE  /\ ReadXConnectMessage(a) => Steered(a, "XCONNECT")
           /\ ConnectMessageProc(a) => Steered(a, "CONNECT")
           /\ DisConnectMessageProc(a) => Steered(a, "DISCONNECT")
           /\ SetICValuesMessageProc(a) => Steered(a, "SET_IC_VALUES")
           /\ GetICValuesMessageProc(a) => Steered(a, "GET_IC_VALUES")
           /\ \A op \in Requests \ {"DESTROY_IC", "CLOSE"} : Answered(a, op) => Steered(a, op)
<1> DEFINE Ops == Requests \ {"DESTROY_IC", "CLOSE"}
<1>0. /\ {"XCONNECT", "CONNECT", "DISCONNECT", "SET_IC_VALUES", "GET_IC_VALUES"} \subseteq Ops
      /\ Ops \subseteq Requests \ {"DESTROY_IC", "CLOSE"}
  BY DEF Requests
<1> HIDE DEF Ops
<1>1. ASSUME NEW op \in Ops, UNCHANGED ics, NEW ok, AnswerIf(a, ok, op) PROVE Steered(a, op)
  <2>1. Sent(a, <<Reply(op)>>) \/ Sent(a, <<>>)
    BY <1>1, AnswerSends DEF AnswerIf
  <2> QED BY <1>0, <1>1, <2>1, AnsweredSteers
<1>2. ASSUME NEW op \in Ops, UNCHANGED ics, Answer(a, <<Reply(op)>>) PROVE Steered(a, op)
  <2>1. Sent(a, <<Reply(op)>>)
    BY <1>2, AnswerSends
  <2> QED BY <1>0, <1>2, <2>1, AnsweredSteers
<1>3. ReadXConnectMessage(a) => Steered(a, "XCONNECT")
  BY <1>0, <1>2 DEF ReadXConnectMessage
<1>4. ConnectMessageProc(a) => Steered(a, "CONNECT")
  BY <1>0, <1>2 DEF ConnectMessageProc
<1>5. DisConnectMessageProc(a) => Steered(a, "DISCONNECT")
  BY <1>0, <1>2 DEF DisConnectMessageProc
<1>6. SetICValuesMessageProc(a) => Steered(a, "SET_IC_VALUES")
  BY <1>0, <1>1 DEF SetICValuesMessageProc
<1>7. GetICValuesMessageProc(a) => Steered(a, "GET_IC_VALUES")
  BY <1>0, <1>1 DEF GetICValuesMessageProc
<1>8. \A op \in Ops : Answered(a, op) => Steered(a, op)
  BY <1>2 DEF Answered
<1> QED BY <1>3, <1>4, <1>5, <1>6, <1>7, <1>8 DEF Ops

LEMMA UnheededSteers ==
    ASSUME NEW a \in App, NEW op, op \notin {"DESTROY_IC", "CLOSE"},
           NEW msgs \in {<<>>, <<m("ERROR")>>}, Unheeded(a, msgs)
    PROVE  Steered(a, op)
<1>1. Answering(op, msgs)
  BY Silent, NoticeAnswers DEF Kinds
<1>2. NoMask(msgs)
  BY Quiets DEF Kinds, Masks
<1>3. Sent(a, msgs) /\ UNCHANGED ics
  BY AnswerSends DEF Unheeded
<1> QED BY <1>1, <1>2, <1>3, QuietSteers

LEMMA OpenSteers ==
    ASSUME NEW a \in App, OpenMessageProc(a)
    PROVE  Steered(a, "OPEN")
<1> DEFINE x == m("REGISTER_TRIGGERKEYS")
           y == Reply("OPEN")
<1>1. x \in Message /\ x.op = "REGISTER_TRIGGERKEYS"
  BY Sayings DEF Kinds
<1>2. y \in Message /\ y.op = "REPLY" /\ y.to = "OPEN" /\ "OPEN" \in Requests
  BY Quiets DEF Reply, Requests
<1>3. Sent(a, <<x, y>>) /\ UNCHANGED ics
  BY AnswerSends DEF OpenMessageProc
<1> HIDE DEF x, y
<1>4. Answering("OPEN", <<x, y>>) /\ NoMask(<<x, y>>)
  BY <1>1, <1>2 DEF Answering, Once, NoMask, Masks
<1> QED BY <1>3, <1>4, QuietSteers

LEMMA SilentSteers ==
    ASSUME NEW a \in App, NEW op, op \notin {"DESTROY_IC", "CLOSE"}, UNCHANGED ics,
           \E mode : Xi18nXSend(a, <<>>, mode)
    PROVE  Steered(a, op)
<1>1. Sent(a, <<>>)
  BY DEF Xi18nXSend, Sent
<1> QED BY <1>1, Silent, Quiets, QuietSteers

\* Those that make and end an IC.
LEMMA DestroySteers ==
    ASSUME Typed, server = "up", NEW a \in App, DestroyICMessageProc(a)
    PROVE  Steered(a, "DESTROY_IC")
<1>1. "DESTROY_IC" \in Requests
  BY DEF Requests
<1>2. ics' = [ics EXCEPT ![a] = NoIC] /\ DOMAIN ics = App
  BY DEF DestroyICMessageProc, Typed, WireTypeOK
<1>3. Sent(a, <<Reply("DESTROY_IC")>>) \/ Sent(a, <<>>)
  BY AnswerSends DEF DestroyICMessageProc, AnswerIf
<1>4. \E msgs : Answering("DESTROY_IC", msgs) /\ Sent(a, msgs) /\ NoMask(msgs)
  BY <1>1, <1>3, ReplyAnswers, Silent, Quiets
<1>5. ics'[a] = NoIC /\ ~NoIC.connect /\ \A b \in App : b # a => ics'[b] = ics[b]
  BY <1>2 DEF NoIC
<1> QED BY <1>4, <1>5 DEF Steered

LEMMA CloseSteers ==
    ASSUME Typed, Records, server = "up", NEW a \in App, Finds(a), Connected(a),
           CloseMessageProc(a)
    PROVE  Steered(a, "CLOSE")
<1>1. "CLOSE" \in Requests
  BY DEF Requests
<1>2. /\ ics' = [b \in App |-> IF ics[b].connect_id = id(a) THEN NoIC ELSE ics[b]]
  BY DEF CloseMessageProc, ic_clean_all
<1>3. Sent(a, <<Reply("CLOSE")>>)
  BY AnswerSends DEF CloseMessageProc
<1>4. \E msgs : Answering("CLOSE", msgs) /\ Sent(a, msgs) /\ NoMask(msgs)
  BY <1>1, <1>3, ReplyAnswers, Quiets
<1>5. ics'[a] = NoIC
  <2>1. id(a) \in DOMAIN clients /\ clients[id(a)].win = a
    BY IdOf
  <2>2. ics[a] # NoIC => ics[a].connect_id = id(a)
    BY <2>1 DEF Finds, Records
  <2> QED BY <1>2, <2>2
<1>6. ~NoIC.connect /\ \A b \in App : ics'[b] \in {ics[b], NoIC}
  BY <1>2 DEF NoIC
<1> QED BY <1>4, <1>5, <1>6 DEF Steered

LEMMA CreateSteers ==
    ASSUME Typed, server = "up", NEW a \in App, CreateICMessageProc(a)
    PROVE  Steered(a, "CREATE_IC")
<1>1. "CREATE_IC" \in Requests
  BY DEF Requests
<1>2. /\ ics' = [ics EXCEPT ![a] = [connect_id |-> id(a), connect |-> FALSE]] /\ DOMAIN ics = App
  BY DEF CreateICMessageProc, Typed, WireTypeOK
<1>3. Sent(a, <<Reply("CREATE_IC")>>)
  BY AnswerSends DEF CreateICMessageProc
<1>4. \E msgs : Answering("CREATE_IC", msgs) /\ Sent(a, msgs) /\ NoMask(msgs)
  BY <1>1, <1>3, ReplyAnswers, Quiets
<1>5. ~ics'[a].connect /\ \A b \in App : b # a => ics'[b] = ics[b]
  BY <1>2
<1> QED BY <1>4, <1>5 DEF Steered


\* Those that connect and disconnect it.
LEMMA ConnectedIc ==
    ASSUME Typed, NEW a \in App, NEW ic, ics' = [ics EXCEPT ![a] = ic]
    PROVE  ics'[a] = ic /\ \A b \in App : b # a => ics'[b] = ics[b]
BY DEF Typed, WireTypeOK

LEMMA IcRecord ==
    ASSUME Typed, NEW a \in App
    PROVE  /\ ics[a].connect \in BOOLEAN
           /\ xim_connect(ics[a]).ic.connect = TRUE
           /\ xim_disconnect(ics[a]).ic.connect = FALSE
           /\ [ics[a] EXCEPT !.connect = TRUE].connect = TRUE
           /\ xim_disconnect([ics[a] EXCEPT !.connect = TRUE]).ic.connect = FALSE
<1>1. ics[a] \in [connect_id : 0 .. last_id, connect : BOOLEAN]
  BY DEF Typed, WireTypeOK
<1> QED BY <1>1 DEF xim_connect, xim_disconnect

\* Connected, then disconnected.
LEMMA TurnedTurns ==
    ASSUME Typed, NEW a \in App
    PROVE  Turns(ics[a].connect, turned_off(ics[a]).msgs, turned_off(ics[a]).ic.connect)
<1> DEFINE ic  == ics[a]
           on  == xim_connect(ic)
           off == xim_disconnect(on.ic)
           res == turned_off(ic)
<1>1. on.msgs \in Seq(Message) /\ off.msgs \in Seq(Message)
  BY PlainMessages
<1>2. res.msgs = on.msgs \o off.msgs
  BY DEF turned_off
<1>3. ic.connect \in BOOLEAN /\ on.ic.connect = TRUE /\ res.ic.connect = FALSE
  BY IcRecord, TurnedIc
<1>4. Turning(ic)
  BY ONLY <1>3, ConnectTurns
<1>5. Turning(on.ic)
  <2>1. on.ic.connect \in BOOLEAN
    BY <1>3
  <2> HIDE DEF on
  <2> QED BY <2>1, ConnectTurns
<1>6. Turns(ic.connect, on.msgs, TRUE)
  BY <1>3, <1>4 DEF Turning
<1>7. Turns(TRUE, off.msgs, FALSE)
  BY <1>3, <1>5 DEF Turning
<1> HIDE DEF ic, on, off, res
<1>8. Turns(ic.connect, res.msgs, res.ic.connect)
  BY <1>1, <1>2, <1>3, <1>6, <1>7, TurnsJoin
<1> QED BY <1>8 DEF ic, res

LEMMA FocusSteers ==
    ASSUME Typed, server = "up", NEW a \in App, SetICFocusMessageProc(a)
    PROVE  Steered(a, "SET_IC_FOCUS")
<1> DEFINE ic == ics[a]
           none == [ic |-> ic, msgs |-> <<>>]
<1>1. PICK r \in {xim_connect(ic), xim_disconnect(ic), turned_off(ic), none} :
         IF ~found(ic) \/ server = "exiting"
         THEN Answer(a, <<>>) /\ UNCHANGED ics
         ELSE Answer(a, r.msgs) /\ ics' = [ics EXCEPT ![a] = r.ic]
  BY DEF SetICFocusMessageProc
<1>2. CASE ~found(ic)
  <2>1. UNCHANGED ics /\ Xi18nXSend(a, <<>>, server)
    BY <1>1, <1>2 DEF Answer
  <2> QED BY <2>1, SilentSteers
<1>3. CASE found(ic)
  <2>1. Answer(a, r.msgs) /\ ics' = [ics EXCEPT ![a] = r.ic]
    BY <1>1, <1>3
  <2>2. /\ Turns(ic.connect, xim_connect(ic).msgs, xim_connect(ic).ic.connect)
        /\ Turns(ic.connect, xim_disconnect(ic).msgs, xim_disconnect(ic).ic.connect)
        /\ Turns(ic.connect, turned_off(ic).msgs, turned_off(ic).ic.connect)
        /\ Turns(ic.connect, none.msgs, none.ic.connect)
    <3>1. none.msgs = <<>> /\ none.ic = ic
      OBVIOUS
    <3>2. /\ ic.connect \in BOOLEAN /\ xim_connect(ic).ic.connect = TRUE
          /\ xim_disconnect(ic).ic.connect = FALSE
      BY IcRecord
    <3>3. Turns(ic.connect, turned_off(ic).msgs, turned_off(ic).ic.connect)
      BY TurnedTurns
    <3> HIDE DEF none, ic
    <3>4. Turning(ic)
      BY <3>2, ConnectTurns
    <3> QED BY <3>1, <3>2, <3>3, <3>4 DEF Turning
  <2>3. Turns(ic.connect, r.msgs, r.ic.connect)
    BY <2>2
  <2>4. Answering("SET_IC_FOCUS", r.msgs)
    <3>1. r.msgs \in {<<>>, xim_connect(ic).msgs, xim_disconnect(ic).msgs, turned_off(ic).msgs}
      OBVIOUS
    <3> QED BY <3>1, Silent, PlainMessages, TurnedPlain, PlainAnswers
  <2>5. Sent(a, r.msgs)
    BY <2>1, AnswerSends
  <2>6. ics'[a] = r.ic /\ \A b \in App : b # a => ics'[b] = ics[b]
    BY <2>1, ConnectedIc
  <2>7. "SET_IC_FOCUS" \in Steers
    BY DEF Steers
  <2> QED BY <2>3, <2>4, <2>5, <2>6, <2>7 DEF Steered
<1> QED BY <1>2, <1>3

LEMMA TriggerTurns ==
    ASSUME NEW v
    PROVE  trigger_replies \in Seq(Message) /\ Turns(v, trigger_replies, TRUE)
<1> DEFINE x == Reply("TRIGGER_NOTIFY")
           y == SET_EVENT_MASK(TRUE)
<1>1. x \in Message /\ y \in Message
  BY Quiets, MaskOf DEF Requests
<1>2. trigger_replies = <<x, y>> /\ y = SET_EVENT_MASK(TRUE)
  BY DEF trigger_replies
<1> HIDE DEF x, y
<1>3. \A p, q \in Message : /\ <<p, q>> \in Seq(Message)
                            /\ q = SET_EVENT_MASK(TRUE) => LastMask(<<p, q>>, TRUE)
  <2> SUFFICES ASSUME NEW p \in Message, NEW q \in Message
               PROVE  /\ <<p, q>> \in Seq(Message)
                      /\ q = SET_EVENT_MASK(TRUE) => LastMask(<<p, q>>, TRUE)
    OBVIOUS
  <2> DEFINE s == <<p, q>>
  <2>1. s \in Seq(Message) /\ DOMAIN s = 1 .. 2 /\ s[2] = q
    OBVIOUS
  <2> HIDE DEF s
  <2>2. 2 \in DOMAIN s /\ \A l \in DOMAIN s : ~(l > 2)
    BY <2>1
  <2>3. q = SET_EVENT_MASK(TRUE) => LastMask(s, TRUE)
    BY <2>1, <2>2 DEF LastMask
  <2> QED BY <2>1, <2>3 DEF s
<1> QED BY <1>1, <1>2, <1>3 DEF Turns

LEMMA TriggerSteers ==
    ASSUME Typed, server = "up", NEW a \in App, TriggerNotifyMessageProc(a)
    PROVE  Steered(a, "TRIGGER_NOTIFY")
<1> DEFINE on == [ics[a] EXCEPT !.connect = TRUE]
           off == xim_disconnect(on)
           t == trigger_replies
<1>a. PICK fails \in BOOLEAN, phrase \in xi18n_commit :
         LET r == IF fails THEN [xim_disconnect(on) EXCEPT !.msgs = phrase \o @]
                           ELSE [ic |-> on, msgs |-> <<>>]
         IN  IF ~found(ics[a]) \/ server = "exiting"
             THEN Answer(a, t) /\ UNCHANGED ics
             ELSE Answer(a, t \o r.msgs) /\ ics' = [ics EXCEPT ![a] = r.ic]
  BY DEF TriggerNotifyMessageProc
<1> DEFINE more == IF fails THEN phrase \o off.msgs ELSE <<>>
           ic2  == IF fails THEN off.ic ELSE on
<1>1. IF ~found(ics[a]) \/ server = "exiting"
      THEN Answer(a, t) /\ UNCHANGED ics
      ELSE Answer(a, t \o more) /\ ics' = [ics EXCEPT ![a] = ic2]
  BY <1>a, TriggerResult
<1>0. "TRIGGER_NOTIFY" \in Steers
  BY DEF Steers
<1>2. CASE ~found(ics[a])
  <2>1. Sent(a, t) /\ UNCHANGED ics /\ ics[a] = NoIC
    BY <1>1, <1>2, AnswerSends DEF found
  <2>2. Answering("TRIGGER_NOTIFY", t)
    <3>1. <<>> \in Seq(Message) /\ None(<<>>, {"REPLY"}) /\ t \o <<>> = t
      BY TriggerTurns DEF None
    <3> QED BY <3>1, TriggerAnswers
  <2> QED BY <1>0, <2>1, <2>2 DEF Steered
<1>3. CASE found(ics[a])
  <2>1. Sent(a, t \o more) /\ ics' = [ics EXCEPT ![a] = ic2]
    BY <1>1, <1>3, AnswerSends
  <2>0. /\ phrase \in Seq(Message) /\ None(phrase, {"REPLY"}) /\ NoMask(phrase)
        /\ off.msgs \in Seq(Message) /\ None(off.msgs, {"REPLY"})
        /\ <<>> \in Seq(Message) /\ None(<<>>, {"REPLY"}) /\ NoMask(<<>>)
    <3>1. NoMask(phrase)
      BY Quiets DEF xi18n_commit, Kinds, Masks
    <3> QED BY <3>1, Quiets, PlainMessages DEF None
  <2>2. more \in Seq(Message) /\ None(more, {"REPLY"})
    <3> HIDE DEF off
    <3> QED BY <2>0, JoinNone
  <2>3. Turns(TRUE, more, ic2.connect)
    <3>0. on.connect = TRUE /\ off.ic.connect = FALSE
      BY IcRecord
    <3> HIDE DEF on
    <3>1. on.connect \in BOOLEAN
      BY <3>0
    <3>2. Turning(on)
      BY ONLY <3>1, ConnectTurns
    <3>3. Turns(TRUE, off.msgs, FALSE)
      BY <3>0, <3>2 DEF Turning
    <3>4. Turns(TRUE, phrase, TRUE) /\ Turns(TRUE, <<>>, TRUE)
      BY <2>0 DEF Turns
    <3> HIDE DEF off
    <3>5. Turns(TRUE, phrase \o off.msgs, FALSE)
      BY <2>0, <3>3, <3>4, TurnsJoin
    <3> QED BY <3>0, <3>4, <3>5
  <2> DEFINE msgs == t \o more
  <2> HIDE DEF more
  <2>4. Turns(ics[a].connect, msgs, ic2.connect)
    BY <2>2, <2>3, TriggerTurns, TurnsJoin
  <2>5. Answering("TRIGGER_NOTIFY", msgs)
    BY <2>2, TriggerAnswers
  <2>6. ics'[a] = ic2 /\ \A b \in App : b # a => ics'[b] = ics[b]
    BY <2>1, ConnectedIc
  <2> HIDE DEF ic2, msgs
  <2>7. Sent(a, msgs)
    BY <2>1 DEF msgs
  <2> QED BY <1>0, <2>4, <2>5, <2>6, <2>7 DEF Steered
<1> QED BY <1>2, <1>3

\* A key may disconnect the IC.
LEMMA KeySteers ==
    ASSUME Typed, server = "up", NEW a \in App, NEW i, NEW c, NEW key, c.win = a,
           ForwardEventMessageProc(i, c, key)
    PROVE  Steered(a, "FORWARD_EVENT")
<1> DEFINE ic == ics[a]
           off == xim_disconnect(ic)
           add(end) == CASE end = "kept" -> <<>>
                         [] end = "off"  -> off.msgs
                         [] end = "back" -> xi18n_forwardEvent
<1>1. PICK text \in xi18n_commit, end \in {"kept", "off", "back"} :
         IF ~found(ic) \/ server = "exiting"
         THEN Answer(a, <<>>) /\ UNCHANGED ics /\ clients' = [clients EXCEPT ![i] = c]
         ELSE /\ Answer(a, text \o add(end))
              /\ ics' = IF end = "off" THEN [ics EXCEPT ![a] = off.ic] ELSE ics
              /\ clients' = [clients EXCEPT ![i] = IF end = "back" THEN given_back(c) ELSE c]
  BY DEF ForwardEventMessageProc
<1>2. CASE ~found(ic)
  <2>1. UNCHANGED ics /\ Xi18nXSend(a, <<>>, server)
    BY <1>1, <1>2 DEF Answer
  <2> QED BY <2>1, SilentSteers
<1>3. CASE found(ic)
  <2>1. text \in Seq(Message) /\ None(text, {"REPLY"}) /\ NoMask(text)
    <3>1. NoMask(text)
      BY Quiets DEF xi18n_commit, Kinds, Masks
    <3> QED BY <3>1, PlainMessages
  <2> DEFINE more == add(end)
             msgs == text \o more
             on == IF end = "off" THEN FALSE ELSE ic.connect
  <2>2. more \in Seq(Message) /\ None(more, {"REPLY"})
    BY PlainMessages DEF None
  <2>3. ic.connect \in BOOLEAN /\ off.ic.connect = FALSE
    BY IcRecord
  <2>4. /\ Turns(ic.connect, off.msgs, FALSE) /\ (~ic.connect => NoMask(off.msgs))
        /\ Turns(ic.connect, <<>>, ic.connect)
    <3> HIDE DEF ic
    <3>1. Turning(ic)
      BY <2>3, ConnectTurns
    <3> QED BY <3>1 DEF Turning
  <2>5. NoMask(xi18n_forwardEvent) /\ NoMask(<<>>)
    BY Quiets DEF xi18n_forwardEvent, Kinds, Masks
  <2>6. Turns(ic.connect, more, on) /\ (~ic.connect => NoMask(more))
    BY <2>4, <2>5 DEF Turns
  <2>7. Turns(ic.connect, text, ic.connect)
    BY <2>1 DEF Turns
  <2>8. Sent(a, msgs) /\ ics' = IF end = "off" THEN [ics EXCEPT ![a] = off.ic] ELSE ics
    BY <1>1, <1>3, AnswerSends
  <2>9. ics'[a].connect = on /\ \A b \in App : b # a => ics'[b] = ics[b]
    <3>1. CASE end = "off"
      BY <2>3, <2>8, <3>1, ConnectedIc
    <3>2. CASE end # "off"
      BY <2>8, <3>2
    <3> QED BY <3>1, <3>2
  <2>10. on => ic.connect
    OBVIOUS
  <2> HIDE DEF more, on
  <2>11. Turns(ic.connect, msgs, on)
    BY <2>1, <2>2, <2>6, <2>7, TurnsJoin
  <2>12. ~ic.connect => NoMask(msgs)
    BY <2>1, <2>2, <2>6, JoinNone, NoMaskNone
  <2>13. Answering("FORWARD_EVENT", msgs)
    BY <2>1, <2>2, JoinNone, PlainAnswers
  <2> HIDE DEF msgs
  <2> QED BY <2>8, <2>9, <2>10, <2>11, <2>12, <2>13 DEF Steered
<1> QED BY <1>2, <1>3


LEMMA ForwardSteers ==
    ASSUME Typed, server = "up", NEW a \in App, NEW key, Connected(a), ForwardEvent(a, key)
    PROVE  Steered(a, "FORWARD_EVENT")
<1> DEFINE c == clients[id(a)]
<1>1. c.win = a
  BY IdOf
<1>2. CASE c.sync
  <2>1. UNCHANGED ics /\ Xi18nXSend(a, <<>>, server)
    BY <1>2 DEF ForwardEvent, Answer
  <2> QED BY <2>1, SilentSteers
<1>3. CASE ~c.sync
  <2>1. ForwardEventMessageProc(id(a), c, key)
    BY <1>3 DEF ForwardEvent
  <2> HIDE DEF c
  <2> QED BY <1>1, <2>1, KeySteers
<1> QED BY <1>2, <1>3

LEMMA MessageSteers ==
    ASSUME Typed, Records, server = "up", NEW a \in App, Finds(a), Connected(a),
           NEW msg, _Xi18nMessageHandler(a, msg)
    PROVE  Steered(a, msg.op)
<1> DEFINE op == msg.op
<1>1. CASE \/ op = "CONNECT" /\ ConnectMessageProc(a)
           \/ op = "DISCONNECT" /\ DisConnectMessageProc(a)
           \/ op = "SET_IC_VALUES" /\ SetICValuesMessageProc(a)
           \/ op = "GET_IC_VALUES" /\ GetICValuesMessageProc(a)
  BY <1>1, PlainSteers
<1>2. CASE \/ op = "QUERY_EXTENSION" /\ QueryExtensionMessageProc(a)
           \/ op = "GET_IM_VALUES" /\ GetIMValuesMessageProc(a)
           \/ op = "RESET_IC" /\ ResetICMessageProc(a)
           \/ op = "ENCODING_NEGOTIATION" /\ EncodingNegotiatonMessageProc(a)
  <2>1. op \in Requests \ {"DESTROY_IC", "CLOSE"} /\ Answered(a, op)
    BY <1>2 DEF Requests, QueryExtensionMessageProc, GetIMValuesMessageProc,
                ResetICMessageProc, EncodingNegotiatonMessageProc
  <2> QED BY <2>1, PlainSteers
<1>3. CASE \/ op = "EXT_FORWARD_KEYEVENT" /\ ExtForwardKeyEventMessageProc(a)
           \/ op = "EXT_MOVE" /\ ExtMoveMessageProc(a)
           \/ op = "PREEDIT_START_REPLY" /\ PreeditStartReplyMessageProc(a)
           \/ op = "PREEDIT_CARET_REPLY" /\ PreeditCaretReplyMessageProc(a)
  <2>1. op \notin {"DESTROY_IC", "CLOSE"}
    BY <1>3
  <2>2. \E msgs \in {<<>>, <<m("ERROR")>>} : Unheeded(a, msgs)
    BY <1>3 DEF ExtForwardKeyEventMessageProc, ExtMoveMessageProc,
                PreeditStartReplyMessageProc, PreeditCaretReplyMessageProc
  <2> QED BY <2>1, <2>2, UnheededSteers
<1>4. CASE \/ op = "UNSET_IC_FOCUS" /\ UnsetICFocusMessageProc(a)
           \/ op = "SYNC_REPLY" /\ SyncReplyMessageProc(a)
  <2>1. op \notin {"DESTROY_IC", "CLOSE"}
    BY <1>4
  <2>2. UNCHANGED ics /\ \E mode : Xi18nXSend(a, <<>>, mode)
    BY <1>4 DEF UnsetICFocusMessageProc, SyncReplyMessageProc, Answer
  <2> QED BY <2>1, <2>2, SilentSteers
<1>5. CASE op = "OPEN" /\ OpenMessageProc(a)
  BY <1>5, OpenSteers
<1>6. CASE op = "CLOSE" /\ CloseMessageProc(a)
  BY <1>6, CloseSteers
<1>7. CASE op = "CREATE_IC" /\ CreateICMessageProc(a)
  BY <1>7, CreateSteers
<1>8. CASE op = "DESTROY_IC" /\ DestroyICMessageProc(a)
  BY <1>8, DestroySteers
<1>9. CASE op = "SET_IC_FOCUS" /\ SetICFocusMessageProc(a)
  BY <1>9, FocusSteers
<1>10. CASE op = "TRIGGER_NOTIFY" /\ TriggerNotifyMessageProc(a)
  BY <1>10, TriggerSteers
<1>11. CASE op = "FORWARD_EVENT" /\ ForwardEvent(a, msg.n)
  BY <1>11, ForwardSteers
<1> QED BY <1>1, <1>2, <1>3, <1>4, <1>5, <1>6, <1>7, <1>8, <1>9, <1>10, <1>11
           DEF _Xi18nMessageHandler

\* The message comes from the client, or it is a key that waited.
Served(a, op) ==
    \/ UNCHANGED toServer /\ op = "FORWARD_EVENT"
    \/ toServer[a] # <<>> /\ op = Head(toServer[a]).op

LEMMA ReceiveSteers ==
    ASSUME IInv, server = "up", NEW a \in App, Receive(a)
    PROVE  LET op == Head(toServer[a]).op IN Steered(a, op) /\ Served(a, op)
<1> DEFINE x == Head(toServer[a])
<1>1. Typed /\ Records /\ Finds(a)
  BY DEF IInv, ClientInv
<1>2. Served(a, x.op)
  BY DEF Receive, Served
<1>3. \/ x.op = "XCONNECT" /\ ReadXConnectMessage(a)
      \/ Connected(a) /\ _Xi18nMessageHandler(a, x)
  BY DEF Receive
<1> HIDE DEF x
<1>4. CASE x.op = "XCONNECT" /\ ReadXConnectMessage(a)
  <2>1. Steered(a, "XCONNECT")
    BY <1>4, PlainSteers
  <2> QED BY <1>2, <1>4, <2>1 DEF x
<1>5. CASE Connected(a) /\ _Xi18nMessageHandler(a, x)
  <2>1. Steered(a, x.op)
    BY <1>1, <1>5, MessageSteers
  <2> QED BY <1>2, <2>1 DEF x
<1> QED BY <1>3, <1>4, <1>5

LEMMA QueueSteers ==
    ASSUME IInv, server = "up", ProcessQueue
    PROVE  \/ \E a \in App : Steered(a, "FORWARD_EVENT") /\ Served(a, "FORWARD_EVENT")
           \/ UNCHANGED <<ics, toClient, toServer>>
<1>1. Typed /\ UNCHANGED toServer
  BY DEF IInv, ProcessQueue
<1>2. processing \in DOMAIN clients
  BY <1>1 DEF ProcessQueue, Typed, WireTypeOK
<1>3. PICK i \in DOMAIN clients : i = processing
  BY <1>2
<1>4. clients[i] \in Record /\ clients[i].win \in App
  BY <1>1 DEF Typed, WireTypeOK, Record
<1>5. CASE ~clients[i].sync /\ clients[i].pending # <<>>
  <2> DEFINE c == [clients[i] EXCEPT !.pending = Tail(@)]
             a == clients[i].win
  <2>1. ForwardEventMessageProc(i, c, Head(clients[i].pending))
    BY <1>3, <1>5 DEF ProcessQueue
  <2>2. c.win = a /\ a \in App
    BY <1>4 DEF Record
  <2> HIDE DEF c, a
  <2>3. Steered(a, "FORWARD_EVENT")
    BY <1>1, <2>1, <2>2, KeySteers
  <2> QED BY <1>1, <2>2, <2>3 DEF Served
<1>6. CASE ~(~clients[i].sync /\ clients[i].pending # <<>>)
  BY <1>3, <1>6 DEF ProcessQueue
<1> QED BY <1>5, <1>6

(***************************************************************************)
(* The mask of a client, what is on its way to it, and its IC.  A reply    *)
(* that leaves the client without an IC is the last word on its mask.      *)
(***************************************************************************)
Parts(s, on) ==
    \A k \in DOMAIN s : s[k].op = "REPLY" /\ after(s[k].to) # "ic" =>
        ~on /\ \A j \in DOMAIN s : j > k => s[j].op \notin Masks

Agrees(l, s, ic) ==
    /\ l.stage # "ic" => ~l.mask /\ NoMask(s) /\ ~ic.connect
    /\ l.stage = "ic" /\ ic # NoIC => Turns(l.mask, s, ic.connect)
    /\ Parts(s, ic.connect)

Masked(a) == server = "up" /\ ~Dead(a) => Agrees(lib[a], toClient[a], ics[a])

LEMMA PartsJoin ==
    ASSUME NEW s \in Seq(Message), NEW op, NEW msgs, Answering(op, msgs), NEW on, NEW will,
           Parts(s, on),
           \A k \in DOMAIN s : s[k].op = "REPLY" /\ after(s[k].to) # "ic" =>
               NoMask(msgs) /\ ~will,
           op \in Requests /\ after(op) # "ic" => NoMask(msgs) /\ ~will
    PROVE  Parts(s \o msgs, will)
<1> DEFINE st == s \o msgs
<1>1. /\ Len(s) \in Nat /\ msgs \in Seq(Message) /\ DOMAIN s = 1 .. Len(s)
      /\ \A k \in DOMAIN st : \/ k \in DOMAIN s /\ st[k] = s[k]
                              \/ k - Len(s) \in DOMAIN msgs /\ st[k] = msgs[k - Len(s)]
      /\ DOMAIN st \subseteq Int
  <2>1. msgs \in Seq(Message)
    BY DEF Answering
  <2>2. /\ DOMAIN s = 1 .. Len(s) /\ DOMAIN msgs = 1 .. Len(msgs)
        /\ Len(s) \in Nat /\ Len(msgs) \in Nat
        /\ DOMAIN st = 1 .. Len(s) + Len(msgs)
        /\ \A k \in 1 .. Len(s) : st[k] = s[k]
        /\ \A k \in Len(s) + 1 .. Len(s) + Len(msgs) : st[k] = msgs[k - Len(s)]
    BY <2>1
  <2> HIDE DEF st
  <2> QED BY <2>1, <2>2
<1> HIDE DEF st
<1>2. SUFFICES ASSUME NEW k \in DOMAIN st, st[k].op = "REPLY", after(st[k].to) # "ic"
               PROVE  ~will /\ \A j \in DOMAIN st : j > k => st[j].op \notin Masks
  BY DEF Parts, st
<1>3. CASE k \in DOMAIN s /\ st[k] = s[k]
  <2>1. NoMask(msgs) /\ ~will /\ \A j \in DOMAIN s : j > k => s[j].op \notin Masks
    BY <1>2, <1>3 DEF Parts
  <2> QED BY <1>1, <2>1 DEF NoMask
<1>4. CASE k - Len(s) \in DOMAIN msgs /\ st[k] = msgs[k - Len(s)]
  <2>1. NoMask(msgs) /\ ~will
    BY <1>2, <1>4 DEF Answering
  <2>2. \A j \in DOMAIN st : j > k => j \notin DOMAIN s
    <3>1. DOMAIN msgs = 1 .. Len(msgs)
      BY <1>1
    <3> QED BY <1>1, <1>4, <3>1
  <2> QED BY <1>1, <2>1, <2>2 DEF NoMask
<1> QED BY <1>1, <1>2, <1>3, <1>4

LEMMA PartsTail ==
    ASSUME NEW s \in Seq(Message), s # <<>>, NEW on, Parts(s, on)
    PROVE  /\ Parts(Tail(s), on)
           /\ Head(s).op = "REPLY" /\ after(Head(s).to) # "ic" => ~on /\ NoMask(Tail(s))
<1> DEFINE t == Tail(s)
<1>1. /\ Len(s) \in Nat /\ Len(s) > 0 /\ Head(s) = s[1]
      /\ DOMAIN s = 1 .. Len(s) /\ DOMAIN t = 1 .. Len(s) - 1
      /\ \A k \in 1 .. Len(s) - 1 : t[k] = s[k + 1]
  BY EmptySeq
<1> HIDE DEF t
<1>2. \A k \in DOMAIN t : k + 1 \in DOMAIN s /\ t[k] = s[k + 1] /\ k \in Int /\ k + 1 > 1
  BY <1>1
<1>3. Parts(t, on)
  BY <1>2 DEF Parts
<1>4. ASSUME Head(s).op = "REPLY", after(Head(s).to) # "ic" PROVE ~on /\ NoMask(t)
  <2>1. 1 \in DOMAIN s
    BY <1>1
  <2>2. ~on /\ \A j \in DOMAIN s : j > 1 => s[j].op \notin Masks
    BY <1>1, <1>4, <2>1 DEF Parts
  <2> QED BY <1>2, <2>2 DEF NoMask
<1> QED BY <1>3, <1>4 DEF t

\* What the server does keeps the two in step.
LEMMA OwnAgrees ==
    ASSUME IInv, NEW a \in App, NEW op, Behaves(a), ~Dead(a), Served(a, op), Steered(a, op),
           op # "CREATE_IC" => KeepsIcs, Agrees(lib[a], toClient[a], ics[a])
    PROVE  Agrees(lib[a], toClient'[a], ics'[a])
<1> DEFINE s == toClient[a]
           l == lib[a]
           on == ics[a].connect
<1>0. s \in Seq(Message) /\ toServer[a] \in Seq(Message) /\ Typed /\ OneAtATime(a)
  BY DEF IInv, ClientInv, Typed
<1>1. PICK msgs :
        /\ Answering(op, msgs) /\ Sent(a, msgs)
        /\ NoMask(msgs) \/ op \in Steers \/ (op = "FORWARD_EVENT" /\ on)
        /\ ics'[a].connect => op \in Steers \/ on
        /\ \/ ics'[a] = NoIC \/ op = "CREATE_IC"
           \/ Turns(on, msgs, ics'[a].connect)
        /\ op \in {"DESTROY_IC", "CLOSE"} => ics'[a] = NoIC
  BY DEF Steered
<1>2. msgs \in Seq(Message) /\ toClient'[a] = s \o msgs
  BY <1>0, <1>1, NoneInto DEF Answering
<1>3. "FORWARD_EVENT" \notin Steers /\ "FORWARD_EVENT" \notin Requests
  BY Sayings DEF Steers
\* A request is that of the client.
<1>4. op \in Requests => l.awaits = op /\ l.stage \in before(op)
  <2> SUFFICES ASSUME op \in Requests PROVE l.awaits = op /\ l.stage \in before(op)
    OBVIOUS
  <2>1. toServer[a] # <<>> /\ op = Head(toServer[a]).op
    BY <1>3 DEF Served
  <2>2. Head(toServer[a]) \in Range(toServer[a])
    <3>1. 1 \in DOMAIN toServer[a] /\ Head(toServer[a]) = toServer[a][1]
      BY <1>0, <2>1
    <3> QED BY <3>1 DEF Range
  <2>3. l.awaits = op
    BY <1>0, <2>1, <2>2 DEF OneAtATime
  <2> QED BY <2>3, Sayings DEF Behaves
<1>5. l.stage # "ic" => op \notin Steers
  <2> SUFFICES ASSUME l.stage # "ic", op \in Steers PROVE FALSE
    OBVIOUS
  <2>1. toServer[a] # <<>> /\ op = Head(toServer[a]).op
    BY <1>3 DEF Served
  <2>2. 1 \in DOMAIN toServer[a] /\ Head(toServer[a]) = toServer[a][1]
    BY <1>0, <2>1
  <2>3. None(toServer[a], Steers)
    BY DEF Behaves, Dead
  <2> QED BY <2>1, <2>2, <2>3 DEF None
<1> HIDE DEF s, l, on
<1>6. /\ l.stage # "ic" => ~l.mask /\ NoMask(s) /\ ~on
      /\ l.stage = "ic" /\ ics[a] # NoIC => Turns(l.mask, s, on)
      /\ Parts(s, on)
  BY DEF Agrees, s, l, on
<1>7. l.stage # "ic" => ~l.mask /\ NoMask(s \o msgs) /\ ~ics'[a].connect
  <2>1. NoMask(s) /\ NoMask(msgs) => NoMask(s \o msgs)
    BY <1>0, <1>2, JoinNone, NoMaskNone
  <2> QED BY <1>1, <1>5, <1>6, <2>1
<1>8. l.stage = "ic" /\ ics'[a] # NoIC => Turns(l.mask, s \o msgs, ics'[a].connect)
  <2> SUFFICES ASSUME l.stage = "ic", ics'[a] # NoIC
               PROVE  Turns(l.mask, s \o msgs, ics'[a].connect)
    OBVIOUS
  <2>1. op # "CREATE_IC"
    BY <1>4 DEF Requests, Questions, before
  <2>2. ics[a] # NoIC
    BY <2>1 DEF KeepsIcs
  <2>3. Turns(l.mask, s, on) /\ Turns(on, msgs, ics'[a].connect)
    BY <1>1, <1>6, <2>1, <2>2
  <2> QED BY <1>0, <1>2, <2>3, TurnsJoin
<1>9. op \in Requests /\ after(op) # "ic" => NoMask(msgs) /\ ~ics'[a].connect
  <2> SUFFICES ASSUME op \in Requests, after(op) # "ic" PROVE NoMask(msgs) /\ ~ics'[a].connect
    OBVIOUS
  <2>1. op \notin Steers /\ op # "FORWARD_EVENT"
    BY <1>3 DEF Steers, Requests, Questions, after
  <2>2. "ic" \in before(op) => op \in {"DESTROY_IC", "CLOSE"}
    BY DEF Requests, Questions, before, after
  <2>3. ~NoIC.connect
    BY DEF NoIC
  <2> QED BY <1>1, <1>4, <1>6, <2>1, <2>2, <2>3
<1>10. ASSUME NEW k \in DOMAIN s, s[k].op = "REPLY", after(s[k].to) # "ic"
       PROVE  NoMask(msgs) /\ ~ics'[a].connect
  <2>1. ~None(s, {"REPLY"}) /\ ~on
    BY <1>6, <1>10 DEF None, Parts
  <2>2. toServer[a] = <<>>
    BY <2>1 DEF Behaves, s
  <2>3. op = "FORWARD_EVENT"
    BY <2>2 DEF Served
  <2> QED BY <1>1, <1>3, <2>1, <2>3
<1>11. Parts(s \o msgs, ics'[a].connect)
  BY <1>0, <1>1, <1>6, <1>9, <1>10, PartsJoin
<1> QED BY <1>2, <1>7, <1>8, <1>11 DEF Agrees, l

LEMMA LostIcAgrees ==
    ASSUME NEW l, NEW s, NEW ic, Agrees(l, s, ic)
    PROVE  Agrees(l, s, NoIC)
<1>1. ~NoIC.connect
  BY DEF NoIC
<1> QED BY <1>1 DEF Agrees, Parts

LEMMA SteeredMasked ==
    ASSUME IInv, NEW a \in App, NEW op, Behaves(a), Served(a, op), Steered(a, op),
           op # "CREATE_IC" => KeepsIcs, UNCHANGED lib, server = "up",
           NEW b \in App, Masked(b)
    PROVE  Masked(b)'
<1> SUFFICES ASSUME ~Dead(b) PROVE Agrees(lib[b], toClient'[b], ics'[b])
  BY DEF Masked, Dead
<1>1. Agrees(lib[b], toClient[b], ics[b])
  BY DEF Masked
<1>2. CASE b = a
  BY <1>1, <1>2, OwnAgrees
<1>3. CASE b # a
  <2>1. PICK msgs : Answering(op, msgs) /\ Sent(a, msgs) /\ ics'[b] \in {ics[b], NoIC}
    BY <1>3 DEF Steered
  <2>2. toClient'[b] = toClient[b]
    BY <1>3, <2>1, NoneInto DEF Answering, IInv
  <2> QED BY <1>1, <2>1, <2>2, LostIcAgrees
<1> QED BY <1>2, <1>3

LEMMA ServerMasked ==
    ASSUME IInv, ServerActs, NEW b \in App, Masked(b), \A a \in App : Behaves(a)
    PROVE  Masked(b)'
<1>0. Typed
  BY DEF IInv
<1>1. ASSUME server # "up" PROVE server' # "up"
  <2>1. \A a \in App : Receive(a) => server' # "up"
    BY <1>0, <1>1, ReceiveStep DEF Handled
  <2>2. ProcessQueue => server' # "up"
    BY <1>0, <1>1, QueueStep DEF Handled
  <2>3. XimClose => server' # "up"
    BY <1>0, CloseStep
  <2> QED BY <2>1, <2>2, <2>3 DEF ServerActs
<1>2. CASE server # "up"
  BY <1>1, <1>2 DEF Masked
<1>3. ASSUME server = "up", NEW a \in App, Receive(a) PROVE Masked(b)'
  <2> DEFINE op == Head(toServer[a]).op
  <2>1. Steered(a, op) /\ Served(a, op)
    BY <1>3, ReceiveSteers
  <2>2. UNCHANGED lib /\ (op # "CREATE_IC" => KeepsIcs)
    BY <1>0, <1>3, ReceiveStep DEF Handled
  <2> HIDE DEF op
  <2> QED BY <1>3, <2>1, <2>2, SteeredMasked
<1>4. CASE server = "up" /\ ProcessQueue
  <2>1. UNCHANGED lib
    BY <1>0, <1>4, QueueStep
  <2>2. ASSUME NEW a \in App, Steered(a, "FORWARD_EVENT"), Served(a, "FORWARD_EVENT"), KeepsIcs
        PROVE  Masked(b)'
    BY <1>4, <2>1, <2>2, SteeredMasked
  <2>3. UNCHANGED <<ics, toClient>> => Masked(b)'
    BY <1>4, <2>1 DEF Masked, Dead
  <2>4. KeepsIcs \/ UNCHANGED <<ics, toClient>>
    BY <1>0, <1>4, QueueStep DEF Handled
  <2> QED BY <1>4, <2>2, <2>3, <2>4, QueueSteers
<1>5. CASE XimClose
  <2>1. server' # "up"
    BY <1>0, <1>5, CloseStep
  <2> QED BY <2>1 DEF Masked
<1> QED BY <1>2, <1>3, <1>4, <1>5 DEF ServerActs

\* What a client hears first is first of what it will have heard.
LEMMA HeardMasked ==
    ASSUME IInv, NEW a \in App, Hears(a), Behaves(a), Agrees(lib[a], toClient[a], ics[a])
    PROVE  Agrees(lib'[a], toClient'[a], ics[a])
<1> DEFINE s == toClient[a]
           x == Head(s)
           l == lib[a]
           h == heard(l, x)
           on == ics[a].connect
<1>0. Typed /\ OneAtATime(a)
  BY DEF IInv, ClientInv
<1>1. /\ s \in Seq(Message) /\ s # <<>> /\ l \in Client /\ toClient'[a] = Tail(s) /\ lib'[a] = h
      /\ on \in BOOLEAN
  BY <1>0, IcRecord DEF Hears, Typed
<1> HIDE DEF s
<1>2. x \in Message /\ x = s[1] /\ 1 \in DOMAIN s
  BY <1>1
<1>3. /\ l.stage # "ic" => ~l.mask /\ NoMask(s) /\ ~on
      /\ l.stage = "ic" /\ ics[a] # NoIC => Turns(l.mask, s, on)
      /\ Parts(s, on)
  BY DEF Agrees, s
<1> HIDE DEF x, on
<1>4. /\ Parts(Tail(s), on)
      /\ x.op = "REPLY" /\ after(x.to) # "ic" => ~on /\ NoMask(Tail(s))
  BY <1>1, <1>3, PartsTail DEF x
<1>5. NoMask(s) => NoMask(Tail(s)) /\ x.op \notin Masks
  <2>1. None(s, Masks) => None(Tail(s), Masks)
    BY <1>1, TailNone
  <2> QED BY <1>2, <2>1, NoMaskNone DEF NoMask
<1>6. l.mask \in BOOLEAN /\ (l.stage = "ic" /\ ics[a] # NoIC => Turns(turned(l.mask, x), Tail(s), on))
  <2>1. l.mask \in BOOLEAN
    BY <1>1 DEF Client
  <2> QED BY <1>1, <1>3, <2>1, TurnsTail DEF x
<1>7. /\ x.op # "REPLY" => h.stage = l.stage
      /\ x.op = "REPLY" => h.stage = after(x.to) /\ h.mask = (l.mask /\ after(x.to) = "ic")
      /\ x.op # "REPLY" => h.mask = turned(l.mask, x)
  <2>1. /\ x.op # "REPLY" => heard(l, x).stage = l.stage
        /\ x.op = "REPLY" => heard(l, x).stage = after(x.to)
    BY <1>1, <1>2, HeardTyped
  <2>2. /\ x.op = "REPLY" => heard(l, x).mask = (l.mask /\ after(x.to) = "ic")
        /\ x.op \notin {"SET_EVENT_MASK", "CLEAR_EVENT_MASK", "REPLY"}
              => heard(l, x).mask = l.mask
        /\ x.op = "SET_EVENT_MASK" => heard(l, x).mask = TRUE
        /\ x.op = "CLEAR_EVENT_MASK" => heard(l, x).mask = FALSE
    BY <1>1, <1>2, HeardKeeps
  <2> QED BY <2>1, <2>2 DEF turned
<1> HIDE DEF h, l
<1>8. CASE x.op = "REPLY" /\ after(x.to) # "ic"
  <2>1. h.stage # "ic" /\ ~h.mask /\ NoMask(Tail(s)) /\ ~on
    BY <1>4, <1>7, <1>8
  <2> QED BY <1>1, <1>4, <2>1 DEF Agrees, on
<1>9. CASE x.op = "REPLY" /\ after(x.to) = "ic"
  <2>1. h.stage = "ic" /\ h.mask = l.mask
    BY <1>6, <1>7, <1>9
  <2>2. turned(l.mask, x) = l.mask
    BY <1>9 DEF turned
  <2>3. ics[a] # NoIC => Turns(h.mask, Tail(s), on)
    <3>1. CASE l.stage = "ic"
      BY <1>6, <2>1, <2>2, <3>1
    <3>2. CASE l.stage # "ic"
      BY <1>1, <1>3, <1>5, <1>6, <2>1, <3>2 DEF Turns
    <3> QED BY <3>1, <3>2
  <2> QED BY <1>1, <1>4, <2>1, <2>3 DEF Agrees, on
<1>10. CASE x.op # "REPLY"
  <2>1. h.stage = l.stage /\ h.mask = turned(l.mask, x)
    BY <1>7, <1>10
  <2>2. h.stage # "ic" => ~h.mask /\ NoMask(Tail(s)) /\ ~on
    BY <1>3, <1>5, <2>1 DEF turned, Masks
  <2>3. h.stage = "ic" /\ ics[a] # NoIC => Turns(h.mask, Tail(s), on)
    BY <1>6, <2>1
  <2> QED BY <1>1, <1>4, <2>2, <2>3 DEF Agrees, on
<1> QED BY <1>8, <1>9, <1>10

LEMMA ClientMasked ==
    ASSUME IInv, NEW a \in App, ClientActs(a), NEW b \in App, Masked(b),
           \A c \in App : Behaves(c)
    PROVE  Masked(b)'
<1>0. Typed /\ OneAtATime(a)
  BY DEF IInv, ClientInv
<1>1. UNCHANGED <<ics, server>> /\ Others(a) /\ Speaks(a)
  BY <1>0, ClientKeeps, ClientSpeaks
<1>2. CASE b # a
  BY <1>1, <1>2 DEF Others, Masked, Dead
<1>3. ASSUME b = a, UNCHANGED toClient, lib'[a].stage = lib[a].stage, lib'[a].mask = lib[a].mask
      PROVE  Masked(b)'
  BY <1>1, <1>3 DEF Masked, Dead, Agrees
<1>4. ASSUME NEW r \in Requests, Requesting(a, r)
      PROVE  UNCHANGED toClient /\ lib'[a].stage = lib[a].stage /\ lib'[a].mask = lib[a].mask
  BY <1>4 DEF Requesting, Asks
<1>5. ASSUME NEW x \in Message, Telling(a, x)
      PROVE  UNCHANGED toClient /\ lib'[a].stage = lib[a].stage /\ lib'[a].mask = lib[a].mask
  BY <1>5 DEF Telling, Tells
<1>6. ASSUME b = a, Hears(a) PROVE Masked(b)'
  <2>1. ~Dead(a)
    BY <1>0, <1>6 DEF Hears, OneAtATime
  <2>2. server = "up" => Agrees(lib'[a], toClient'[a], ics[a])
    BY <1>6, <2>1, HeardMasked DEF Masked
  <2> QED BY <1>1, <1>6, <2>2 DEF Masked
<1>7. ASSUME b = a, Dying(a) PROVE Masked(b)'
  <2>1. lib'[a].stage = "dead"
    BY <1>7 DEF Dying, Dies
  <2> QED BY <1>7, <2>1 DEF Masked, Dead
<1> QED BY <1>1, <1>2, <1>3, <1>4, <1>5, <1>6, <1>7 DEF Speaks

-----------------------------------------------------------------------------
MaskInv == OrderInv /\ \A b \in App : Masked(b)

LEMMA InitMask == Init => MaskInv
<1> SUFFICES ASSUME Init PROVE MaskInv
  OBVIOUS
<1>1. OrderInv
  BY InitOrder
<1>2. ASSUME NEW b \in App PROVE Masked(b)
  <2>1. /\ toClient[b] = <<>> /\ lib[b].stage = "new" /\ ~lib[b].mask
        /\ ics[b] = NoIC /\ ~NoIC.connect
    BY DEF Init, Unborn, NoIC
  <2>2. DOMAIN toClient[b] = {}
    <3>1. \A s : s = <<>> => DOMAIN s = {}
      OBVIOUS
    <3> QED BY <2>1, <3>1
  <2> QED BY <2>1, <2>2 DEF Masked, Agrees, Parts, NoMask
<1> QED BY <1>1, <1>2 DEF MaskInv

LEMMA NextMask ==
    ASSUME MaskInv, [Next]_vars
    PROVE  MaskInv'
<1>1. OrderInv /\ IInv /\ \A b \in App : Behaves(b) /\ Masked(b)
  BY DEF MaskInv, OrderInv
<1>2. OrderInv'
  BY <1>1, NextOrder
<1>3. ASSUME NEW b \in App PROVE Masked(b)'
  <2>1. ServerActs => Masked(b)'
    BY <1>1, ServerMasked
  <2>2. \A a \in App : ClientActs(a) => Masked(b)'
    BY <1>1, ClientMasked
  <2>3. UNCHANGED vars => Masked(b)'
    <3>1. UNCHANGED vars => UNCHANGED <<server, lib, toClient, ics>>
      BY DEF vars
    <3> QED BY <1>1, <3>1 DEF Masked, Dead
  <2> QED BY <2>1, <2>2, <2>3, NextActs
<1> QED BY <1>2, <1>3 DEF MaskInv

\* A client that has heard all that is on its way sends its keys exactly when
\* its IC is connected: no mask is lost, left over from an earlier IC or
\* overtaken by a reply (xim.c, xim_connect and xim_disconnect; i18nPtHdr.c,
\* TriggerNotifyMessageProc).
THEOREM MasksAgree == Spec => []MaskAgrees
<1>1. Init => MaskInv
  BY InitMask
<1>2. MaskInv /\ [Next]_vars => MaskInv'
  BY NextMask
<1>3. MaskInv => MaskAgrees
  <2> SUFFICES ASSUME MaskInv, NEW a \in App,
                      server = "up", lib[a].stage = "ic", ics[a] # NoIC
               PROVE  \/ LastMask(toClient[a], ics[a].connect)
                      \/ NoMask(toClient[a]) /\ lib[a].mask = ics[a].connect
    BY DEF MaskAgrees
  <2> QED BY DEF MaskInv, Masked, Dead, Agrees, Turns
<1> QED BY <1>1, <1>2, <1>3, PTL DEF Spec
==============================================================================
