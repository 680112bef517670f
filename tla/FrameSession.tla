---------------------------- MODULE FrameSession ----------------------------
(***************************************************************************)
(* One message through the frame manager, a token a step: a reply that a   *)
(* procedure of the server writes, or a request it reads from the buffer a *)
(* client has laid out.  Every frame of the protocol is tried, with lists  *)
(* and arrays of each of the given sizes, in both byte orders.             *)
(***************************************************************************)
EXTENDS IMProto

CONSTANTS ReadSizes,    \* the lengths of lists in a request
          WriteSizes,   \* the lengths of lists in a reply
          ArraySizes    \* the lengths of byte arrays

ASSUME SizesAssumption ==
    ReadSizes \cup WriteSizes \cup ArraySizes \subseteq Nat

VARIABLES msg,      \* the message: frame, value, byte order, direction
          fm,       \* the frame manager
          todo,     \* the tokens still to be put
          pos,      \* the reader's position
          got       \* the tokens read

vars == <<msg, fm, todo, pos, got>>

(***************************************************************************)
(* The messages, and their layout by the protocol: fields in order, each   *)
(* card in the order of the client, a counter the bytes of its list, a pad *)
(* filling up the fields before it.                                        *)
(***************************************************************************)
\* A value of a frame: cards tell their place, the card before an array is
\* its length.
RECURSIVE Value(_, _, _, _)
Value(fr, n, s, e) ==
    [i \in DOMAIN fr |->
        CASE fr[i].k = "BARRAY"  -> [b \in 1 .. (s + e) |-> 64 + b]
          [] fr[i].k = "BIT" /\ i < Len(fr) /\ fr[i + 1].k = "BARRAY" -> s + e
          [] fr[i].k = "BIT"     -> IF fr[i].w = 1 THEN i + e ELSE 256 * i + e + 1
          [] fr[i].k = "POINTER" -> Value(fr[i].frame, n, s, e)
          [] fr[i].k = "ITER"    ->
                [x \in 1 .. n[Cardinality({l \in 1 .. i : fr[l].k = "ITER"})] |->
                    IF fr[i].item.k = "BIT" THEN 256 * i + x
                    ELSE Value(fr[i].item.frame, n, s, x - 1)]
          [] OTHER -> 0]

RECURSIVE LayItem(_, _, _), Lay(_, _, _), LayFrom(_, _, _, _)
LayItem(it, v, swap) ==
    CASE it.k = "BIT"     -> [i \in 1 .. it.w |->
                                (v \div 256^(IF swap THEN it.w - i ELSE i - 1)) % 256]
      [] it.k = "BARRAY"  -> v
      [] it.k = "POINTER" -> Lay(it.frame, v, swap)
      [] it.k = "ITER"    -> FlattenSeq([e \in DOMAIN v |-> LayItem(it.item, v[e], swap)])

\* laid: the bytes of the fields before field i.
LayFrom(fr, v, swap, laid) ==
    LET i  == Len(laid) + 1
        before == Len(FlattenSeq(SubSeq(laid, i - fr[i].number, i - 1)))
        field == CASE fr[i].k = "PADDING" ->
                        [z \in 1 .. (CHOOSE p \in 0 .. fr[i].unit - 1 :
                                        (before + p) % fr[i].unit = 0) |-> 0]
                   [] fr[i].k = "COUNTER" ->
                        LET l == i + fr[i].offset
                        IN  LayItem(Bits(fr[i].w), Len(LayItem(fr[l], v[l], swap)), swap)
                   [] OTHER -> LayItem(fr[i], v[i], swap)
    IN  IF i > Len(fr) THEN laid ELSE LayFrom(fr, v, swap, Append(laid, field))

Lay(fr, v, swap) == FlattenSeq(LayFrom(fr, v, swap, <<>>))

Message(dir, fr, n, s, swap) ==
    [dir |-> dir, fr |-> fr, v |-> Value(fr, n, s, 0), swap |-> swap]

(***************************************************************************)
(* The steps.                                                              *)
(***************************************************************************)
Fresh(m) == FrameMgrInit(m.fr, IF m.dir = "read" THEN Lay(m.fr, m.v, m.swap) ELSE <<>>,
                         m.swap)

Begin(m) == /\ msg = m
            /\ fm = Fresh(m)
            /\ todo = IF m.dir = "write" THEN tokens(m.fr, m.v) ELSE <<>>
            /\ pos = settle(m.fr, [i |-> 1, j |-> 0])
            /\ got = <<>>

\* The writer of commit_both_fr announces no size for an empty string.
Init == \E s \in ArraySizes, swap \in BOOLEAN :
          \/ \E t \in DOMAIN Read, n1 \in ReadSizes, n2 \in ReadSizes :
                Begin(Message("read", Read[t], <<n1, n2>>, s, swap))
          \/ \E t \in DOMAIN Written, n1 \in WriteSizes, n2 \in WriteSizes :
                /\ t = "commit_both" => s > 0
                /\ Begin(Message("write", Written[t], <<n1, n2>>, s, swap))

\* The total size is asked for and the buffer made.
Prepare == /\ msg.dir = "write" /\ fm = Fresh(msg)
           /\ LET a == FrameMgrSetBuffer(announce(fm, msg.fr, msg.v))
              IN  a # fm /\ fm' = a
           /\ UNCHANGED <<msg, todo, pos, got>>

Put == /\ msg.dir = "write" /\ fm.area # <<>> /\ todo # <<>>
       /\ LET k    == Len(tokens(msg.fr, msg.v)) - Len(todo) + 1
              j    == size_asked(msg.fr, k)
              todo1 == IF j = 0 THEN todo
                       ELSE [todo EXCEPT ![j - k + 1] = FrameMgrGetSize(fm)]
          IN  fm' = FrameMgrPutToken(fm, Head(todo1)) /\ todo' = Tail(todo1)
       /\ UNCHANGED <<msg, pos, got>>

Reading == msg.dir = "read" /\ pos.i <= Len(msg.fr)
AtLoop  == Reading /\ asked(msg.fr, pos).k = "ITER"

\* while (FrameMgrIsIterLoopEnd(fm, &status) == False)
Loop == /\ AtLoop
        /\ LET e == FrameMgrIsIterLoopEnd(fm)
           IN  /\ fm' = e.fm
               /\ pos' = IF e.end THEN after(msg.fr, pos)
                         ELSE settle(msg.fr, [pos EXCEPT !.j = 1])
        /\ UNCHANGED <<msg, todo, got>>

\* A counter is read like a card, and its value is not kept.
Get == /\ Reading /\ ~AtLoop
       /\ LET it == asked(msg.fr, pos)
              r  == FrameMgrGetToken(IF it.k = "BARRAY"
                                     THEN FrameMgrSetSize(fm, got[Len(got)]) ELSE fm)
          IN  /\ fm' = r.fm
              /\ got' = IF it.k = "COUNTER" THEN got ELSE Append(got, r.data)
       /\ pos' = after(msg.fr, pos)
       /\ UNCHANGED <<msg, todo>>

Next == Prepare \/ Put \/ Loop \/ Get

Spec == Init /\ [][Next]_vars

(***************************************************************************)
(* Properties.                                                             *)
(***************************************************************************)

\* A reply whose tokens are all put is laid out as the protocol says: the
\* total size announced before, the counters written on the way and the pads
\* skipped agree with each other (i18nPtHdr.c, i18nIc.c, i18nClbk.c).
LaidOut ==
    (msg.dir = "write" /\ todo = <<>> /\ fm.area # <<>>)
        => fm.area = Lay(msg.fr, msg.v, msg.swap)

\* A request is read back as the client laid it out, in either byte order:
\* the loops over its lists stop with their last element and nothing of a
\* following field is taken for an element.
ReadBack ==
    msg.dir = "read" =>
        /\ IsPrefix(got, tokens(msg.fr, msg.v))
        /\ pos.i > Len(msg.fr) => got = tokens(msg.fr, msg.v)
=============================================================================
