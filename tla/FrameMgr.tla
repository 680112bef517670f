------------------------------ MODULE FrameMgr ------------------------------
(***************************************************************************)
(* The packer and unpacker of messages of lib/IMdkit/FrameMgr.c.  A frame  *)
(* is a sequence of items; a frame instance walks it and keeps, per item,  *)
(* what the caller or the walk has told it: the size of a byte array, the  *)
(* iterator of a list, the instance of a sub-frame.  The item a list       *)
(* repeats and the sub-frame of a pointer are fields of the item here,     *)
(* where the C array puts them in the entries that follow it.              *)
(***************************************************************************)
EXTENDS Integers, Sequences, FiniteSets, TLC

NO_VALUE == -1
NO_VALID_FIELD == -2

\* The items of a frame (FrameMgr.h): _FRAME, _PAD2 and _PAD4,
\* _BYTE_COUNTER, and the entries ITER and POINTER with what they name.
Bits(n)         == [k |-> "BIT", w |-> n]
Barray          == [k |-> "BARRAY"]
Pad(unit, n)    == [k |-> "PADDING", unit |-> unit, number |-> n]
Counter(n, off) == [k |-> "COUNTER", w |-> n, offset |-> off]
Ptr(fr)         == [k |-> "POINTER", frame |-> fr]
ListOf(item)    == [k |-> "ITER", item |-> item]

None == [x \in {} |-> 0]

FrameInstInit(fr) == [t |-> fr, cur |-> 1, ex |-> None]
FrameInstIsEnd(fi) == fi.cur > Len(fi.t)

IterInit(item, count) ==
    [item |-> item, max |-> IF count = NO_VALUE THEN 0 ELSE count,
     expand |-> count = NO_VALUE, cur |-> 0, ex |-> None, start |-> FALSE]

\* ChainMgrGetExtraData, with what the caller makes when there is none.
extra(ex, i, new) == IF i \in DOMAIN ex THEN ex[i] ELSE new
ChainMgrSetData(ex, i, d) == (i :> d) @@ ex

(***************************************************************************)
(* Sizes.  A size is NO_VALUE while an array or a list in it has none.     *)
(***************************************************************************)
RECURSIVE FrameInstGetTotalSize(_), IterGetTotalSize(_),
          _FrameInstGetItemSize(_, _), sizes_from(_, _)

\* The bytes that bring size up to a multiple of unit.
\* Slip: a full unit is padded by another one.
fill_whole(unit, size) == unit - (size % unit)

fill(unit, size) == (unit - (size % unit)) % unit

RECURSIVE padded_size(_, _, _)
padded_size(fi, i, number) ==
    IF number = 0 THEN 0
    ELSE _FrameInstGetItemSize(fi, i - 1) + padded_size(fi, i - 1, number - 1)

pad_of(fi, i) == fill(fi.t[i].unit, padded_size(fi, i, fi.t[i].number))

_FrameInstGetItemSize(fi, i) ==
    LET it == fi.t[i] IN
    CASE it.k \in {"BIT", "COUNTER"} -> it.w
      [] it.k = "PADDING" -> pad_of(fi, i)
      [] i \notin DOMAIN fi.ex -> NO_VALUE
      [] it.k = "BARRAY"  -> fi.ex[i]
      [] it.k = "ITER"    -> IterGetTotalSize(fi.ex[i])
      [] it.k = "POINTER" -> FrameInstGetTotalSize(fi.ex[i])

sizes_from(fi, i) == IF i > Len(fi.t) THEN 0
                     ELSE _FrameInstGetItemSize(fi, i) + sizes_from(fi, i + 1)

FrameInstGetTotalSize(fi) == sizes_from(fi, 1)

RECURSIVE elements_size(_, _)
elements_size(it, i) ==
    IF i = it.max THEN 0
    ELSE LET d == extra(it.ex, i, FrameInstInit(it.item.frame))
             n == FrameInstGetTotalSize(d)
             rest == elements_size(it, i + 1)
         IN  IF n = NO_VALUE \/ rest = NO_VALUE THEN NO_VALUE ELSE n + rest

\* A list of cards, or of sub-frames.
IterGetTotalSize(it) ==
    CASE it.expand -> NO_VALUE
      [] it.item.k = "BIT" -> it.max * it.item.w
      [] it.item.k = "POINTER" -> elements_size(it, 0)

(***************************************************************************)
(* FrameMgrSetSize and FrameMgrSetIterCount: the first array without a     *)
(* size gets it, the first list without a count gets it.  The result is    *)
(* the instance, unchanged when the C function returns FmNoMoreData.       *)
(***************************************************************************)
RECURSIVE set_size_from(_, _, _), IterSetSize(_, _), set_in_elements(_, _, _)

FrameInstSetSize(fi, num) == set_size_from(fi, num, 1)

set_size_from(fi, num, i) ==
    LET next == set_size_from(fi, num, i + 1)
        with(d, d1) == IF d1 = d
                       THEN set_size_from([fi EXCEPT !.ex = ChainMgrSetData(@, i, d)],
                                          num, i + 1)
                       ELSE [fi EXCEPT !.ex = ChainMgrSetData(@, i, d1)]
    IN  IF i > Len(fi.t) THEN fi
        ELSE CASE fi.t[i].k = "BARRAY" ->
                     IF extra(fi.ex, i, NO_VALUE) = NO_VALUE
                     THEN [fi EXCEPT !.ex = ChainMgrSetData(@, i, num)]
                     ELSE next
               [] fi.t[i].k = "ITER" ->
                     LET d == extra(fi.ex, i, IterInit(fi.t[i].item, NO_VALUE))
                     IN  with(d, IterSetSize(d, num))
               [] fi.t[i].k = "POINTER" ->
                     LET d == extra(fi.ex, i, FrameInstInit(fi.t[i].frame))
                     IN  with(d, FrameInstSetSize(d, num))
               [] OTHER -> next

\* The elements from i on, then a new element if the list may grow.
set_in_elements(it, num, i) ==
    LET d  == extra(it.ex, i, FrameInstInit(it.item.frame))
        d1 == FrameInstSetSize(d, num)
        grown == [it EXCEPT !.ex = ChainMgrSetData(@, i, d1), !.max = i + 1]
    IN  IF i >= it.max /\ ~it.expand THEN it
        ELSE IF d1 # d THEN IF i < it.max
                            THEN [it EXCEPT !.ex = ChainMgrSetData(@, i, d1)]
                            ELSE grown
        ELSE IF i < it.max THEN set_in_elements(it, num, i + 1)
        ELSE grown

IterSetSize(it, num) ==
    IF it.item.k # "POINTER" \/ (~it.expand /\ it.max = 0) THEN it
    ELSE set_in_elements(it, num, 0)

RECURSIVE set_count_from(_, _, _)
FrameInstSetIterCount(fi, num) == set_count_from(fi, num, 1)

\* No list of this protocol holds a list: only the lists of the frame itself
\* can take a count.
set_count_from(fi, num, i) ==
    IF i > Len(fi.t) THEN fi
    ELSE IF fi.t[i].k # "ITER" THEN set_count_from(fi, num, i + 1)
    ELSE LET d == extra(fi.ex, i, IterInit(fi.t[i].item, NO_VALUE))
         IN  IF d.expand
             THEN [fi EXCEPT !.ex = ChainMgrSetData(@, i,
                                      [d EXCEPT !.max = num, !.expand = FALSE])]
             ELSE set_count_from(fi, num, i + 1)

(***************************************************************************)
(* FrameInstGetNextType and IterGetNextType: the next item, what it needs  *)
(* (an array's size, the fill of a pad, the list a counter counts), and    *)
(* the walk advanced.  At the end of a sub-frame the walk goes on after    *)
(* it; in an iterator that may grow there is always a next element.        *)
(***************************************************************************)
RECURSIVE FrameInstGetNextType(_), IterGetNextType(_)

found(ty, w, num, of, inst) == [ty |-> ty, w |-> w, num |-> num, of |-> of,
                                inst |-> inst]
advance(fi) == [fi EXCEPT !.cur = @ + 1]

FrameInstGetNextType(fi) ==
    LET i  == fi.cur
        it == fi.t[i]
        \* The rest of the frame, when the list or sub-frame d is over.
        into(sub) == IF sub.ty = "EOL" THEN FrameInstGetNextType(advance(fi))
                     ELSE [sub EXCEPT !.inst = [fi EXCEPT !.ex =
                                                    ChainMgrSetData(@, i, sub.inst)]]
    IN  IF FrameInstIsEnd(fi) THEN found("EOL", 0, 0, 0, fi)
        ELSE CASE it.k = "BIT" -> found("BIT", it.w, 0, 0, advance(fi))
               [] it.k = "COUNTER" ->
                     LET j == i + it.offset
                         d == extra(fi.ex, j, IterInit(fi.t[j].item, NO_VALUE))
                     IN  found("COUNTER", it.w, 0, j,
                               [fi EXCEPT !.cur = @ + 1, !.ex = ChainMgrSetData(@, j, d)])
               [] it.k = "BARRAY" ->
                     found("BARRAY", 0, extra(fi.ex, i, NO_VALUE), 0, advance(fi))
               [] it.k = "PADDING" -> found("PADDING", 0, pad_of(fi, i), 0, advance(fi))
               [] it.k = "ITER" ->
                     into(IterGetNextType(extra(fi.ex, i, IterInit(it.item, NO_VALUE))))
               [] it.k = "POINTER" ->
                     into(FrameInstGetNextType(extra(fi.ex, i, FrameInstInit(it.frame))))

IterGetNextType(it0) ==
    LET it == [it0 EXCEPT !.start = FALSE,
                          !.max = IF it0.cur >= @ /\ it0.expand THEN it0.cur + 1 ELSE @]
        d   == extra(it.ex, it.cur, FrameInstInit(it.item.frame))
        sub == FrameInstGetNextType(d)
    IN  IF it.cur >= it.max THEN found("EOL", 0, 0, 0, it)
        ELSE IF it.item.k = "BIT"
        THEN found("BIT", it.item.w, 0, 0, [it EXCEPT !.cur = @ + 1])
        ELSE IF sub.ty = "EOL" THEN IterGetNextType([it EXCEPT !.cur = @ + 1])
        ELSE [sub EXCEPT !.inst = [it EXCEPT !.ex = ChainMgrSetData(@, it.cur, sub.inst)]]

\* FrameMgrGetSize: the size of the array at or after the walk's position.
RECURSIVE size_at(_, _), size_in_elements(_, _)
FrameInstGetSize(fi) == size_at(fi, fi.cur)

size_at(fi, i) ==
    LET n == CASE fi.t[i].k = "BARRAY"  -> extra(fi.ex, i, NO_VALUE)
               [] fi.t[i].k = "ITER"    ->
                     size_in_elements(extra(fi.ex, i, IterInit(fi.t[i].item, NO_VALUE)), 0)
               [] fi.t[i].k = "POINTER" ->
                     FrameInstGetSize(extra(fi.ex, i, FrameInstInit(fi.t[i].frame)))
               [] OTHER -> NO_VALID_FIELD
    IN  IF i > Len(fi.t) THEN NO_VALID_FIELD
        ELSE IF n # NO_VALID_FIELD THEN n ELSE size_at(fi, i + 1)

size_in_elements(it, j) ==
    LET i == it.cur + j
        n == FrameInstGetSize(extra(it.ex, i, FrameInstInit(it.item.frame)))
    IN  IF i >= it.max \/ it.item.k # "POINTER" THEN NO_VALID_FIELD
        ELSE IF n # NO_VALID_FIELD THEN n ELSE size_in_elements(it, j + 1)

(***************************************************************************)
(* The message manager: a frame instance, the buffer, the index into it,   *)
(* whether bytes are swapped, and the byte-counted lists being watched.    *)
(***************************************************************************)
FrameMgrInit(fr, area, swap) ==
    [fi |-> FrameInstInit(fr), area |-> area, idx |-> 0, swap |-> swap, iters |-> <<>>]

FrameMgrGetTotalSize(fm) == FrameInstGetTotalSize(fm.fi)
FrameMgrGetSize(fm) == FrameInstGetSize(fm.fi)
FrameMgrSetSize(fm, n) == [fm EXCEPT !.fi = FrameInstSetSize(@, n)]
FrameMgrSetIterCount(fm, n) == [fm EXCEPT !.fi = FrameInstSetIterCount(@, n)]

\* Swap16 and Swap32.  The server's own order is little-endian here.
\* Slip: the bytes of a word are swapped in pairs only.
byte_at_pair(n, w, i, swap) ==
    LET e == IF swap THEN (IF w = 1 THEN 0 ELSE IF i % 2 = 0 THEN i + 1 ELSE i - 1) ELSE i
    IN  (n \div 256^e) % 256

byte_at(n, w, i, swap) ==
    LET e == IF swap THEN w - 1 - i ELSE i IN (n \div 256^e) % 256

RECURSIVE number_from(_, _, _, _, _)
number_from(area, idx, w, i, swap) ==
    IF i = w THEN 0
    ELSE (IF idx + i < Len(area) THEN area[idx + i + 1] ELSE 0)
             * 256^(IF swap THEN w - 1 - i ELSE i)
         + number_from(area, idx, w, i + 1, swap)

store(fm, bytes) ==
    [fm EXCEPT !.area = [i \in 1 .. Len(@) |->
                           IF i > fm.idx /\ i <= fm.idx + Len(bytes)
                           THEN bytes[i - fm.idx] ELSE @[i]],
               !.idx = @ + Len(bytes)]

card(n, w, swap) == [i \in 1 .. w |-> byte_at(n, w, i - 1, swap)]

(***************************************************************************)
(* _FrameMgrPutToken.  A counter on the way is written from what the list  *)
(* is known to hold, a pad is skipped, then the caller's token is put.     *)
(***************************************************************************)
\* Slip: a counter holds the number of the elements.
counted_number(it) == it.max

counted(it) == IterGetTotalSize(it)

RECURSIVE FrameMgrPutToken(_, _)
FrameMgrPutToken(fm, data) ==
    LET n  == FrameInstGetNextType(fm.fi)
        at == [fm EXCEPT !.fi = n.inst]
    IN  CASE n.ty = "COUNTER" ->
               FrameMgrPutToken(store(at, card(counted(n.inst.ex[n.of]), n.w, fm.swap)), data)
          [] n.ty = "BIT"     -> store(at, card(data, n.w, fm.swap))
          [] n.ty = "BARRAY"  -> store(at, SubSeq(data, 1, n.num))
          [] n.ty = "PADDING" -> FrameMgrPutToken([at EXCEPT !.idx = @ + n.num], data)
          [] n.ty = "EOL"     -> at

(***************************************************************************)
(* _FrameMgrGetToken.  A counter starts the watch of its list; the bytes   *)
(* read after the first element began are counted, and at the end the list *)
(* is fixed to the elements it has.                                        *)
(***************************************************************************)
_FrameMgrAppendIter(iters, of, end) ==
    Append(iters, [of |-> of, counting |-> FALSE, counter |-> 0, end |-> end])

\* The watched lists that count, up to the first one that is over.
\* Slip: a list is over only when its bytes are exceeded.
over_late(p, n) == p.counting /\ p.counter + n > p.end

over(p, n) == p.counting /\ p.counter + n >= p.end

_FrameIterCounterIncr(fm, n) ==
    LET ends  == {j \in DOMAIN fm.iters : over(fm.iters[j], n)}
        first == IF ends = {} THEN 0 ELSE CHOOSE j \in ends : \A l \in ends : j <= l
        count(p) == IF p.counting THEN [p EXCEPT !.counter = @ + n] ELSE p
        iters == [j \in DOMAIN fm.iters |->
                     IF first = 0 \/ j < first THEN count(fm.iters[j]) ELSE fm.iters[j]]
    IN  IF first = 0 THEN [fm EXCEPT !.iters = iters]
        ELSE [fm EXCEPT !.iters = SubSeq(iters, 1, first - 1)
                                  \o SubSeq(iters, first + 1, Len(iters)),
                        !.fi.ex[iters[first].of].expand = FALSE]

\* The walk moved to instance inst: a list that was entered is counted now.
watch(fm, inst) ==
    LET entered(j) == fm.fi.ex[fm.iters[j].of].start /\ ~inst.ex[fm.iters[j].of].start
    IN  [fm EXCEPT !.fi = inst,
                   !.iters = [j \in DOMAIN @ |-> [@[j] EXCEPT !.counting =
                                                    @ \/ entered(j)]]]

\* The bytes of the buffer from index idx on.
bytes_at(area, idx, n) == [i \in 1 .. n |-> IF idx + i <= Len(area) THEN area[idx + i]
                                            ELSE 0]

RECURSIVE FrameMgrGetToken(_)
FrameMgrGetToken(fm) ==
    LET n    == FrameInstGetNextType(fm.fi)
        at   == watch(fm, n.inst)
        num  == number_from(fm.area, fm.idx, n.w, 0, fm.swap)
        past(m, k) == _FrameIterCounterIncr([m EXCEPT !.idx = @ + k], k)
    IN  CASE n.ty = "COUNTER" ->
               [data |-> num,
                fm |-> past([at EXCEPT !.iters = _FrameMgrAppendIter(@, n.of, num),
                                       !.fi.ex[n.of].start = TRUE], n.w)]
          [] n.ty = "BIT"     -> [data |-> num, fm |-> past(at, n.w)]
          [] n.ty = "BARRAY"  -> [data |-> bytes_at(fm.area, fm.idx, n.num),
                                  fm |-> IF n.num > 0 THEN past(at, n.num) ELSE at]
          [] n.ty = "PADDING" -> FrameMgrGetToken(past(at, n.num))
          [] n.ty = "EOL"     -> [data |-> NO_VALUE, fm |-> at]

(***************************************************************************)
(* FrameMgrIsIterLoopEnd: skip the pads until the list is over or an item  *)
(* of it is next; a list that is over is left.                             *)
(***************************************************************************)
\* IterIsLoopEnd on the list at the walk's position.
iter_end(it) ==
    LET i == it.cur IN
    IF ~it.expand /\ i = it.max THEN [end |-> TRUE, it |-> it]
    ELSE IF it.item.k = "POINTER" /\ i \in DOMAIN it.ex /\ FrameInstIsEnd(it.ex[i])
    THEN [end |-> ~it.expand /\ i + 1 = it.max, it |-> [it EXCEPT !.cur = @ + 1]]
    ELSE [end |-> FALSE, it |-> it]

FrameInstIsIterLoopEnd(fi) ==
    IF FrameInstIsEnd(fi) \/ fi.t[fi.cur].k # "ITER" \/ fi.cur \notin DOMAIN fi.ex
    THEN [end |-> FALSE, fi |-> fi]
    ELSE LET e == iter_end(fi.ex[fi.cur])
         IN  [end |-> e.end, fi |-> [fi EXCEPT !.ex[fi.cur] = e.it,
                                               !.cur = IF e.end THEN @ + 1 ELSE @]]

\* The type of the item that is next, without moving.
FrameInstPeekNextType(fi) == FrameInstGetNextType(fi).ty

RECURSIVE FrameMgrIsIterLoopEnd(_)
FrameMgrIsIterLoopEnd(fm) ==
    LET e    == FrameInstIsIterLoopEnd(fm.fi)
        here == [fm EXCEPT !.fi = e.fi]
        n    == FrameInstGetNextType(e.fi)
        past == _FrameIterCounterIncr([watch(here, n.inst) EXCEPT !.idx = @ + n.num], n.num)
    IN  IF e.end THEN [end |-> TRUE, fm |-> here]
        ELSE IF FrameInstPeekNextType(e.fi) = "PADDING" THEN FrameMgrIsIterLoopEnd(past)
        ELSE [end |-> FALSE, fm |-> here]
=============================================================================
