------------------------------- MODULE IMProto -------------------------------
(***************************************************************************)
(* The frames of the messages the server reads and writes, from            *)
(* lib/IMdkit/i18nIMProto.c, and how its procedures walk them: what the    *)
(* writer of a reply does before and while it puts the tokens, and the     *)
(* loop the reader of a request runs over the tokens it gets.              *)
(***************************************************************************)
EXTENDS FrameMgr, SequencesExt

b8  == Bits(1)
b16 == Bits(2)
b32 == Bits(4)
pad4(n) == Pad(4, n)

\* The frames of i18nIMProto.c.  connect_fr is not among them: its reader
\* stops before the list, whose sub-frame xpcs_fr has no end.
ximattr_fr == <<b16, b16, b16, Barray, pad4(2)>>
xicattr_fr == <<b16, b16, b16, Barray, pad4(2)>>
ximattribute_fr == <<b16, b16, Barray, pad4(1)>>
xicattribute_fr == <<b16, b16, Barray, pad4(1)>>
ximtriggerkey_fr == <<b32, b32, b32>>
encodinginfo_fr == <<b16, Barray, pad4(2)>>
str_fr == <<b8, Barray>>
ext_fr == <<b16, b16, b16, Barray, pad4(2)>>
inputstyle_fr == <<b32>>
attr_head_fr == <<b16, b16>>
short_fr == <<b16>>
long_fr == <<b32>>
xrectangle_fr == <<b16, b16, b16, b16>>
xpoint_fr == <<b16, b16>>
fontset_fr == <<b16, Barray, pad4(2)>>
input_styles_fr == <<b16, pad4(1), ListOf(Ptr(inputstyle_fr))>>
packet_header_fr == <<b8, b8, b16>>
connect_reply_fr == <<b16, b16>>
disconnect_fr == <<>>
disconnect_reply_fr == <<>>
open_fr == <<Ptr(str_fr), pad4(1)>>
open_reply_fr == <<b16, Counter(2, 1), ListOf(Ptr(ximattr_fr)),
    Counter(2, 2), pad4(1), ListOf(Ptr(xicattr_fr))>>
close_fr == <<b16, pad4(1)>>
close_reply_fr == <<b16, pad4(1)>>
register_triggerkeys_fr == <<b16, pad4(1), Counter(4, 1),
    ListOf(Ptr(ximtriggerkey_fr)), Counter(4, 1), ListOf(Ptr(ximtriggerkey_fr))>>
trigger_notify_fr == <<b16, b16, b32, b32, b32>>
trigger_notify_reply_fr == <<b16, b16>>
set_event_mask_fr == <<b16, b16, b32, b32>>
encoding_negotiation_fr == <<b16, Counter(2, 1), ListOf(Ptr(str_fr)),
    pad4(1), Counter(2, 2), pad4(1), ListOf(Ptr(encodinginfo_fr))>>
encoding_negotiation_reply_fr == <<b16, b16, b16, pad4(1)>>
query_extension_fr == <<b16, Counter(2, 1), ListOf(Ptr(str_fr)), pad4(1)>>
query_extension_reply_fr == <<b16, Counter(2, 1), ListOf(Ptr(ext_fr))>>
get_im_values_fr == <<b16, Counter(2, 1), ListOf(b16), pad4(1)>>
get_im_values_reply_fr == <<b16, Counter(2, 1), ListOf(Ptr(ximattribute_fr))>>
create_ic_fr == <<b16, Counter(2, 1), ListOf(Ptr(xicattribute_fr))>>
create_ic_reply_fr == <<b16, b16>>
destroy_ic_fr == <<b16, b16>>
destroy_ic_reply_fr == <<b16, b16>>
set_ic_values_fr == <<b16, b16, Counter(2, 2), pad4(1),
    ListOf(Ptr(xicattribute_fr))>>
set_ic_values_reply_fr == <<b16, b16>>
get_ic_values_fr == <<b16, b16, Counter(2, 1), ListOf(b16), pad4(2)>>
get_ic_values_reply_fr == <<b16, b16, Counter(2, 2), pad4(1),
    ListOf(Ptr(xicattribute_fr))>>
set_ic_focus_fr == <<b16, b16>>
unset_ic_focus_fr == <<b16, b16>>
forward_event_fr == <<b16, b16, b16, b16>>
sync_fr == <<b16, b16>>
sync_reply_fr == <<b16, b16>>
commit_chars_fr == <<b16, b16, b16, b16, Barray, pad4(1)>>
commit_both_fr == <<b16, b16, b16, pad4(1), b32, b16, Barray, pad4(2)>>
reset_ic_fr == <<b16, b16>>
reset_ic_reply_fr == <<b16, b16, b16, Barray, pad4(2)>>
geometry_fr == <<b16, b16>>
preedit_start_fr == <<b16, b16>>
preedit_start_reply_fr == <<b16, b16, b32>>
preedit_draw_fr == <<b16, b16, b32, b32, b32, b32, b16, Barray, pad4(2),
    Counter(2, 2), pad4(1), ListOf(b32)>>
preedit_caret_fr == <<b16, b16, b32, b32, b32>>
preedit_caret_reply_fr == <<b16, b16, b32>>
preedit_done_fr == <<b16, b16>>
status_start_fr == <<b16, b16>>
status_draw_text_fr == <<b16, b16, b32, b32, b16, Barray, pad4(2),
    Counter(2, 2), pad4(1), ListOf(b32)>>
status_draw_bitmap_fr == <<b16, b16, b32, b32>>
status_done_fr == <<b16, b16>>
ext_set_event_mask_fr == <<b16, b16, b32, b32, b32, b32, b32>>
ext_forward_keyevent_fr == <<b16, b16, b16, b16, b8, b8, b16, b32, b32>>
ext_move_fr == <<b16, b16, b16, b16>>

\* The frames the procedures of the server read, and those they write.
Read ==
    [packet_header |-> packet_header_fr, open |-> open_fr,
     close |-> close_fr, trigger_notify |-> trigger_notify_fr,
     encoding_negotiation |-> encoding_negotiation_fr,
     query_extension |-> query_extension_fr,
     get_im_values |-> get_im_values_fr, create_ic |-> create_ic_fr,
     destroy_ic |-> destroy_ic_fr, set_ic_values |-> set_ic_values_fr,
     get_ic_values |-> get_ic_values_fr, set_ic_focus |-> set_ic_focus_fr,
     unset_ic_focus |-> unset_ic_focus_fr,
     forward_event |-> forward_event_fr, sync_reply |-> sync_reply_fr,
     reset_ic |-> reset_ic_fr,
     preedit_start_reply |-> preedit_start_reply_fr,
     preedit_caret_reply |-> preedit_caret_reply_fr,
     ext_forward_keyevent |-> ext_forward_keyevent_fr,
     ext_move |-> ext_move_fr, attr_head |-> attr_head_fr,
     short |-> short_fr, long |-> long_fr, xrectangle |-> xrectangle_fr,
     xpoint |-> xpoint_fr, fontset |-> fontset_fr]

Written ==
    [attr_head |-> attr_head_fr, short |-> short_fr, long |-> long_fr,
     xrectangle |-> xrectangle_fr, xpoint |-> xpoint_fr,
     fontset |-> fontset_fr, input_styles |-> input_styles_fr,
     packet_header |-> packet_header_fr,
     connect_reply |-> connect_reply_fr,
     disconnect_reply |-> disconnect_reply_fr,
     open_reply |-> open_reply_fr, close_reply |-> close_reply_fr,
     register_triggerkeys |-> register_triggerkeys_fr,
     trigger_notify_reply |-> trigger_notify_reply_fr,
     set_event_mask |-> set_event_mask_fr,
     encoding_negotiation_reply |-> encoding_negotiation_reply_fr,
     query_extension_reply |-> query_extension_reply_fr,
     get_im_values_reply |-> get_im_values_reply_fr,
     create_ic_reply |-> create_ic_reply_fr,
     destroy_ic_reply |-> destroy_ic_reply_fr,
     set_ic_values_reply |-> set_ic_values_reply_fr,
     get_ic_values_reply |-> get_ic_values_reply_fr,
     forward_event |-> forward_event_fr, sync |-> sync_fr,
     commit_chars |-> commit_chars_fr, commit_both |-> commit_both_fr,
     reset_ic_reply |-> reset_ic_reply_fr, geometry |-> geometry_fr,
     preedit_start |-> preedit_start_fr, preedit_draw |-> preedit_draw_fr,
     preedit_caret |-> preedit_caret_fr, preedit_done |-> preedit_done_fr,
     status_start |-> status_start_fr,
     status_draw_text |-> status_draw_text_fr,
     status_draw_bitmap |-> status_draw_bitmap_fr,
     status_done |-> status_done_fr,
     ext_set_event_mask |-> ext_set_event_mask_fr]

(***************************************************************************)
(* Messages.  The value of a frame gives a number for a card, bytes for an *)
(* array, the elements of a list; pads and counters are not the sender's.  *)
(* The tokens of a value are what the procedures put, in order.            *)
(***************************************************************************)
RECURSIVE tokens(_, _)
item_tokens(it, v) ==
    CASE it.k \in {"PADDING", "COUNTER"} -> <<>>
      [] it.k = "POINTER" -> tokens(it.frame, v)
      [] it.k = "ITER"    -> FlattenSeq([e \in DOMAIN v |->
                                IF it.item.k = "BIT" THEN <<v[e]>>
                                ELSE tokens(it.item.frame, v[e])])
      [] OTHER            -> <<v>>
tokens(fr, v) == FlattenSeq([i \in DOMAIN fr |-> item_tokens(fr[i], v[i])])

Lists(fr) == SelectSeq([i \in DOMAIN fr |-> i], LAMBDA i : fr[i].k = "ITER")

\* The sizes of the arrays of an item, in the order they are announced.
RECURSIVE array_sizes(_, _)
array_sizes(fr, v) ==
    FlattenSeq([i \in DOMAIN fr |->
        CASE fr[i].k = "BARRAY"  -> <<Len(v[i])>>
          [] fr[i].k = "POINTER" -> array_sizes(fr[i].frame, v[i])
          [] OTHER -> <<>>])
list_sizes(item, v) ==
    IF item.k = "BIT" THEN <<>>
    ELSE FlattenSeq([e \in DOMAIN v |-> array_sizes(item.frame, v[e])])

(***************************************************************************)
(* What a procedure tells the manager before it asks for the total size    *)
(* (OpenMessageProc, _Xi18nGetIC, _Xi18nPreeditDrawCallback): the arrays   *)
(* of the frame, then for each list its count and the arrays of its        *)
(* elements.                                                               *)
(***************************************************************************)
announce(fm, fr, v) ==
    LET sized(m, ss) == FoldLeft(FrameMgrSetSize, m, ss)
        list(m, i)   == sized(FrameMgrSetIterCount(m, Len(v[i])),
                              list_sizes(fr[i].item, v[i]))
    IN  FoldLeft(list, sized(fm, array_sizes(fr, v)), Lists(fr))

\* The token whose value is asked for with FrameMgrGetSize before token k is
\* put: the length of the name at the head of the loop over the attributes or
\* extensions, of the string before the first token of a XIM_COMMIT of
\* characters, and just before it in the other one.  Other procedures know it.
size_asked(fr, k) ==
    CASE fr \in {open_reply_fr, query_extension_reply_fr} /\ k % 4 = 2 -> k + 2
      [] fr = commit_chars_fr /\ k = 1 -> 4
      [] fr = commit_both_fr /\ k = 5 -> 5
      [] OTHER -> 0

\* The buffer of the total size, cleared (malloc and memset).
FrameMgrSetBuffer(fm) ==
    [fm EXCEPT !.area = [i \in 1 .. FrameMgrGetTotalSize(fm) |-> 0]]

(***************************************************************************)
(* The reader's position: item i of the frame, and item j of an element of *)
(* a list (0 at the head of its loop) or of a sub-frame.                   *)
(***************************************************************************)
sub_frame(it) == CASE it.k = "POINTER" -> it.frame
                   [] it.k = "ITER" /\ it.item.k = "BIT" -> <<it.item>>
                   [] it.k = "ITER" -> it.item.frame
                   [] OTHER -> <<>>

\* The first position from pos on where the reader asks for something.
RECURSIVE settle(_, _)
settle(fr, pos) ==
    LET it == fr[pos.i]
        sub == sub_frame(it)
    IN  CASE pos.i > Len(fr) -> pos
          [] it.k = "PADDING" -> settle(fr, [i |-> pos.i + 1, j |-> 0])
          [] it.k = "POINTER" /\ pos.j = 0 -> settle(fr, [pos EXCEPT !.j = 1])
          [] pos.j > Len(sub) /\ it.k = "POINTER" ->
                settle(fr, [i |-> pos.i + 1, j |-> 0])
          [] pos.j > Len(sub) /\ it.k = "ITER" -> [pos EXCEPT !.j = 0]
          [] pos.j > 0 /\ sub[pos.j].k = "PADDING" -> settle(fr, [pos EXCEPT !.j = @ + 1])
          [] OTHER -> pos

asked(fr, pos) == IF pos.j = 0 THEN fr[pos.i] ELSE sub_frame(fr[pos.i])[pos.j]

after(fr, pos) ==
    settle(fr, IF pos.j = 0 THEN [i |-> pos.i + 1, j |-> 0] ELSE [pos EXCEPT !.j = @ + 1])
=============================================================================
