----------------------------- MODULE AttrValues -----------------------------
(***************************************************************************)
(* The attributes of input contexts and of the input method: how           *)
(* lib/IMdkit/i18nIc.c takes their values out of a request and puts them   *)
(* into a reply, and how xim_IC.c keeps and answers them.  A value is a    *)
(* number for a card, numbers for a point or a rectangle, bytes for a      *)
(* name; in a message it is bytes in the order of the client.              *)
(***************************************************************************)
EXTENDS IMProto

CONSTANTS LongSize,             \* sizeof(long) of the build
          fg_color, bg_color    \* the colours of the windows

ASSUME AttrAssumption == LongSize \in {4, 8} /\ {fg_color, bg_color} \subseteq Nat

Attr(name, type) == [name |-> name, type |-> type]

\* i18nAttr.c.  The id of an attribute, a quark in the code, is its place.
Default_ICattr ==
    << Attr("InputStyle", "CARD32"), Attr("ClientWindow", "Window"),
       Attr("FocusWindow", "Window"), Attr("FilterEvents", "CARD32"),
       Attr("PreeditAttributes", "NEST"), Attr("StatusAttributes", "NEST"),
       Attr("FontSet", "XFontSet"), Attr("Area", "XRectangle"),
       Attr("AreaNeeded", "XRectangle"), Attr("Colormap", "CARD32"),
       Attr("StdColormap", "CARD32"), Attr("Foreground", "CARD32"),
       Attr("Background", "CARD32"), Attr("BackgroundPixmap", "CARD32"),
       Attr("SpotLocation", "XPoint"), Attr("LineSpace", "CARD32"),
       Attr("PreeditState", "CARD32"), Attr("SeparatorofNestedList", "Separator") >>

attribute_id(name) == CHOOSE i \in DOMAIN Default_ICattr : Default_ICattr[i].name = name
xic_attr(id) == Default_ICattr[id]

Cards == {"CARD8", "CARD16", "CARD32", "Window"}
IsNestedList(id) == xic_attr(id).type = "NEST"
IsSeparator(id)  == xic_attr(id).name = "SeparatorofNestedList"

\* The list of the call an attribute goes to.
list_of(id) == CASE xic_attr(id).name = "PreeditAttributes" -> "preedit"
                 [] xic_attr(id).name = "StatusAttributes"  -> "status"
                 [] OTHER -> "ic"

NoAttrs == [ic |-> <<>>, preedit |-> <<>>, status |-> <<>>]

IMPAD(length) == (4 - (length % 4)) % 4

(***************************************************************************)
(* Values of a request.                                                    *)
(***************************************************************************)
\* The cards of a frame that has nothing else, in a row, as the frame manager
\* gets and puts them (FrameSession).
Sum(ns) == FoldLeft(LAMBDA x, y : x + y, 0, ns)
width(fr, i) == Sum([k \in 1 .. i |-> fr[k].w])

got_cards(fr, p, swap) ==
    [i \in DOMAIN fr |-> number_from(p, width(fr, i - 1), fr[i].w, 0, swap)]

put_cards(fr, values, swap) ==
    FlattenSeq([i \in DOMAIN fr |-> card(values[i], fr[i].w, swap)])

card_fr(length) == CASE length = 1 -> <<b8>>
                     [] length = 2 -> short_fr
                     [] length = 4 -> long_fr

SetCardAttribute(p, swap) == Head(got_cards(card_fr(Len(p)), p, swap))

SetFontAttribute(p, swap) == bytes_at(p, 2, Head(got_cards(short_fr, p, swap)))

\* The coordinates are copied as they are, after a reading that swaps them.
SetPointAttribute(p) == got_cards(xpoint_fr, p, FALSE)

SetRectAttribute(p, swap) == got_cards(xrectangle_fr, p, swap)

set_attribute(type, p, swap) ==
    CASE type \in Cards       -> SetCardAttribute(p, swap)
      [] type = "XFontSet"    -> SetFontAttribute(p, swap)
      [] type = "XRectangle"  -> SetRectAttribute(p, swap)
      [] type = "XPoint"      -> SetPointAttribute(p)

next_nested(p, length) == SubSeq(p, 5 + length + IMPAD(length), Len(p))

\* The values of an attribute, a nested list having several.  A client names
\* the attributes it was told of, and no list in a list.
RECURSIVE ReadICValue(_, _, _), read_nested(_, _)
read_nested(p, swap) ==
    IF p = <<>> THEN <<>>
    ELSE LET head == got_cards(attr_head_fr, p, swap)
         IN  ReadICValue(head[1], SubSeq(p, 5, 4 + head[2]), swap)
             \o read_nested(next_nested(p, head[2]), swap)

ReadICValue(id, p, swap) ==
    IF IsNestedList(id) THEN read_nested(p, swap)
    ELSE << [name |-> xic_attr(id).name, type |-> xic_attr(id).type,
             value |-> set_attribute(xic_attr(id).type, p, swap)] >>

\* The lists of a XIM_CREATE_IC or XIM_SET_IC_VALUES.
_Xi18nChangeIC(attrib_list, swap) ==
    [l \in DOMAIN NoAttrs |->
        FlattenSeq([i \in DOMAIN attrib_list |->
            LET a == attrib_list[i]
            IN  IF list_of(a.id) = l THEN ReadICValue(a.id, a.bytes, swap) ELSE <<>>])]

(***************************************************************************)
(* ic_set_values() of xim_IC.c, without XIM_COMPLETE: the status           *)
(* attributes and the rest of the preedit ones are ignored.                *)
(***************************************************************************)
Root    == 1032
OverSpot == 1028
NoName == <<>>

\* A new IC, cleared by malloc.
ZeroRec == [input_style |-> 0, client_win |-> 0, focus_win |-> 0,
            area |-> <<0, 0, 0, 0>>, spot_location |-> <<0, 0>>,
            base_font |-> NoName, foreground |-> 0, background |-> 0,
            line_space |-> 0, ic_value_set |-> {}]

\* ic_value_set, and ic_value_update until the windows follow.
flagged(rec, f) == [rec EXCEPT !.ic_value_set = @ \cup {f}]

enabled_style(style, supported) == IF style \in Range(supported) THEN style ELSE Root

set_ic_attr(rec, a, supported) ==
    CASE a.name = "InputStyle"   ->
            [rec EXCEPT !.input_style = enabled_style(a.value, supported)]
      [] a.name = "ClientWindow" -> [rec EXCEPT !.client_win = a.value]
      [] a.name = "FocusWindow"  -> [rec EXCEPT !.focus_win = a.value]
      [] OTHER -> rec

set_pre_attr(rec, a) ==
    CASE a.name = "Area"         -> flagged([rec EXCEPT !.area = a.value], "AREA")
      [] a.name = "SpotLocation" -> flagged([rec EXCEPT !.spot_location = a.value], "SPOTLOC")
      [] a.name = "FontSet" /\ rec.base_font = a.value -> rec
      [] a.name = "FontSet" /\ rec.base_font # a.value ->
            flagged([rec EXCEPT !.base_font = a.value], "FONTSET")
      [] a.name = "Foreground"   -> flagged([rec EXCEPT !.foreground = a.value], "FGCOLOR")
      [] a.name = "Background"   -> flagged([rec EXCEPT !.background = a.value], "BGCOLOR")
      [] a.name = "LineSpace"    -> [rec EXCEPT !.line_space = a.value]
      [] OTHER -> rec

ic_set_values(rec, call, supported) ==
    FoldLeft(set_pre_attr,
             FoldLeft(LAMBDA r, a : set_ic_attr(r, a, supported), rec, call.ic),
             call.preedit)

(***************************************************************************)
(* ic_get_values(): the value and value_length of each attribute asked     *)
(* for.  Those it does not know keep none.                                 *)
(***************************************************************************)
KeyPressMask == 1
Unset == <<>>

answered_with(a, length, v) == [a EXCEPT !.value_length = length, !.value = v]

answer_ic(rec, a) ==
    CASE a.name = "FilterEvents" -> answered_with(a, 4, KeyPressMask)
      [] a.name = "InputStyle"   -> answered_with(a, 4, rec.input_style)
      [] a.name = "SeparatorofNestedList" -> answered_with(a, 2, 0)
      [] OTHER -> a

\* The value of a font name begins with its length; its last byte is left as
\* it is.  The state of the preedit is stored, and its length forgotten.
font_value(font) == card(Len(font), 2, FALSE) \o font \o <<0>>

answer_pre(rec, a) ==
    CASE a.name = "Area"         -> answered_with(a, 8, rec.area)
      [] a.name = "SpotLocation" -> answered_with(a, 4, rec.spot_location)
      [] a.name = "FontSet"      -> answered_with(a, 3 + Len(rec.base_font),
                                                  font_value(rec.base_font))
      [] a.name = "Foreground"   -> answered_with(a, LongSize, fg_color)
      [] a.name = "Background"   -> answered_with(a, LongSize, bg_color)
      [] a.name = "LineSpace"    -> answered_with(a, LongSize, rec.line_space)
      [] OTHER -> a

ic_get_values(rec, call) ==
    [call EXCEPT !.ic = [i \in DOMAIN @ |-> answer_ic(rec, @[i])],
                 !.preedit = [i \in DOMAIN @ |-> answer_pre(rec, @[i])]]

(***************************************************************************)
(* Values of a reply.                                                      *)
(***************************************************************************)
GetAttrHeader(a, swap) ==
    put_cards(attr_head_fr, <<attribute_id(a.name), a.value_length>>, swap)

\* The value behind the header.  That of a font has its length once more.
attr_value(a, swap) ==
    CASE a.type \in Cards -> IF a.value_length \in {1, 2, 4}
                             THEN put_cards(card_fr(a.value_length), <<a.value>>, swap)
                             ELSE <<>>
      [] a.type = "XFontSet"   -> put_cards(short_fr, <<a.value_length>>, swap) \o a.value
      [] a.type = "XRectangle" -> put_cards(xrectangle_fr, a.value, swap)
      [] a.type = "XPoint"     -> put_cards(xpoint_fr, a.value, swap)
      [] OTHER -> <<>>

reserved(a) == 4 + a.value_length + IMPAD(a.value_length)

\* An attribute begins where those before it have been reserved, so that what
\* goes beyond is written over; at the end of the buffer it is not kept.
CreateNestedList(list, swap) ==
    LET at(k) == Sum([j \in 1 .. k |-> reserved(list[j])])
        put(area, k) == store([area |-> area, idx |-> at(k - 1)],
                              GetAttrHeader(list[k], swap) \o attr_value(list[k], swap)).area
    IN  FoldLeft(put, [i \in 1 .. at(Len(list)) |-> 0], [k \in DOMAIN list |-> k])

\* GetICValue: a list ends with its separator, which is then asked for too.
asked_attr(id) == [name |-> xic_attr(id).name, type |-> xic_attr(id).type,
                   value_length |-> 0, value |-> Unset]

ask(q, id, into) == [q EXCEPT !.call[q.into] = Append(@, asked_attr(id)), !.into = into]

\* Slip: what comes after a list is taken into it.
after_list_kept(q, id) == ask([q EXCEPT !.into = "ic"], id, q.into)

after_list(q, id) == ask([q EXCEPT !.into = "ic"], id, "ic")

ask_next(q, id) ==
    IF IsSeparator(id) THEN after_list(q, id)
    ELSE IF q.into = "ic" /\ IsNestedList(id) THEN [q EXCEPT !.into = list_of(id)]
    ELSE ask(q, id, q.into)

asked_attrs(ids) == FoldLeft(ask_next, [call |-> NoAttrs, into |-> "ic"], ids).call

\* A value that is in no list is sent as it lies in memory.
_Xi18nGetIC(rec, ids, swap) ==
    LET call == ic_get_values(rec, asked_attrs(ids))
        nested(name, list) ==
            IF list = <<>> THEN <<>>
            ELSE << [id |-> attribute_id(name), bytes |-> CreateNestedList(list, swap)] >>
    IN  [i \in DOMAIN call.ic |->
            [id |-> attribute_id(call.ic[i].name),
             bytes |-> IF call.ic[i].value_length = 0 THEN <<>>
                       ELSE card(call.ic[i].value, call.ic[i].value_length, FALSE)]]
        \o nested("PreeditAttributes", call.preedit)
        \o nested("StatusAttributes", call.status)

(***************************************************************************)
(* The input styles: setup_input_styles() of xim.c makes the list from the *)
(* words of the rcfile, IMOpenIM() keeps it, and a client asks for it.     *)
(***************************************************************************)
im_styles == [Root |-> Root, OverTheSpot |-> OverSpot]

toggle_im_styles(word) == IF word \in DOMAIN im_styles THEN im_styles[word] ELSE 0

setup_input_styles(words) ==
    IF words = <<>> THEN <<toggle_im_styles("Root")>>
    ELSE [i \in DOMAIN words |-> toggle_im_styles(words[i])]

GetIMValueFromName(styles, swap) ==
    put_cards(short_fr \o short_fr \o [i \in DOMAIN styles |-> b32],
              <<Len(styles), 0>> \o styles, swap)

\* The attributes of the input method a client asks for, as far as there are.
Default_IMattr == << Attr("QueryInputStyle", "XIMStyles") >>

MakeIMAttributeList(list, styles, swap) ==
    LET known == SelectSeq(list, LAMBDA id : id \in DOMAIN Default_IMattr)
    IN  [i \in DOMAIN known |->
            [id |-> known[i], bytes |-> GetIMValueFromName(styles, swap)]]
=============================================================================
