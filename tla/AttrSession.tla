---------------------------- MODULE AttrSession ----------------------------
(***************************************************************************)
(* What goes over the wire.  Either one message is laid out or read a      *)
(* token at a time (FrameSession), or a client agrees with the server on   *)
(* extensions and an encoding, asks for the input styles, creates an input *)
(* context, and sets and asks for its values.  Here the frames are read    *)
(* and written at once, as FrameSession shows they are, and what is in     *)
(* them is followed.                                                       *)
(***************************************************************************)
EXTENDS FrameSession, AttrValues, Negotiation

CONSTANTS Words,    \* the input styles the rcfile may name
          Styles,   \* the styles a client may ask for
          Elements, \* the values a client sets: [name, value]
          Wishes,   \* the names a client asks for in one list
          Extensions, Encodings   \* the lists of them it may know

VARIABLES order,    \* is the client's byte order another one
          styles,   \* address.input_styles
          rec,      \* the ic_rec of the IC
          offered,  \* the styles the client was told of
          want,     \* the values the client has set
          wished, reply,   \* the names of the request, and its answer
          agreed    \* the answer to what the client knows

attrvars == <<order, styles, rec, offered, want, wished, reply, agreed>>
framevars == vars

(***************************************************************************)
(* The client (Xlib): each value in its own order, padded in a list.       *)
(***************************************************************************)
type_of(name)  == xic_attr(attribute_id(name)).type
frame_of(type) == CASE type \in Cards -> long_fr
                    [] type = "XRectangle" -> xrectangle_fr
                    [] type = "XPoint" -> xpoint_fr
                    [] type = "XFontSet" -> fontset_fr

parts(type, v) == CASE type \in Cards -> <<v>>
                    [] type = "XFontSet" -> <<Len(v), v, 0>>
                    [] OTHER -> v

encoded(name, v) == Lay(frame_of(type_of(name)), parts(type_of(name), v), order)

value_of(name, v) == [id |-> attribute_id(name), bytes |-> encoded(name, v)]

nested_list(name, elems) ==
    [id |-> attribute_id(name),
     bytes |-> FlattenSeq([k \in DOMAIN elems |->
                   LET b == encoded(elems[k].name, elems[k].value)
                   IN  Lay(xicattribute_fr,
                           <<attribute_id(elems[k].name), Len(b), b, 0>>, order)])]

ids_of(names) == [k \in DOMAIN names |-> attribute_id(names[k])]

ids_in(list, names) == ids_of(<<list>> \o names \o <<"SeparatorofNestedList">>)

wanted(w, elems) == FoldLeft(LAMBDA r, e : [r EXCEPT ![e.name] = e.value], w, elems)

NoWant == [InputStyle |-> 0, Area |-> <<0, 0, 0, 0>>, SpotLocation |-> <<0, 0>>,
           LineSpace |-> 0, FontSet |-> NoName, Foreground |-> 0]

Lists1 == {<<e>> : e \in Elements}
Lists2 == {<<d, e>> : d \in Elements, e \in Elements}
ElementLists == {l \in Lists1 \cup Lists2 : Len(l) = 2 => l[1].name # l[2].name}

(***************************************************************************)
(* The steps.  A client waits for the reply of each request.               *)
(***************************************************************************)
NoTalk == [about |-> "none", knows |-> <<>>, told |-> <<>>]

Silence == [dir |-> "none", fr |-> <<>>, v |-> <<>>, swap |-> FALSE]

NoFrames == /\ msg = Silence /\ fm = FrameMgrInit(<<>>, <<>>, FALSE)
            /\ todo = <<>> /\ pos = [i |-> 1, j |-> 0] /\ got = <<>>

AttrInit == /\ NoFrames
            /\ order \in BOOLEAN
            /\ styles \in {setup_input_styles(w) : w \in Words}
            /\ rec = ZeroRec /\ offered = {} /\ want = NoWant
            /\ wished = <<>> /\ reply = <<>> /\ agreed = NoTalk

NoAttributes == /\ order = FALSE /\ styles = <<>>
                /\ rec = ZeroRec /\ offered = {} /\ want = NoWant
                /\ wished = <<>> /\ reply = <<>> /\ agreed = NoTalk

\* XIM_QUERY_EXTENSION
QueryExtension(names) ==
    /\ styles # <<>> /\ offered = {} /\ agreed = NoTalk
    /\ agreed' = [about |-> "extensions", knows |-> names, told |-> MakeExtensionList(names)]
    /\ UNCHANGED <<framevars, order, styles, rec, offered, want, wished, reply>>

\* XIM_ENCODING_NEGOTIATION: the answer is a place in the client's own list.
NegotiateEncoding(names) ==
    /\ styles # <<>> /\ offered = {} /\ agreed = NoTalk
    /\ agreed' = [about |-> "encoding", knows |-> names,
                  told |-> <<names[ChooseEncoding(names) + 1]>>]
    /\ UNCHANGED <<framevars, order, styles, rec, offered, want, wished, reply>>

\* XIM_GET_IM_VALUES of an attribute there is and one there is not: the client
\* takes the styles out of the answer.
decoded(bytes) == Tail(got_cards([i \in 1 .. Len(bytes) \div 4 |-> b32], bytes, order))

QueryInputStyle ==
    /\ styles # <<>> /\ offered = {} /\ agreed = NoTalk
    /\ LET answer == MakeIMAttributeList(<<2, 1>>, styles, order)
       IN  Len(answer) = 1 /\ offered' = Range(decoded(answer[1].bytes))
    /\ UNCHANGED <<framevars, order, styles, rec, want, wished, reply, agreed>>

\* XIM_CREATE_IC: Xlib demands a style.
CreateIC(style, elems) ==
    /\ offered # {} /\ rec = ZeroRec
    /\ rec' = ic_set_values(ZeroRec,
                  _Xi18nChangeIC(<<value_of("InputStyle", style),
                                   nested_list("PreeditAttributes", elems)>>, order), styles)
    /\ want' = [wanted(want, elems) EXCEPT !.InputStyle =
                    IF style \in offered THEN style ELSE Root]
    /\ UNCHANGED <<framevars, order, styles, offered, wished, reply, agreed>>

\* XIM_SET_IC_VALUES
SetICValues(elems) ==
    /\ rec # ZeroRec /\ reply = <<>>
    /\ rec' = ic_set_values(rec,
                  _Xi18nChangeIC(<<nested_list("PreeditAttributes", elems)>>, order), styles)
    /\ want' = wanted(want, elems)
    /\ UNCHANGED <<framevars, order, styles, offered, wished, reply, agreed>>

\* XIM_GET_IC_VALUES of two lists, between attributes that are in none.
GetICValues(names) ==
    /\ rec # ZeroRec /\ reply = <<>>
    /\ wished' = names
    /\ reply' = _Xi18nGetIC(rec, ids_of(<<"InputStyle">>)
                                 \o ids_in("PreeditAttributes", names)
                                 \o ids_in("StatusAttributes", <<"Foreground">>)
                                 \o ids_of(<<"FilterEvents">>), order)
    /\ UNCHANGED <<framevars, order, styles, rec, offered, want, agreed>>

Take == /\ reply # <<>> \/ agreed # NoTalk
        /\ reply' = <<>> /\ wished' = <<>> /\ agreed' = NoTalk
        /\ UNCHANGED <<framevars, order, styles, rec, offered, want>>

AttrNext == \/ \E names \in Extensions : QueryExtension(names)
            \/ \E names \in Encodings : NegotiateEncoding(names)
            \/ QueryInputStyle
            \/ \E style \in Styles, elems \in Lists1 : CreateIC(style, elems)
            \/ \E elems \in ElementLists : SetICValues(elems)
            \/ \E names \in Wishes : GetICValues(names)
            \/ Take

WireInit == (Init /\ NoAttributes) \/ AttrInit

WireNext == (Next /\ UNCHANGED attrvars) \/ AttrNext

WireSpec == WireInit /\ [][WireNext]_<<framevars, attrvars>>

(***************************************************************************)
(* Properties.                                                             *)
(***************************************************************************)
\* The client's reading of a reply: the elements of a list.
RECURSIVE elements(_)
elements(bytes) ==
    IF bytes = <<>> THEN <<>>
    ELSE LET h == got_cards(attr_head_fr, bytes, order)
         IN  << [id |-> h[1], bytes |-> SubSeq(bytes, 5, 4 + h[2])] >>
             \o elements(SubSeq(bytes, 5 + h[2] + ((4 - (h[2] % 4)) % 4), Len(bytes)))

\* What is kept for the client, in either byte order: not a font name, which
\* comes with a length of its own, nor the coordinates of a point, which are
\* not swapped on their way in, nor a long of eight bytes.
Kept(name) == \/ name = "Area"
              \/ name = "SpotLocation" /\ ~order
              \/ name \in {"LineSpace", "Foreground"} /\ LongSize = 4

held(name) == IF name = "Foreground" THEN fg_color ELSE want[name]

in_reply(name) == reply[CHOOSE i \in DOMAIN reply : reply[i].id = attribute_id(name)]

\* An extension both know is told, no other, and an encoding is agreed on that
\* both know, if there is one.
Agreed ==
    /\ agreed.about = "extensions" =>
          Range(agreed.told) = Range(agreed.knows) \cap Range(address_extension)
    /\ agreed.about = "encoding" =>
          \/ Range(agreed.told) \subseteq Range(zhEncodings)
          \/ Range(agreed.knows) \cap Range(zhEncodings) = {}

\* A client is answered each attribute it asks for, in its order, with the
\* value it set last, however its values lay in the lists of the requests
\* before, and with the style it chose from those it was offered, or Root
\* (i18nIc.c:316-576, 801-1028; xim_IC.c:235-517).  A style that is in no
\* list is in the order of the server.  What was agreed on before is known to both.
ValuesKept ==
    /\ Agreed
    /\ reply # <<>> =>
        LET es == elements(in_reply("PreeditAttributes").bytes)
        IN  /\ [k \in DOMAIN es |-> es[k].id] = ids_of(wished)
            /\ \A k \in DOMAIN es :
                  Kept(wished[k]) => es[k].bytes = encoded(wished[k], held(wished[k]))
            /\ in_reply("InputStyle").bytes = Lay(long_fr, <<want.InputStyle>>, FALSE)
            /\ in_reply("FilterEvents").bytes = Lay(long_fr, <<KeyPressMask>>, FALSE)
=============================================================================
