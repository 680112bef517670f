---------------------------- MODULE Negotiation ----------------------------
(***************************************************************************)
(* What the server and a client settle before the first input context: the *)
(* extensions of the protocol that both know and the encoding of the text  *)
(* the client is sent (i18nPtHdr.c, i18nAttr.c).  Names are strings.       *)
(***************************************************************************)
EXTENDS SequencesExt

\* _Xi18nInitExtension copies the table as it is.
Default_Extension == <<"XIM_EXT_MOVE", "XIM_EXT_SET_EVENT_MASK", "XIM_EXT_FORWARD_KEYEVENT">>

address_extension == Default_Extension

\* Those of the server, in its order; all of them for an empty request.
MakeExtensionList(lib_extension) ==
    IF lib_extension = <<>> THEN address_extension
    ELSE SelectSeq(address_extension, LAMBDA e : e \in Range(lib_extension))

zhEncodings == <<"COMPOUND_TEXT">>

\* The place, from 0, in the list of the client where the last encoding of the
\* server that is in it is first found; 0 if none is.
ChooseEncoding(encoding) ==
    LET known == SelectSeq(zhEncodings, LAMBDA e : e \in Range(encoding))
    IN  IF known = <<>> THEN 0
        ELSE SelectInSeq(encoding, LAMBDA e : e = Last(known)) - 1
=============================================================================
