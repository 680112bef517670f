---------------------------- MODULE MCAttrSession ----------------------------
EXTENDS AttrSession

RcWords == {<<>>, <<"OverTheSpot", "Root">>, <<"OnTheSpot", "OverTheSpot">>}

E(name, v) == [name |-> name, value |-> v]

\* A font of a name that needs a pad, and one that needs none.
Values == { E("Area", <<1, 2, 300, 400>>), E("Area", <<7, 8, 9, 513>>),
            E("SpotLocation", <<10, 700>>), E("SpotLocation", <<2, 3>>),
            E("FontSet", <<97, 98, 99>>), E("FontSet", <<97, 98>>),
            E("LineSpace", 66051), E("Foreground", 9) }

Names == {"Area", "SpotLocation", "LineSpace", "FontSet", "Foreground", "PreeditState"}

\* Every two of them, and all in either direction.
All == <<"Area", "PreeditState", "FontSet", "LineSpace", "SpotLocation", "Foreground">>
NameLists == {<<n>> : n \in Names} \cup (Names \X Names) \cup {All, Reverse(All)}
\* Lists of what a client knows: some of it, in another order, and none.
ExtensionLists == { <<"XIM_EXT_FORWARD_KEYEVENT", "XIM_EXT_MOVE">>,
                    <<"XIM_EXT_OTHER", "XIM_EXT_SET_EVENT_MASK">>, <<"XIM_EXT_OTHER">> }
EncodingLists == { <<"COMPOUND_TEXT">>, <<"UTF-8", "COMPOUND_TEXT">>,
                   <<"COMPOUND_TEXT", "UTF-8">>, <<"UTF-8", "JOHAB">> }
=============================================================================
