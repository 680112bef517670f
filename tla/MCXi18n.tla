------------------------------- MODULE MCXi18n -------------------------------
EXTENDS Xi18nProperties
CONSTANTS a1, a2

Keys2 == [a \in App |-> IF a = a1 THEN 2 ELSE 0]
Keys3 == [a \in App |-> 3]
Wire2 == [a \in App |-> IF a = a1 THEN 2 ELSE 1]

\* One client says everything, the other only comes and goes.
Life == {"XCONNECT", "CONNECT", "OPEN", "CREATE_IC", "CLOSE", "DISCONNECT"}
Everything == [a \in App |-> Requests \cup Notices]
TwoLives == [a \in App |-> IF a = a1 THEN Life \cup {"DESTROY_IC", "TRIGGER_NOTIFY"}
                           ELSE Life]
=============================================================================
