\* A client that types and one that comes and goes.
SPECIFICATION FairSpec
CONSTANTS
    a1 = a1
    a2 = a2
    App = {a1, a2}
    MaxKeys <- Keys2
    MaxWire <- Wire2
    Makes <- TwoLives
    Events = {"die", "exit"}
INVARIANTS WireTypeOK NoKeyStranded AnswerOwed MaskAgrees IcFindsClient
\* Clients that have gone and a server that has ended are the end.
CHECK_DEADLOCK FALSE
