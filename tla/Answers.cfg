\* One client that makes every request.
SPECIFICATION FairSpec
CONSTANTS
    a1 = a1
    a2 = a2
    App = {a1}
    MaxKeys <- Keys3
    MaxWire <- Wire2
    Makes <- Everything
    Events = {"die", "exit"}
PROPERTIES KeysInOrder KeysHandled RequestsAnswered
\* Clients that have gone and a server that has ended are the end.
CHECK_DEADLOCK FALSE
