\* Keys that overtake the event masks, on a table with an empty entry and one
\* whose module does not load.
SPECIFICATION Spec
CONSTANTS
    c1 = c1
    c2 = c2
    w1 = w1
    w2 = w2
    NoClient = NoClient
    NoWindow = NoWindow
    NoStyle = NoStyle
    Client = {c1}
    Window = {w1, w2}
    MaxIC = 1
    NInp = 4
    Loadable = {0, 3}
    SingleIMC = FALSE
    TIMECHECK_STEP = 1
    IC_IDLE_TIME = 2
    Supported = {"Root"}
    WindowsOf <- OneClient
    CreateValues <- OneICs
    ChangeValues <- NoChange
    TriggerKeys <- AnyKeys
    ForwardKeys <- SwitchKeys
    PlainKeys = FALSE
    InStep = FALSE
    Events = {}
    StartModes <- FocusOrNot
    Named = {0, 2, 3}
    DefaultIMs <- AnyIM
    Sinmds <- AnyIM
INVARIANT ImReady
INVARIANT CirclesUndo
PROPERTY NewIcFollowsFocus
\* A stopped server, or clients that are all dead, do nothing more.
CHECK_DEADLOCK FALSE
