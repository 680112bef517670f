\* All the ICs share one IMC; keys may overtake the event masks.
SPECIFICATION Spec
CONSTANTS
    c1 = c1
    c2 = c2
    w1 = w1
    w2 = w2
    NoClient = NoClient
    NoWindow = NoWindow
    NoStyle = NoStyle
    Client = {c1}
    Window = {w1, w2}
    MaxIC = 2
    NInp = 2
    Loadable = {0, 1}
    SingleIMC = TRUE
    TIMECHECK_STEP = 1
    IC_IDLE_TIME = 2
    Supported = {"Root"}
    WindowsOf <- OneClient
    CreateValues <- OneICs
    ChangeValues <- NoChange
    TriggerKeys <- OnKeys
    ForwardKeys <- FocusKeys
    PlainKeys = FALSE
    InStep = FALSE
    Events = {}
    StartModes <- GCOff
    Named = {0, 1}
    DefaultIMs <- Inp
    Sinmds <- NoneIM
INVARIANT SharedImAgree
\* A stopped server, or clients that are all dead, do nothing more.
CHECK_DEADLOCK FALSE
