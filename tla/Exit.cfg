\* The server is told to exit while clients die and windows vanish.
SPECIFICATION FairSpec
CONSTANTS
    c1 = c1
    c2 = c2
    w1 = w1
    w2 = w2
    NoClient = NoClient
    NoWindow = NoWindow
    NoStyle = NoStyle
    Client = {c1, c2}
    Window = {w1, w2}
    MaxIC = 1
    NInp = 2
    Loadable = {0, 1}
    SingleIMC = FALSE
    TIMECHECK_STEP = 1
    IC_IDLE_TIME = 2
    Supported = {"Root", "OverSpot"}
    WindowsOf <- OneWindowEach
    CreateValues <- FocusedICs
    ChangeValues <- NoChange
    TriggerKeys <- ZhEnKey
    ForwardKeys <- NoKeys
    PlainKeys = TRUE
    InStep = TRUE
    Events = {"signal", "close", "die", "window"}
    StartModes <- GCOff
    Named = {0, 1}
    DefaultIMs <- Inp
    Sinmds <- NoneIM
PROPERTY ExitCompletes
\* A stopped server, or clients that are all dead, do nothing more.
CHECK_DEADLOCK FALSE
