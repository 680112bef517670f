\* An IMC for each IC; clients in step with the server, windows that stay.
SPECIFICATION Spec
CONSTANTS
    c1 = c1
    c2 = c2
    w1 = w1
    w2 = w2
    NoClient = NoClient
    NoWindow = NoWindow
    NoStyle = NoStyle
    Client = {c1, c2}
    Window = {w1, w2}
    MaxIC = 2
    NInp = 2
    Loadable = {0, 1}
    SingleIMC = FALSE
    TIMECHECK_STEP = 1
    IC_IDLE_TIME = 2
    Supported = {"Root", "OverSpot"}
    WindowsOf <- OneWindowEach
    CreateValues <- StyledICs
    ChangeValues <- Restyled
    TriggerKeys <- OnKeys
    ForwardKeys <- BasicKeys
    PlainKeys = FALSE
    InStep = TRUE
    Events = {}
    StartModes <- GCOff
    Named = {0, 1}
    DefaultIMs = {0}
    Sinmds <- NoneIM
SYMMETRY Exchange
INVARIANT TypeOK
INVARIANT HandlesValid
INVARIANT ImcOwnership
INVARIANT ConnectionMatchesMode
INVARIANT ChineseFocus
INVARIANT SpotRecLive
\* A stopped server, or clients that are all dead, do nothing more.
CHECK_DEADLOCK FALSE
