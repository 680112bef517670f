\* Garbage collection: of the ICs of clients that died, and of ICs that name
\* one focus window.
SPECIFICATION FairSpec
CONSTANTS
    c1 = c1
    c2 = c2
    w1 = w1
    w2 = w2
    NoClient = NoClient
    NoWindow = NoWindow
    NoStyle = NoStyle
    Client = {c1, c2}
    Window = {w1, w2}
    MaxIC = 2
    NInp = 2
    Loadable = {0, 1}
    SingleIMC = FALSE
    TIMECHECK_STEP = 1
    IC_IDLE_TIME = 2
    Supported = {"Root"}
    WindowsOf <- OneWindowEach
    CreateValues <- SharingICs
    ChangeValues <- NoChange
    TriggerKeys <- NoKeys
    ForwardKeys <- NoKeys
    PlainKeys = FALSE
    InStep = FALSE
    Events = {"tick", "die"}
    StartModes <- GCOn
    Named = {0, 1}
    DefaultIMs = {0}
    Sinmds <- NoneIM
INVARIANT PointersLive
PROPERTIES IcLifetime StaleOnlyBySweep OrphansCollected
\* A stopped server, or clients that are all dead, do nothing more.
CHECK_DEADLOCK FALSE
