\* Two or three ICs and their windows, under each setting of the main windows.
SPECIFICATION Spec
CONSTANTS
    FontName = {"default", "spot", "f1", "bad"}
    Loadable = {"default", "spot", "f1"}
    DefaultFont = "default"
    OverspotFont = "spot"
    NoName = "none"
    MaxIC = 3
    MaxReq = 1
    MaxRef = 3
    Ims = {1}
    Start <- Plays
INVARIANTS FontsOpen WindowsLive NoStaleCandidates MainWindowsAgree TitleOfCurrent
VIEW View
\* A server that was told to exit has no step left.
CHECK_DEADLOCK FALSE
