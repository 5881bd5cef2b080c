SPECIFICATION Spec
CONSTANTS
    Token <- MCToken
    Abbreviates <- MCAbbreviates
    CommandSets <- MCCommandSets
    MaxTokens = 1
    Input = {"a", "x", "clear"}
    SavedAs <- MCSavedAs
    Clear = "clear"
    MaxOutput = 1
    MaxForm = 1
    MaxTouch = 2
    Target = {"t1"}
    CommandKind = {"view", "silent", "stream"}
    MaxCommand = 1
    MaxMuxer = 2
    MaxPieces = 3
    Device = {"d1", "d2"}
    NoDevice = "nodev"
    MaxOp = 1
    ConfigKind = {"paste", "pastecheck"}
    Field = {"a", "b", "c"}
    Described <- MCDescribed
    MaxEvents = 1
    Pref = {"p", "q"}
    PrefValue = {"", "v1", "v2"}
    Default <- MCDefault
    Pane = {"c1", "c2"}
    NoPane = "nopane"
    KnownDevice = {"d1"}
    MaxEdit = 1
INVARIANT
    PasteStaysWithPane
CHECK_DEADLOCK FALSE
