SPECIFICATION Spec
CONSTANTS
    Token <- MCToken
    Abbreviates <- MCAbbreviates
    CommandSets <- MCCommandSets
    MaxTokens = 3
    Input = {"a", "x", "clear"}
    SavedAs <- MCSavedAs
    Clear = "clear"
    MaxOutput = 3
    MaxForm = 1
    MaxTouch = 2
    Target = {"t1"}
    CommandKind = {"view", "silent", "stream"}
    MaxCommand = 2
    MaxMuxer = 2
    MaxPieces = 3
    Device = {"d1"}
    NoDevice = "nodev"
    MaxOp = 2
    ConfigKind = {"configure", "rollback", "commit", "pastecheck"}
    Field = {"a", "b", "c"}
    Described <- MCDescribed
    MaxEvents = 4
    Pref = {"p", "q"}
    PrefValue = {"", "v1", "v2"}
    Default <- MCDefault
    Pane = {"c1", "c2"}
    NoPane = "nopane"
    KnownDevice = {"d1"}
    MaxEdit = 2
INVARIANTS
    PageTypeOK
    FindsAllReadings
    FullySpelledWins
    SuggestionsParse
    MruIsRecency
    
    TrueIsWhole
    
    TrueIsCommitted
    ConfigEndsAreHeard
    
    PrefsAreStored
PROPERTIES
    KeptStandForAll
CHECK_DEADLOCK FALSE
