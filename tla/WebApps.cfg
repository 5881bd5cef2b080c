SPECIFICATION Spec
CONSTANTS
    CommandFile = {"c1", "c2"}
    Prereq = {"p1"}
    Prereqs <- MCPrereqs
    MaxLoad = 2
    Interface = {"ge0", "ge0.0"}
    FirstOf <- MCFirstOf
    MaxBytes = 2
    MaxFetch = 4
    MaxRequest = 4
    MaxInterval = 4
    Address = {"a", "b"}
    MaxRun = 2
    MaxLsp = 2
    Host = {"a", "b"}
    MaxHop = 3
    MaxHopStats = 2
    App = {"app"}
    Pane = {"p1"}
    MaxAjax = 4
INVARIANTS
    AppsTypeOK
    OneLoop
    ErrorStops
    AverageBelowPeak
    OneInterval
    NamesBeforeInterfaces
    
    
PROPERTIES
    LoadsResolve
CHECK_DEADLOCK FALSE
