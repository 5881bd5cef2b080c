SPECIFICATION Spec
CONSTANTS
    CommandFile = {"c1", "c2"}
    Prereq = {"p1"}
    Prereqs <- MCPrereqs
    MaxLoad = 1
    Interface = {"ge0", "ge0.0"}
    FirstOf <- MCFirstOf
    MaxBytes = 2
    MaxFetch = 4
    MaxRequest = 1
    MaxInterval = 4
    Address = {"a", "b"}
    MaxRun = 1
    MaxLsp = 2
    Host = {"a", "b"}
    MaxHop = 1
    MaxHopStats = 2
    App = {"app"}
    Pane = {"p1"}
    MaxAjax = 1
INVARIANT
    ShowsChosen
CHECK_DEADLOCK FALSE
