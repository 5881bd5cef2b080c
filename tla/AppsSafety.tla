----------------------------- MODULE AppsSafety -----------------------------
(***************************************************************************)
(* Theorems about the apps, for every number of intervals, requests,       *)
(* fetches, runs, addresses and points: one interval, one loop, averages   *)
(* below peaks, names before interfaces, lines in the order of the path,   *)
(* success only of what is installed, and types.                           *)
(***************************************************************************)
EXTENDS WebApps, FiniteSetTheorems, SequenceTheorems, WellFoundedInduction, TLAPS

-----------------------------------------------------------------------------
(* The virtual chassis fabric *)

\* The interval that runs is the one the app knows: only that one can it clear.
VcfInv ==
    /\ showStats \in BOOLEAN /\ autoupdate \in BOOLEAN
    /\ intervals = IF showStats /\ autoupdate THEN {updateInterval} ELSE {}

LEMMA VcfStart == VcfInit => VcfInv
BY DEF VcfInit, VcfInv

LEMMA VcfStep == VcfInv /\ (VcfNext \/ UNCHANGED vcfVars) => VcfInv'
<1> SUFFICES ASSUME VcfInv, VcfNext \/ UNCHANGED vcfVars PROVE VcfInv'
  OBVIOUS
<1>1. CASE \E b \in BOOLEAN : ShowTopology(b) \/ TopologyReplied(b)
  BY <1>1 DEF VcfInv, ShowTopology, TopologyReplied
<1>2. CASE DisplayStatistics
  BY <1>2 DEF VcfInv, DisplayStatistics, SetsInterval
<1>3. CASE HideStatistics
  BY <1>3 DEF VcfInv, HideStatistics, ClearsInterval
<1>4. CASE ChangeAutoupdate
  BY <1>4 DEF VcfInv, ChangeAutoupdate, SetsInterval, ClearsInterval
<1>5. CASE \E i \in intervals : UpdateStatistics(i)
  BY <1>5 DEF VcfInv, UpdateStatistics
<1>6. CASE \E r \in drawing \cup updating : DrawBars(r) \/ UpdateBars(r) \/ StatisticsFail(r)
  BY <1>6 DEF VcfInv, DrawBars, UpdateBars, StatisticsFail
<1>7. CASE UNCHANGED vcfVars
  BY <1>7 DEF VcfInv, vcfVars
<1> QED BY <1>1, <1>2, <1>3, <1>4, <1>5, <1>6, <1>7 DEF VcfNext

\* At most one interval runs, and one does while statistics are shown and the box is
\* checked: OneInterval of web/apps/vcf, however often both controls are used.
THEOREM IntervalsAreCleared == Spec => []OneInterval
<1>1. AppsInit => VcfInv
  BY VcfStart DEF AppsInit
<1>2. VcfInv /\ [AppsNext]_appsVars => VcfInv'
  BY VcfStep DEF AppsNext, appsVars
<1>3. VcfInv => OneInterval
  BY FS_Singleton, FS_EmptySet DEF VcfInv, OneInterval
<1> QED BY <1>1, <1>2, <1>3, PTL DEF Spec

-----------------------------------------------------------------------------
(* The monitor of an interface *)

\* Nothing is under way before the app is started, and only the list while it is fetched.
MonitorInv ==
    /\ currName \in Interface \cup {"all", "none"}
    /\ \A t \in armed : t.name \in Interface
    /\ OneLoop /\ ErrorStops
    /\ currName = "none" => asked = {} /\ armed = {} /\ ~ listing /\ panel = "none"
    /\ listing => asked = {} /\ armed = {} /\ panel = "loading"

LEMMA MonitorStart == MonitorInit => MonitorInv
BY DEF MonitorInit, MonitorInv, OneLoop, ErrorStops

\* Where there is one timer at most, resetting it leaves none.
LEMMA NoneIsLeft ==
    ASSUME NEW timers, \A t \in timers : t.fetch = timeoutId
    PROVE  Cleared(timers) = {}
BY DEF Cleared

LEMMA FetchArmsOne ==
    ASSUME NEW name, NEW timers, \A t \in timers : t.fetch = timeoutId, FetchStats(name, timers)
    PROVE  armed' = {Fetches(fetches', name)} /\ timeoutId' = fetches' /\ currName' = name
BY NoneIsLeft DEF FetchStats

LEMMA MonitorStep == MonitorInv /\ (MonitorNext \/ UNCHANGED monitorVars) => MonitorInv'
<1> SUFFICES ASSUME MonitorInv, MonitorNext \/ UNCHANGED monitorVars PROVE MonitorInv'
  OBVIOUS
<1> USE MonitorAssumption
<1>a. \A t \in armed : t.fetch = timeoutId /\ t.name = currName /\ t.name \in Interface
  BY DEF MonitorInv, OneLoop
<1>1. ASSUME NEW name \in Interface \cup {"all"}, StartMonitor(name) PROVE MonitorInv'
  <2>1. CASE name # "all" /\ ~ IsIfl(name)
    BY <1>1, <2>1, <1>a, FetchArmsOne
    DEF MonitorInv, StartMonitor, OneLoop, ErrorStops, Fetches
  <2>2. CASE ~ (name # "all" /\ ~ IsIfl(name))
    BY <1>1, <2>2 DEF MonitorInv, StartMonitor, OneLoop, ErrorStops
  <2> QED BY <2>1, <2>2
<1>2. ASSUME NEW name \in Interface, ChangeInterface(name) PROVE MonitorInv'
  BY <1>2, <1>a, FetchArmsOne
  DEF MonitorInv, ChangeInterface, OneLoop, ErrorStops, Fetches
<1>3. ASSUME NEW t \in armed, MonitorTimer(t) PROVE MonitorInv'
  BY <1>3, <1>a, FetchArmsOne
  DEF MonitorInv, MonitorTimer, OneLoop, ErrorStops, Fetches
<1>4. CASE ListReplied
  <2>1. Chosen(currName) \in Interface
    BY <1>4 DEF MonitorInv, ListReplied, Chosen
  <2> QED BY <1>4, <1>a, <2>1, FetchArmsOne
          DEF MonitorInv, ListReplied, OneLoop, ErrorStops, Fetches
<1>5. CASE ListError \/ ListFailed
  BY <1>5, <1>a, NoneIsLeft
  DEF MonitorInv, ListError, ListFailed, ShowError, OneLoop, ErrorStops
<1>6. ASSUME NEW r \in asked, StatsError(r) PROVE MonitorInv'
  BY <1>6, <1>a, NoneIsLeft
  DEF MonitorInv, StatsError, Answered, ShowError, OneLoop, ErrorStops
<1>7. ASSUME NEW r \in asked, StatsUnused(r) \/ StatsThrows(r) PROVE MonitorInv'
  BY <1>7 DEF MonitorInv, StatsUnused, StatsThrows, Answered, OneLoop, ErrorStops
<1>8. ASSUME NEW r \in asked, StatsWithoutTraffic(r) \/ \E bytes : StatsReplied(r, bytes)
      PROVE  MonitorInv'
  BY <1>8 DEF MonitorInv, StatsWithoutTraffic, StatsReplied, Answered, OneLoop, ErrorStops
<1>9. CASE UNCHANGED monitorVars
  BY <1>9 DEF MonitorInv, monitorVars, OneLoop, ErrorStops
<1> QED BY <1>1, <1>2, <1>3, <1>4, <1>5, <1>6, <1>7, <1>8, <1>9 DEF MonitorNext

LEMMA MonitorSafe == Spec => []MonitorInv
<1>1. AppsInit => MonitorInv
  BY MonitorStart DEF AppsInit
<1>2. MonitorInv /\ [AppsNext]_appsVars => MonitorInv'
  BY MonitorStep DEF AppsNext, appsVars
<1> QED BY <1>1, <1>2, PTL DEF Spec

\* No order of replies, timers and changes of the interface leaves two timers, or one for
\* another interface: OneLoop of web/apps/monitor-interface.
THEOREM OneTimerAtMost == Spec => []OneLoop
BY MonitorSafe, PTL DEF MonitorInv

\* While an error is shown no timer runs that would ask the device again: ErrorStops of
\* web/apps/monitor-interface.
THEOREM ErrorsEndTheLoop == Spec => []ErrorStops
BY MonitorSafe, PTL DEF MonitorInv

-----------------------------------------------------------------------------
(* The map of label switched paths *)

Stage == {"none", "lsp", "location", "hostnames", "interfaces", "shown", "error", "alert"}

\* While a run waits for host names, those that are missing and those that are counted are
\* no more than the map has: it may have grown, and failures are not counted.
MapInv ==
    /\ stage \in [Run -> Stage] /\ IsFiniteSet(Key)
    /\ counted \in [Run -> Nat]
    /\ hosting \in [Run -> SUBSET Key] /\ naming \in [Run -> SUBSET Key]
    /\ \A r \in Run :
          /\ stage[r] # "hostnames" => hosting[r] = {}
          /\ stage[r] \notin {"interfaces", "shown"} => naming[r] = {}
          /\ stage[r] = "hostnames" => counted[r] + Cardinality(hosting[r]) <= Cardinality(Key)

LEMMA MapStart == MapInit => MapInv
<1> SUFFICES ASSUME MapInit PROVE MapInv
  OBVIOUS
<1>1. Key = {}
  BY DEF MapInit, Key
<1> QED BY <1>1, FS_EmptySet DEF MapInit, MapInv, Stage

\* The map only grows, so what was asked of it is still in it, and counted no less.
LEMMA MapGrows ==
    ASSUME MapInv, NEW S, IsFiniteSet(S), DOMAIN lookUpMap' = Key \cup S
    PROVE  /\ IsFiniteSet(Key') /\ Key \subseteq Key'
           /\ Cardinality(Key) <= Cardinality(Key')
           /\ \A T \in SUBSET Key : IsFiniteSet(T) /\ Cardinality(T) \in Nat
           /\ Cardinality(Key) \in Nat /\ Cardinality(Key') \in Nat
<1>1. Key' = Key \cup S
  BY DEF Key
<1>2. IsFiniteSet(Key)
  BY DEF MapInv
<1>3. IsFiniteSet(Key')
  BY <1>1, <1>2, FS_Union
<1> QED BY <1>1, <1>2, <1>3, FS_Subset, FS_CardinalityType

LEMMA MapStep == MapInv /\ (MapNext \/ UNCHANGED mapVars) => MapInv'
<1> SUFFICES ASSUME MapInv, MapNext \/ UNCHANGED mapVars PROVE MapInv'
  OBVIOUS
<1>1. ASSUME NEW r \in Run, MapLsp(r) \/ LspFailed(r) \/ LocationFails(r) PROVE MapInv'
  BY <1>1 DEF MapInv, MapLsp, LspFailed, LocationFails, Goes, Key, Stage
<1>2. ASSUME NEW r \in Run, NEW n \in Nat, NEW S \in SUBSET Address, LspReplied(r, n, S)
      PROVE  MapInv'
  <2>1. IsFiniteSet(S) /\ DOMAIN lookUpMap' = Key \cup S
    BY <1>2, MapAssumption, FS_Subset DEF LspReplied, With
  <2>2. /\ IsFiniteSet(Key') /\ Key \subseteq Key' /\ Cardinality(Key) <= Cardinality(Key')
        /\ \A T \in SUBSET Key : Cardinality(T) \in Nat
        /\ Cardinality(Key) \in Nat /\ Cardinality(Key') \in Nat
    BY <2>1, MapGrows
  <2> QED BY <1>2, <2>2 DEF MapInv, LspReplied, Goes, Stage
<1>3. ASSUME NEW r \in Run, NEW own \in SUBSET Address, Located(r, own) PROVE MapInv'
  <2>1. IsFiniteSet(own) /\ DOMAIN lookUpMap' = Key \cup own
    BY <1>3, MapAssumption, FS_Subset DEF Located
  <2>2. /\ IsFiniteSet(Key') /\ Key \subseteq Key' /\ Cardinality(Key) <= Cardinality(Key')
        /\ \A T \in SUBSET Key : Cardinality(T) \in Nat
        /\ Cardinality(Key) \in Nat /\ Cardinality(Key') \in Nat
    BY <2>1, MapGrows
  <2>3. CASE lspLeft'[r] > 0
    BY <1>3, <2>2, <2>3 DEF MapInv, Located
  <2>4. CASE ~ (lspLeft'[r] > 0)
    <3>1. hosting' = [hosting EXCEPT ![r] = Key'] /\ counted' = [counted EXCEPT ![r] = 0]
      BY <1>3, <2>4 DEF Located, Key
    <3>2. stage' = [stage EXCEPT ![r] = "hostnames"] /\ naming' = naming
      BY <1>3, <2>4 DEF Located, Goes
    <3> QED BY <1>3, <2>2, <3>1, <3>2 DEF MapInv, Located, Stage
  <2> QED BY <2>3, <2>4
<1>4. ASSUME NEW r \in Run, NEW a \in Address, HostReplied(r, a) PROVE MapInv'
  <2>1. Key' = Key
    BY <1>4 DEF HostReplied, Key
  <2>2. /\ a \in hosting[r] /\ stage[r] = "hostnames" /\ hosting[r] \subseteq Key
        /\ IsFiniteSet(Key) /\ counted[r] \in Nat
        /\ counted[r] + Cardinality(hosting[r]) <= Cardinality(Key)
    BY <1>4 DEF HostReplied, MapInv
  <2>3. IsFiniteSet(hosting[r])
    BY <2>2, FS_Subset
  <2>4. /\ Cardinality(hosting[r] \ {a}) = Cardinality(hosting[r]) - 1
        /\ IsFiniteSet(hosting[r] \ {a})
    BY <2>2, <2>3, FS_RemoveElement
  <2>5. /\ Cardinality(hosting[r]) \in Nat /\ Cardinality(Key) \in Nat
        /\ Cardinality(hosting[r] \ {a}) \in Nat
    BY <2>2, <2>3, <2>4, FS_CardinalityType
  <2>6. CASE Everyone(counted[r] + 1)
    <3>1. Cardinality(hosting[r] \ {a}) = 0
      BY <2>2, <2>4, <2>5, <2>6 DEF Everyone
    <3>2. hosting[r] \ {a} = {}
      BY <2>4, <3>1, FS_EmptySet
    <3> QED BY <1>4, <2>1, <2>2, <2>6, <3>2 DEF MapInv, HostReplied, Goes, Stage
  <2>7. CASE ~ Everyone(counted[r] + 1)
    BY <1>4, <2>1, <2>2, <2>4, <2>5, <2>7 DEF MapInv, HostReplied
  <2> QED BY <2>6, <2>7
<1>5. ASSUME NEW r \in Run, NEW a \in Address, NEW outcome \in Outcomes,
             InterfaceReplied(r, a, outcome)
      PROVE  MapInv'
  <2>1. Key' = Key
    BY <1>5 DEF InterfaceReplied, Key
  <2>2. outcome.pushes \in Nat
    BY DEF Outcomes
  <2>3. stage[r] \in {"interfaces", "shown"}
    BY <1>5 DEF InterfaceReplied, MapInv
  <2> QED BY <1>5, <2>1, <2>2, <2>3 DEF MapInv, InterfaceReplied, Goes, Stage
<1>6. ASSUME NEW r \in Run, NEW a \in Address, NameFails(r, a) PROVE MapInv'
  <2>1. Key' = Key
    BY <1>6 DEF NameFails, Key
  <2>2. IsFiniteSet(hosting[r]) /\ IsFiniteSet(Key)
    BY FS_Subset DEF MapInv
  <2>3. /\ Cardinality(hosting[r] \ {a}) <= Cardinality(hosting[r])
        /\ Cardinality(hosting[r]) \in Nat /\ Cardinality(hosting[r] \ {a}) \in Nat
        /\ Cardinality(Key) \in Nat
    BY <2>2, FS_Subset, FS_CardinalityType
  <2> QED BY <1>6, <2>1, <2>3 DEF MapInv, NameFails
<1>7. CASE UNCHANGED mapVars
  BY <1>7 DEF MapInv, mapVars, Key
<1>8. 0 \in Nat /\ {} \in SUBSET Address /\ 1..MaxLsp \subseteq Nat
  BY MapAssumption
<1> QED BY <1>1, <1>2, <1>3, <1>4, <1>5, <1>6, <1>7, <1>8 DEF MapNext

\* Interfaces are asked for when every host of the run has answered, even if other runs put
\* more hosts into the map meanwhile: NamesBeforeInterfaces of web/apps/map-mpls-lsp.
THEOREM HostsAnswerFirst == Spec => []NamesBeforeInterfaces
<1>1. AppsInit => MapInv
  BY MapStart DEF AppsInit
<1>2. MapInv /\ [AppsNext]_appsVars => MapInv'
  BY MapStep DEF AppsNext, appsVars
<1>3. MapInv => NamesBeforeInterfaces
  BY DEF MapInv, NamesBeforeInterfaces
<1> QED BY <1>1, <1>2, <1>3, PTL DEF Spec

-----------------------------------------------------------------------------
(* The app manager *)

Process == {"none", "sent", "free", "holds", "success", "uptodate", "wait", "error", "over"}

Request == [pane : Pane, kind : {"install", "update", "check"}, app : App, timer : 0..MaxAjax,
            process : Process, listens : BOOLEAN]

\* What is wholly on the disk stays on it, or is removed from the web.
Present(app) == appDir[app] \in {"whole", "wiped"}

\* What the page shows is true.
PanesAreTrue ==
    /\ appState \in [Pane -> [is : {"none", "loading", "waiting", "success", "error"},
                              app : App \cup {"none"}]]
    /\ \A p \in Pane : appState[p].is = "success"
                         => appState[p].app \in App /\ Present(appState[p].app)

\* What the page shows, what it reloads and what processes answer is present.
ManagerInv ==
    /\ lastAjax \in 0..MaxAjax /\ waiting \subseteq 1..lastAjax /\ reloading \subseteq 1..lastAjax
    /\ appDir \in [App -> {"none", "part", "whole", "wiped"}]
    /\ DOMAIN ajax = Ajax
    /\ \A i \in Ajax : IF i <= lastAjax THEN ajax[i] \in Request ELSE ajax[i] = NoAjax
    /\ \A i \in 1..lastAjax :
          ajax[i].kind # "check" /\ ajax[i].process \in {"success", "uptodate"}
              => Present(ajax[i].app)
    /\ \A i \in reloading : Present(ajax[i].app)
    /\ PanesAreTrue

LEMMA ManagerStart == AppManagerInit => ManagerInv
BY AppManagerAssumption DEF AppManagerInit, ManagerInv, PanesAreTrue, Ajax

\* Only requests that were sent have a process.
LEMMA SentRequest ==
    ASSUME ManagerInv, NEW i \in Ajax, ajax[i].process # "none" \/ ajax[i].listens
    PROVE  i \in 1..lastAjax /\ ajax[i] \in Request
BY AppManagerAssumption DEF ManagerInv, Ajax, NoAjax

\* A request sent after another was answered: those that were sent keep what they are about.
LEMMA SendKeeps ==
    ASSUME ManagerInv, NEW pane \in Pane, NEW kind \in {"install", "update", "check"},
           NEW app \in App, NEW timer \in 0..MaxAjax, NEW after,
           DOMAIN after = Ajax,
           \A i \in Ajax : IF i <= lastAjax
                           THEN /\ after[i] \in Request
                                /\ after[i].app = ajax[i].app /\ after[i].kind = ajax[i].kind
                                /\ after[i].process \in {ajax[i].process, "over"}
                           ELSE after[i] = NoAjax,
           Send(pane, kind, app, timer, after)
    PROVE  /\ lastAjax' = lastAjax + 1 /\ lastAjax' \in 0..MaxAjax /\ DOMAIN ajax' = Ajax
           /\ \A i \in Ajax : IF i <= lastAjax' THEN ajax'[i] \in Request ELSE ajax'[i] = NoAjax
           /\ \A i \in 1..lastAjax : ajax'[i] = after[i]
           /\ ajax'[lastAjax'].process = "sent"
<1>1. lastAjax \in 0..MaxAjax /\ lastAjax' = lastAjax + 1 /\ lastAjax' \in 1..MaxAjax
  BY AppManagerAssumption DEF ManagerInv, Send
<1> DEFINE new == [pane |-> pane, kind |-> kind, app |-> app, timer |-> timer,
                   process |-> "sent", listens |-> TRUE]
<1>2. ajax' = [after EXCEPT ![lastAjax'] = new]
  BY DEF Send
<1>3. new \in Request /\ new.process = "sent"
  BY DEF Request, Process
<1> HIDE DEF new
<1> QED BY <1>1, <1>2, <1>3, AppManagerAssumption DEF Ajax

\* A request that is answered keeps what it is about.
LEMMA OverKeeps ==
    ASSUME ManagerInv, NEW i \in 1..lastAjax
    PROVE  /\ DOMAIN Over[i] = Ajax
           /\ \A j \in Ajax : IF j <= lastAjax
                              THEN /\ Over[i][j] \in Request
                                   /\ Over[i][j].app = ajax[j].app /\ Over[i][j].kind = ajax[j].kind
                                   /\ Over[i][j].process \in {ajax[j].process, "over"}
                              ELSE Over[i][j] = NoAjax
<1>1. i \in Ajax /\ ajax[i] \in Request
  BY AppManagerAssumption DEF ManagerInv, Ajax
<1>2. Over[i] = [ajax EXCEPT ![i].process = "over", ![i].listens = FALSE]
  BY <1>1 DEF Over
<1>3. \A j \in Ajax : j # i => Over[i][j] = ajax[j]
  BY <1>1, <1>2 DEF ManagerInv
<1>4. /\ Over[i][i] \in Request /\ Over[i][i].app = ajax[i].app
      /\ Over[i][i].kind = ajax[i].kind /\ Over[i][i].process = "over"
  BY <1>1, <1>2 DEF ManagerInv, Request, Process
<1>5. DOMAIN Over[i] = Ajax
  BY <1>2 DEF ManagerInv
<1> QED BY <1>1, <1>3, <1>4, <1>5, AppManagerAssumption DEF ManagerInv, Ajax

\* A pane is told of an app: it shows nothing of what is not present.
LEMMA PaneIsTold ==
    ASSUME PanesAreTrue, NEW pane, NEW is \in {"none", "loading", "waiting", "success", "error"},
           NEW app \in App, is = "success" => Present(app), appDir' = appDir,
           appState' = [appState EXCEPT ![pane] = [is |-> is, app |-> app]]
    PROVE  PanesAreTrue'
<1> DEFINE new == [is |-> is, app |-> app]
<1>1. /\ new \in [is : {"none", "loading", "waiting", "success", "error"}, app : App \cup {"none"}]
      /\ new.is = "success" => new.app \in App /\ appDir[new.app] \in {"whole", "wiped"}
  BY DEF Present
<1>2. appState' = [appState EXCEPT ![pane] = new]
  OBVIOUS
<1> HIDE DEF new
<1> QED BY <1>1, <1>2 DEF PanesAreTrue, Present

\* What is left of the disk leaves what the panes show true.
LEMMA PanesStay ==
    ASSUME PanesAreTrue, appState' = appState, 
           \A app \in App : appDir[app] \in {"whole", "wiped"}
                               => appDir'[app] \in {"whole", "wiped"}
    PROVE  PanesAreTrue'
BY DEF PanesAreTrue, Present

\* What every step keeps: requests are about what they were about, an installation or an update
\* succeeds only once its app is present, and what is present stays.
LEMMA StepKeeps ==
    ASSUME ManagerInv, lastAjax' \in {lastAjax, lastAjax + 1}, lastAjax' \in 0..MaxAjax,
           DOMAIN ajax' = Ajax,
           \A i \in Ajax : IF i <= lastAjax' THEN ajax'[i] \in Request ELSE ajax'[i] = NoAjax,
           \A i \in 1..lastAjax :
              /\ ajax'[i].app = ajax[i].app /\ ajax'[i].kind = ajax[i].kind
              /\ \/ ajax'[i].process = ajax[i].process
                 \/ ajax'[i].process \notin {"success", "uptodate"}
                 \/ ajax[i].kind = "check"
                 \/ appDir'[ajax[i].app] \in {"whole", "wiped"},
           lastAjax' = lastAjax \/ ajax'[lastAjax'].process = "sent",
           waiting' \subseteq 1..lastAjax, reloading' \subseteq 1..lastAjax,
           \A i \in reloading' : Present(ajax[i].app),
           appDir' \in [App -> {"none", "part", "whole", "wiped"}],
           \A app \in App : appDir[app] \in {"whole", "wiped"}
                               => appDir'[app] \in {"whole", "wiped"},
           PanesAreTrue'
    PROVE  ManagerInv'
<1>1. lastAjax \in Nat /\ lastAjax' \in Nat
  BY AppManagerAssumption DEF ManagerInv
<1>2. \A i \in 1..lastAjax : i \in Ajax /\ i \in 1..lastAjax' /\ ajax[i].app \in App
  BY <1>1, AppManagerAssumption DEF ManagerInv, Request, Ajax
<1>3. waiting' \subseteq 1..lastAjax' /\ reloading' \subseteq 1..lastAjax'
  BY <1>2
<1>4. \A i \in reloading' : appDir'[ajax'[i].app] \in {"whole", "wiped"}
  BY <1>2 DEF Present
<1>5. \A i \in 1..lastAjax' :
          ajax'[i].kind # "check" /\ ajax'[i].process \in {"success", "uptodate"}
              => appDir'[ajax'[i].app] \in {"whole", "wiped"}
  <2> TAKE i \in 1..lastAjax'
  <2>1. CASE i \in 1..lastAjax
    BY <1>2, <2>1 DEF ManagerInv, Present
  <2>2. CASE i \notin 1..lastAjax
    <3>1. i = lastAjax' /\ lastAjax' # lastAjax
      BY <1>1, <2>2
    <3> QED BY <3>1
  <2> QED BY <2>1, <2>2
<1> QED BY <1>3, <1>4, <1>5 DEF ManagerInv, Present

\* The page's own steps
LEMMA PageStep ==
    ASSUME ManagerInv,
           \/ \E pane \in Pane :
                 \/ \E app \in App : InstallApp(pane, app) \/ UpdateApp(pane, app)
                 \/ InstallAnother(pane)
           \/ \E i \in Ajax : \/ CheckInstallLock(i) \/ Succeeded(i) \/ AppReloaded(i)
                              \/ ToldToWait(i) \/ ToldError(i) \/ LockIsGone(i)
                              \/ LockIsThere(i) \/ AjaxFails(i)
    PROVE  ManagerInv'
<1> USE AppManagerAssumption
<1>a. \A i \in 1..lastAjax : i \in Ajax /\ ajax[i] \in Request
  BY DEF ManagerInv, Ajax
<1>b. \A i \in Ajax : IF i <= lastAjax
                      THEN /\ ajax[i] \in Request
                           /\ ajax[i].process \in {ajax[i].process, "over"}
                      ELSE ajax[i] = NoAjax
  BY DEF ManagerInv
<1>1. ASSUME NEW pane \in Pane, NEW app \in App, InstallApp(pane, app) \/ UpdateApp(pane, app)
      PROVE  ManagerInv'
  <2>1. PICK kind \in {"install", "update", "check"} : Send(pane, kind, app, 0, ajax)
    BY <1>1 DEF InstallApp, UpdateApp
  <2>2. /\ lastAjax' = lastAjax + 1 /\ lastAjax' \in 0..MaxAjax /\ DOMAIN ajax' = Ajax
        /\ \A i \in Ajax : IF i <= lastAjax' THEN ajax'[i] \in Request ELSE ajax'[i] = NoAjax
        /\ \A i \in 1..lastAjax : ajax'[i] = ajax[i]
        /\ ajax'[lastAjax'].process = "sent"
    BY <2>1, <1>b, SendKeeps DEF ManagerInv
  <2>3. /\ appState' = [appState EXCEPT ![pane] = [is |-> "loading", app |-> app]]
        /\ UNCHANGED <<waiting, reloading, appDir>>
    BY <1>1 DEF InstallApp, UpdateApp
  <2>4. PanesAreTrue'
    BY <2>3, PaneIsTold DEF ManagerInv
  <2> QED BY <2>2, <2>3, <2>4, StepKeeps DEF ManagerInv
<1>2. ASSUME NEW pane \in Pane, InstallAnother(pane) PROVE ManagerInv'
  <2>1. PanesAreTrue'
    BY <1>2 DEF InstallAnother, ManagerInv, PanesAreTrue, Present
  <2> QED BY <1>2, <2>1 DEF ManagerInv, InstallAnother, Present
<1>3. ASSUME NEW i \in Ajax, CheckInstallLock(i) PROVE ManagerInv'
  <2>1. i \in 1..lastAjax /\ ajax[i] \in Request
    BY <1>3, <1>a DEF CheckInstallLock, ManagerInv
  <2>2. ajax[i].pane \in Pane /\ ajax[i].app \in App /\ i \in 0..MaxAjax
    BY <2>1 DEF Request, Ajax
  <2>3. Send(ajax[i].pane, "check", ajax[i].app, i, ajax)
    BY <1>3 DEF CheckInstallLock
  <2>4. /\ lastAjax' = lastAjax + 1 /\ lastAjax' \in 0..MaxAjax /\ DOMAIN ajax' = Ajax
        /\ \A j \in Ajax : IF j <= lastAjax' THEN ajax'[j] \in Request ELSE ajax'[j] = NoAjax
        /\ \A j \in 1..lastAjax : ajax'[j] = ajax[j]
        /\ ajax'[lastAjax'].process = "sent"
    BY <2>2, <2>3, <1>b, SendKeeps DEF ManagerInv
  <2>5. UNCHANGED <<appState, waiting, reloading, appDir>>
    BY <1>3 DEF CheckInstallLock
  <2>6. PanesAreTrue'
    BY <2>5, PanesStay DEF ManagerInv
  <2> QED BY <2>4, <2>5, <2>6, StepKeeps DEF ManagerInv
<1>4. ASSUME NEW i \in Ajax, Succeeded(i) \/ ToldToWait(i) \/ ToldError(i) \/ LockIsThere(i)
      PROVE  ManagerInv'
  <2>1. i \in 1..lastAjax /\ ajax[i] \in Request
    BY <1>4, SentRequest DEF Succeeded, ToldToWait, ToldError, LockIsThere
  <2>2. ajax' = Over[i] /\ UNCHANGED <<lastAjax, appDir>>
    BY <1>4 DEF Succeeded, ToldToWait, ToldError, LockIsThere
  <2>3. /\ DOMAIN ajax' = Ajax
        /\ \A j \in Ajax : IF j <= lastAjax
                           THEN /\ ajax'[j] \in Request
                                /\ ajax'[j].app = ajax[j].app /\ ajax'[j].kind = ajax[j].kind
                                /\ ajax'[j].process \in {ajax[j].process, "over"}
                           ELSE ajax'[j] = NoAjax
    BY <2>1, <2>2, OverKeeps
  <2>4. ajax[i].app \in App
    BY <2>1 DEF Request
  <2>5. Succeeded(i) => Present(ajax[i].app)
    BY <2>1 DEF ManagerInv, Succeeded, Success
  <2>6. /\ waiting' \in {waiting, waiting \cup {i}}
        /\ reloading' = reloading \/ (reloading' = reloading \cup {i} /\ Present(ajax[i].app))
    BY <1>4, <2>5 DEF Succeeded, ToldToWait, ToldError, LockIsThere
  <2>7. PanesAreTrue'
    <3>1. CASE appState' = appState
      BY <2>2, <3>1, PanesStay DEF ManagerInv
    <3>2. CASE appState' # appState
      <4>1. PICK is \in {"success", "waiting", "error"} :
               /\ appState' = [appState EXCEPT ![ajax[i].pane] = [is |-> is, app |-> ajax[i].app]]
               /\ is = "success" => Succeeded(i)
        BY <1>4, <3>2 DEF Succeeded, ToldToWait, ToldError, LockIsThere, Shows
      <4> QED BY <2>2, <2>4, <2>5, <4>1, PaneIsTold DEF ManagerInv
    <3> QED BY <3>1, <3>2
  <2>8. \A j \in 1..lastAjax : /\ ajax'[j].app = ajax[j].app /\ ajax'[j].kind = ajax[j].kind
                               /\ ajax'[j].process \in {ajax[j].process, "over"}
    BY <1>a, <2>3
  <2>9. /\ waiting' \subseteq 1..lastAjax /\ reloading' \subseteq 1..lastAjax
        /\ \A j \in reloading' : Present(ajax[j].app)
    BY <2>1, <2>6 DEF ManagerInv
  <2> QED BY <2>2, <2>3, <2>7, <2>8, <2>9, StepKeeps DEF ManagerInv
<1>5. ASSUME NEW i \in Ajax, AppReloaded(i) PROVE ManagerInv'
  <2>1. ajax[i] \in Request /\ Present(ajax[i].app)
    BY <1>5, <1>a DEF ManagerInv, AppReloaded
  <2>2. ajax[i].app \in App
    BY <2>1 DEF Request
  <2>3. PanesAreTrue'
    BY <1>5, <2>1, <2>2, PaneIsTold DEF ManagerInv, AppReloaded, Shows
  <2> QED BY <1>5, <2>3 DEF ManagerInv, AppReloaded, Present
<1>6. ASSUME NEW i \in Ajax, LockIsGone(i) PROVE ManagerInv'
  <2>1. i \in 1..lastAjax /\ ajax[i] \in Request
    BY <1>6, SentRequest DEF LockIsGone
  <2>2. ajax[i].pane \in Pane /\ ajax[i].app \in App /\ 0 \in 0..MaxAjax
    BY <2>1 DEF Request
  <2>3. Send(ajax[i].pane, "install", ajax[i].app, 0, Over[i])
    BY <1>6 DEF LockIsGone
  <2>4. /\ lastAjax' = lastAjax + 1 /\ lastAjax' \in 0..MaxAjax /\ DOMAIN ajax' = Ajax
        /\ \A j \in Ajax : IF j <= lastAjax' THEN ajax'[j] \in Request ELSE ajax'[j] = NoAjax
        /\ \A j \in 1..lastAjax : ajax'[j] = Over[i][j]
        /\ ajax'[lastAjax'].process = "sent"
    BY <2>1, <2>2, <2>3, OverKeeps, SendKeeps
  <2>5. \A j \in 1..lastAjax :
            /\ ajax'[j].app = ajax[j].app /\ ajax'[j].kind = ajax[j].kind
            /\ ajax'[j].process \in {ajax[j].process, "over"}
    BY <1>a, <2>1, <2>4, OverKeeps
  <2>6. /\ waiting' \subseteq waiting /\ reloading' = reloading /\ appDir' = appDir
        /\ appState' = [appState EXCEPT ![ajax[i].pane] = [is |-> "loading", app |-> ajax[i].app]]
    BY <1>6 DEF LockIsGone, Shows
  <2>7. PanesAreTrue'
    BY <2>2, <2>6, PaneIsTold DEF ManagerInv
  <2> QED BY <2>4, <2>5, <2>6, <2>7, StepKeeps DEF ManagerInv
<1>7. ASSUME NEW i \in Ajax, AjaxFails(i) PROVE ManagerInv'
  <2>1. i \in 1..lastAjax /\ ajax[i] \in Request
    BY <1>7, SentRequest DEF AjaxFails
  <2>2. ajax' = [ajax EXCEPT ![i].listens = FALSE] /\ ajax[i].app \in App
    BY <1>7, <2>1 DEF AjaxFails, Request
  <2>3. /\ DOMAIN ajax' = Ajax /\ \A j \in Ajax : j # i => ajax'[j] = ajax[j]
        /\ ajax'[i] \in Request /\ ajax'[i].app = ajax[i].app /\ ajax'[i].kind = ajax[i].kind
        /\ ajax'[i].process = ajax[i].process
    BY <1>7, <2>1, <2>2 DEF ManagerInv, Request
  <2>4. /\ UNCHANGED <<lastAjax, waiting, reloading, appDir>>
        /\ appState' = [appState EXCEPT ![ajax[i].pane] = [is |-> "error", app |-> ajax[i].app]]
    BY <1>7 DEF AjaxFails, Shows
  <2>5. PanesAreTrue'
    BY <2>2, <2>4, PaneIsTold DEF ManagerInv
  <2>6. \A j \in Ajax : IF j <= lastAjax' THEN ajax'[j] \in Request ELSE ajax'[j] = NoAjax
    BY <1>a, <2>1, <2>3, <2>4 DEF ManagerInv
  <2>7. \A j \in 1..lastAjax : /\ ajax'[j].app = ajax[j].app /\ ajax'[j].kind = ajax[j].kind
                               /\ ajax'[j].process = ajax[j].process
    BY <1>a, <2>3
  <2> QED BY <2>3, <2>4, <2>5, <2>6, <2>7, StepKeeps DEF ManagerInv
<1> QED BY <1>1, <1>2, <1>3, <1>4, <1>5, <1>6, <1>7

\* The processes on the server: each is one request's, and never takes away what is present.
LEMMA ProcessStep ==
    ASSUME ManagerInv, NEW i \in Ajax, NEW process \in Process, process # "none",
           ajax[i].process # "none", ajax' = [ajax EXCEPT ![i].process = process],
           UNCHANGED <<appState, lastAjax, waiting, reloading>>,
           appDir' \in [App -> {"none", "part", "whole", "wiped"}],
           \A app \in App : appDir[app] \in {"whole", "wiped"}
                               => appDir'[app] \in {"whole", "wiped"},
           \/ process \notin {"success", "uptodate"} \/ ajax[i].kind = "check"
           \/ appDir'[ajax[i].app] \in {"whole", "wiped"}
    PROVE  ManagerInv'
<1>1. i \in 1..lastAjax /\ ajax[i] \in Request
  BY SentRequest
<1>2. /\ DOMAIN ajax' = Ajax /\ \A j \in Ajax : j # i => ajax'[j] = ajax[j]
      /\ ajax'[i] \in Request /\ ajax'[i].app = ajax[i].app /\ ajax'[i].kind = ajax[i].kind
      /\ ajax'[i].process = process
  BY <1>1 DEF ManagerInv, Request
<1>3. \A j \in Ajax : IF j <= lastAjax' THEN ajax'[j] \in Request ELSE ajax'[j] = NoAjax
  BY <1>1, <1>2, AppManagerAssumption DEF ManagerInv, Ajax
<1>4. \A j \in 1..lastAjax : j \in Ajax
  BY AppManagerAssumption DEF ManagerInv, Ajax
<1>5. PanesAreTrue'
  BY PanesStay DEF ManagerInv
<1> QED BY <1>2, <1>3, <1>4, <1>5, StepKeeps DEF ManagerInv

LEMMA ServerStep ==
    ASSUME ManagerInv, NEW i \in Ajax,
           \/ LooksForLock(i) \/ MakesLock(i) \/ Checks(i) \/ InstallsFromWeb(i)
           \/ \E able \in BOOLEAN : Installs(i, able)
           \/ \E answer \in {"success", "uptodate", "error"} : Updates(i, answer)
    PROVE  ManagerInv'
<1> USE DEF Is, PageStays
<1>a. appDir \in [App -> {"none", "part", "whole", "wiped"}]
  BY DEF ManagerInv
<1>1. CASE LooksForLock(i) \/ MakesLock(i) \/ Checks(i)
  <2>1. PICK process \in {"wait", "free", "holds", "success"} :
            /\ ajax' = [ajax EXCEPT ![i].process = process]
            /\ process = "success" => ajax[i].kind = "check"
    BY <1>1 DEF LooksForLock, MakesLock, Checks, Becomes
  <2>2. /\ ajax[i].process # "none"
        /\ UNCHANGED <<appState, lastAjax, waiting, reloading, appDir>>
    BY <1>1 DEF LooksForLock, MakesLock, Checks
  <2> QED BY <1>a, <2>1, <2>2, ProcessStep DEF Process
<1>2. CASE InstallsFromWeb(i) \/ \E able \in BOOLEAN : Installs(i, able)
  <2>1. PICK process \in {"success", "error"}, left \in {"none", "part", "whole", "wiped"} :
            /\ Ends(i, process, left)
            /\ process = "success" => left = "whole"
            /\ appDir[ajax[i].app] \in {"whole", "wiped"} => left \in {"whole", "wiped"}
    <3>1. ajax[i].app \in App
      BY <1>2, SentRequest DEF InstallsFromWeb, Installs, Request
    <3> QED BY <1>a, <1>2, <3>1 DEF InstallsFromWeb, Installs
  <2>2. /\ ajax[i].process # "none" /\ ajax' = [ajax EXCEPT ![i].process = process]
        /\ UNCHANGED <<appState, lastAjax, waiting, reloading>>
        /\ appDir' = [appDir EXCEPT ![ajax[i].app] = left]
    BY <1>2, <2>1 DEF InstallsFromWeb, Installs, Ends, Becomes
  <2>3. ajax[i].app \in App
    BY <2>2, SentRequest DEF Request
  <2>4. /\ appDir' \in [App -> {"none", "part", "whole", "wiped"}] /\ appDir'[ajax[i].app] = left
        /\ \A app \in App : appDir[app] \in {"whole", "wiped"}
                               => appDir'[app] \in {"whole", "wiped"}
    BY <1>a, <2>1, <2>2, <2>3
  <2> QED BY <2>1, <2>2, <2>4, ProcessStep DEF Process
<1>3. ASSUME NEW answer \in {"success", "uptodate", "error"}, Updates(i, answer)
      PROVE  ManagerInv'
  <2>1. /\ ajax[i].process # "none" /\ ajax' = [ajax EXCEPT ![i].process = answer]
        /\ UNCHANGED <<appState, lastAjax, waiting, reloading, appDir>>
        /\ answer = "error" \/ appDir[ajax[i].app] = "whole"
    BY <1>3 DEF Updates, Becomes
  <2> QED BY <1>a, <2>1, ProcessStep DEF Process
<1> QED BY <1>1, <1>2, <1>3

LEMMA ManagerStep == ManagerInv /\ (AppManagerNext \/ UNCHANGED appManagerVars) => ManagerInv'
<1>1. ASSUME ManagerInv, AppManagerNext PROVE ManagerInv'
  BY <1>1, PageStep, ServerStep DEF AppManagerNext
<1>2. ASSUME ManagerInv, UNCHANGED appManagerVars PROVE ManagerInv'
  BY <1>2 DEF ManagerInv, PanesAreTrue, Present, appManagerVars
<1> QED BY <1>1, <1>2

\* A pane says that an app is installed only when all of it is there, whatever requests time
\* out, overlap or are sent again: SuccessIsInstalled of web/apps/app-manager.
THEOREM SuccessIsTrue == Spec => []SuccessIsInstalled
<1>1. AppsInit => ManagerInv
  BY ManagerStart DEF AppsInit
<1>2. ManagerInv /\ [AppsNext]_appsVars => ManagerInv'
  BY ManagerStep DEF AppsNext, appsVars
<1>3. ManagerInv => SuccessIsInstalled
  BY DEF ManagerInv, PanesAreTrue, Present, SuccessIsInstalled
<1> QED BY <1>1, <1>2, <1>3, PTL DEF Spec

-----------------------------------------------------------------------------
(* The averages of the monitor *)

LEMMA Quotient ==
    ASSUME NEW a \in Nat, NEW b \in Nat \ {0}
    PROVE  a \div b \in Nat /\ b * (a \div b) <= a
OBVIOUS

LEMMA Multiples ==
    ASSUME NEW b \in Nat, NEW x \in Nat, NEW y \in Nat, x <= y
    PROVE  b * x \in Nat /\ b * y \in Nat /\ b * x <= b * y
OBVIOUS

LEMMA QuotientBound ==
    ASSUME NEW a \in Nat, NEW b \in Nat \ {0}, NEW q \in Nat, a < b * q + b
    PROVE  a \div b <= q
<1> DEFINE d == a \div b
<1>1. d \in Nat /\ b * d <= a
  BY Quotient
<1> HIDE DEF d
<1>2. CASE q + 1 <= d
  <2>1. b * (q + 1) <= b * d /\ b * (q + 1) \in Nat /\ b * d \in Nat
    BY <1>1, <1>2, Multiples
  <2>2. b * (q + 1) = b * q + b /\ b * q \in Nat
    OBVIOUS
  <2> QED BY <1>1, <2>1, <2>2
<1>3. CASE d <= q
  BY <1>3 DEF d
<1> QED BY <1>1, <1>2, <1>3

\* An average in hundredths, of samples no higher than q, is no higher than q: adding half
\* a hundredth before the division does not lift it above.
LEMMA AverageIsBounded ==
    ASSUME NEW a \in Nat, NEW c \in Nat, NEW n \in Nat, NEW q \in Nat, a <= 100 * q, c <= q
    PROVE  AverageRate(a, c, n) \in Nat /\ AverageRate(a, c, n) <= 100 * q
<1> DEFINE m == 100 * q
<1> DEFINE b == 2 * (n + 1)
<1> DEFINE s == 2 * (a * n + 100 * c) + n + 1
<1>1. m \in Nat /\ a <= m /\ 100 * c <= m /\ 100 * c \in Nat
  OBVIOUS
<1>2. b \in Nat \ {0}
  OBVIOUS
<1>3. AverageRate(a, c, n) = s \div b
  BY DEF AverageRate
<1> HIDE DEF m
<1>4. n * a \in Nat /\ n * m \in Nat /\ n * a <= n * m
  BY <1>1, Multiples
<1>5. a * n = n * a
  OBVIOUS
<1>6. s \in Nat /\ s <= 2 * (n * m + m) + n + 1
  BY <1>1, <1>4, <1>5
<1>7. b * m = 2 * (n * m + m)
  BY <1>1, <1>4
<1>8. s < b * m + b
  BY <1>1, <1>4, <1>6, <1>7
<1> HIDE DEF s, b
<1> QED BY <1>1, <1>2, <1>3, <1>6, <1>8, Quotient, QuotientBound DEF m

LEMMA HigherOfTwo ==
    ASSUME NEW x \in Nat, NEW y \in Nat
    PROVE  Max({x, y}) \in Nat /\ x <= Max({x, y}) /\ y <= Max({x, y})
<1>1. \E m \in {x, y} : \A k \in {x, y} : m >= k
  OBVIOUS
<1>2. Max({x, y}) \in {x, y} /\ \A k \in {x, y} : Max({x, y}) >= k
  BY <1>1 DEF Max
<1> QED BY <1>2

\* The traffic that is known is known in both directions.
TrafficInv ==
    /\ fetchCount \in Nat
    /\ currTraffic # NoneYet /\ currTraffic # Unknown =>
          /\ currTraffic.is = "known"
          /\ currTraffic.bytes \in [Direction -> Nat] /\ currTraffic.peak \in [Direction -> Nat]
          /\ currTraffic.average \in [Direction -> Nat]
    /\ AverageBelowPeak

LEMMA TrafficStart == MonitorInit => TrafficInv
BY DEF MonitorInit, TrafficInv, AverageBelowPeak, NoneYet

LEMMA NextTraffic ==
    ASSUME TrafficInv, currTraffic # Unknown, NEW bytes \in [Direction -> 0..MaxBytes],
           NEW t, t = TrafficInfo(bytes)
    PROVE  /\ t.is = "known"
           /\ t.bytes \in [Direction -> Nat] /\ t.peak \in [Direction -> Nat]
           /\ t.average \in [Direction -> Nat]
           /\ \A d \in Direction : t.average[d] <= 100 * t.peak[d]
<1> USE MonitorAssumption
<1>0. bytes \in [Direction -> Nat]
  OBVIOUS
<1>1. CASE currTraffic = NoneYet
  BY <1>0, <1>1 DEF TrafficInfo
<1>2. CASE currTraffic # NoneYet
  <2>0. /\ currTraffic.is = "known"
        /\ currTraffic.bytes \in [Direction -> Nat] /\ currTraffic.peak \in [Direction -> Nat]
        /\ currTraffic.average \in [Direction -> Nat] /\ fetchCount \in Nat
        /\ \A d \in Direction : currTraffic.average[d] <= 100 * currTraffic.peak[d]
    BY <1>2 DEF TrafficInv, AverageBelowPeak
  <2> DEFINE peak(d) == Max({currTraffic.peak[d], Current(d, bytes)})
  <2> DEFINE average(d) == IF Current(d, bytes) = 0 THEN 0
                           ELSE AverageRate(currTraffic.average[d], Current(d, bytes),
                                            CountOf(d, bytes))
  <2>1. ASSUME NEW d \in Direction
        PROVE  peak(d) \in Nat /\ average(d) \in Nat /\ average(d) <= 100 * peak(d)
    <3> DEFINE a == currTraffic.average[d]
    <3> DEFINE p == currTraffic.peak[d]
    <3>1. a \in Nat /\ p \in Nat /\ a <= 100 * p
      BY <2>0
    <3>2. Current(d, bytes) \in Nat
      BY <1>0, <2>0 DEF Current
    <3>3. CountOf(d, bytes) \in Nat
      BY <2>0 DEF CountOf
    <3>4. PICK c \in Nat : c = Current(d, bytes)
      BY <3>2
    <3>5. PICK n \in Nat : n = CountOf(d, bytes)
      BY <3>3
    <3>6. PICK q : q = Max({p, c})
      OBVIOUS
    <3> HIDE DEF a, p
    <3>7. q \in Nat /\ p <= q /\ c <= q
      BY <3>1, <3>6, HigherOfTwo
    <3>8. a <= 100 * q
      BY <3>1, <3>7
    <3>9. AverageRate(a, c, n) \in Nat /\ AverageRate(a, c, n) <= 100 * q
      BY <3>1, <3>7, <3>8, AverageIsBounded
    <3>10. peak(d) = q
      BY <3>4, <3>6 DEF p
    <3>11. average(d) = IF c = 0 THEN 0 ELSE AverageRate(a, c, n)
      BY <3>4, <3>5 DEF a
    <3> HIDE DEF peak, average
    <3> QED BY <3>7, <3>9, <3>10, <3>11
  <2>2. t = [is |-> "known", bytes |-> bytes, peak |-> [d \in Direction |-> peak(d)],
             average |-> [d \in Direction |-> average(d)]]
    BY <1>2 DEF TrafficInfo
  <2> HIDE DEF peak, average
  <2> QED BY <1>0, <2>1, <2>2
<1> QED BY <1>1, <1>2

LEMMA TrafficStep == TrafficInv /\ (MonitorNext \/ UNCHANGED monitorVars) => TrafficInv'
<1> SUFFICES ASSUME TrafficInv, MonitorNext \/ UNCHANGED monitorVars PROVE TrafficInv'
  OBVIOUS
<1>k. CASE UNCHANGED <<currTraffic, fetchCount>>
  BY <1>k DEF TrafficInv, AverageBelowPeak
<1>1. CASE \E name \in Interface : ChangeInterface(name)
  BY <1>1 DEF ChangeInterface, TrafficInv, AverageBelowPeak, NoneYet
<1>2. CASE \E r \in asked : StatsWithoutTraffic(r)
  BY <1>2 DEF StatsWithoutTraffic, TrafficInv, AverageBelowPeak, Unknown
<1>3. CASE \E r \in asked : StatsThrows(r)
  BY <1>3 DEF StatsThrows, TrafficInv, AverageBelowPeak
<1>4. ASSUME NEW r \in asked, NEW bytes \in [Direction -> 0..MaxBytes], StatsReplied(r, bytes)
      PROVE  TrafficInv'
  <2>1. fetchCount' \in Nat
    BY <1>4 DEF StatsReplied, CountOf, TrafficInv
  <2>2. PICK t : t = TrafficInfo(bytes)
    OBVIOUS
  <2>3. /\ t.is = "known"
        /\ t.bytes \in [Direction -> Nat] /\ t.peak \in [Direction -> Nat]
        /\ t.average \in [Direction -> Nat]
        /\ \A d \in Direction : t.average[d] <= 100 * t.peak[d]
    BY <1>4, <2>2, NextTraffic DEF StatsReplied
  <2>4. currTraffic' = t
    BY <1>4, <2>2 DEF StatsReplied
  <2> QED BY <2>1, <2>3, <2>4 DEF TrafficInv, AverageBelowPeak
<1>5. CASE \/ \E name \in Interface \cup {"all"} : StartMonitor(name)
           \/ \E t \in armed : MonitorTimer(t)
           \/ ListReplied \/ ListError \/ ListFailed
           \/ \E r \in asked : StatsError(r) \/ StatsUnused(r)
           \/ UNCHANGED monitorVars
  BY <1>5, <1>k DEF StartMonitor, MonitorTimer, ListReplied, ListError, ListFailed, StatsError,
                    StatsUnused, monitorVars
<1> QED BY <1>1, <1>2, <1>3, <1>4, <1>5 DEF MonitorNext

\* Neither rounding nor the count of samples that the directions share lifts the average of
\* a direction above its peak: AverageBelowPeak of web/apps/monitor-interface.
THEOREM AveragesStayBelowPeaks == Spec => []AverageBelowPeak
<1>1. AppsInit => TrafficInv
  BY TrafficStart DEF AppsInit
<1>2. TrafficInv /\ [AppsNext]_appsVars => TrafficInv'
  BY TrafficStep DEF AppsNext, appsVars
<1>3. TrafficInv => AverageBelowPeak
  BY DEF TrafficInv
<1> QED BY <1>1, <1>2, <1>3, PTL DEF Spec

-----------------------------------------------------------------------------
(* The line on the map *)

LEMMA LeastOfSome ==
    ASSUME NEW n \in Nat, NEW S \in SUBSET (1..n), S # {}
    PROVE  Min(S) \in S
<1> DEFINE R == OpToRel(<, Nat)
<1>1. PICK m \in S : \A y \in S : ~ (<<y, m>> \in R)
  <2> HIDE DEF R
  <2>1. IsWellFoundedOn(R, Nat)
    BY NatLessThanWellFounded DEF R
  <2>2. S \subseteq Nat
    OBVIOUS
  <2> QED BY <2>1, <2>2, WFMin
<1>2. ASSUME NEW y \in S PROVE m <= y
  <2>1. m \in Nat /\ y \in Nat
    OBVIOUS
  <2>2. ~ (<<y, m>> \in {ss \in Nat \X Nat : ss[1] < ss[2]})
    BY <1>1 DEF OpToRel
  <2> QED BY <2>1, <2>2
<1> QED BY <1>1, <1>2 DEF Min

\* Whatever order the geocoder has answered in, the address of a location is at its index.
LEMMA PathIsInOrder ==
    ASSUME order \in Seq(1..MaxHop)
    PROVE  \A i \in DOMAIN PathOf : PathOf[i] \in {0, i} \cap ({0} \cup 1..MaxHop)
<1> DEFINE I(i) == {k \in 1..Len(order) : order[k] = i}
<1> DEFINE indexOf(i) == IF I(i) # {} THEN Min(I(i)) ELSE 0
<1>1. PathOf = [i \in 1..Len(order) |-> IF indexOf(i) = 0 THEN 0 ELSE order[indexOf(i)]]
  BY DEF PathOf, SelectInSeq
<1>2. ASSUME NEW i, I(i) # {} PROVE order[Min(I(i))] = i /\ i \in 1..MaxHop
  <2>1. Len(order) \in Nat /\ I(i) \in SUBSET (1..Len(order))
    OBVIOUS
  <2>2. Min(I(i)) \in I(i)
    <3> HIDE DEF I
    <3> QED BY <1>2, <2>1, LeastOfSome
  <2>3. \A k \in 1..Len(order) : order[k] \in 1..MaxHop
    BY ElementOfSeq
  <2>4. PICK k : k = Min(I(i))
    OBVIOUS
  <2>5. k \in 1..Len(order) /\ order[k] = i
    BY <2>2, <2>4
  <2> QED BY <2>3, <2>4, <2>5
<1> HIDE DEF I
<1> QED BY <1>1, <1>2

LineInv == order \in Seq(1..MaxHop) /\ located \subseteq 1..MaxHop /\ LineFollowsLsp

LEMMA LineStart == LspViewInit => LineInv
BY DEF LspViewInit, LineInv, LineFollowsLsp

LEMMA LineStep == LineInv /\ (LspViewNext \/ UNCHANGED lspViewVars) => LineInv'
<1> SUFFICES ASSUME LineInv, LspViewNext \/ UNCHANGED lspViewVars PROVE LineInv'
  OBVIOUS
<1>k. CASE UNCHANGED drawVars
  BY <1>k DEF LineInv, LineFollowsLsp, drawVars
<1>1. ASSUME NEW j \in 1..MaxHop, Geocoded(j) PROVE LineInv'
  <2>1. order' \in Seq(1..MaxHop)
    BY <1>1 DEF Geocoded, LineInv
  <2> QED BY <1>1, <2>1 DEF Geocoded, LineInv, LineFollowsLsp
<1>2. CASE GenerateMap
  BY <1>2, PathIsInOrder DEF GenerateMap, LineInv, LineFollowsLsp
<1>3. CASE \/ \E a \in Host : SelectNode(a) \/ FetchInterfaceStats(a)
           \/ CloseDialog \/ UNCHANGED lspViewVars
           \/ \E s \in stats, success \in BOOLEAN : GotInterfaceStats(s, success)
  BY <1>3, <1>k DEF SelectNode, FetchInterfaceStats, CloseDialog, GotInterfaceStats, lspViewVars
<1> QED BY <1>1, <1>2, <1>3 DEF LspViewNext

\* Each point of the line is the one of its place in the LSP, or none is known: LineFollowsLsp
\* of web/apps/map-mpls-lsp, for every LSP and every order of the geocoder's answers.
THEOREM LinesFollowTheLsp == Spec => []LineFollowsLsp
<1>1. AppsInit => LineInv
  BY LineStart DEF AppsInit
<1>2. LineInv /\ [AppsNext]_appsVars => LineInv'
  BY LineStep DEF AppsNext, appsVars
<1>3. LineInv => LineFollowsLsp
  BY DEF LineInv
<1> QED BY <1>1, <1>2, <1>3, PTL DEF Spec

-----------------------------------------------------------------------------
(* Types *)

LEMMA FilesAreLeft ==
    ASSUME NEW S, NEW s \in Seq(S), NEW k \in 1..Len(s)
    PROVE  RemoveAt(s, k) \in Seq(S)
<1>1. /\ Len(s) \in Nat
      /\ \A i \in 1..(k - 1) : s[i] \in S
      /\ \A i \in (k + 1)..Len(s) : s[i] \in S
  OBVIOUS
<1>2. SubSeq(s, 1, k - 1) \in Seq(S)
  BY <1>1, SubSeqProperties
<1>3. SubSeq(s, k + 1, Len(s)) \in Seq(S)
  BY <1>1, SubSeqProperties
<1>4. PICK t \in Seq(S), u \in Seq(S) :
          t = SubSeq(s, 1, k - 1) /\ u = SubSeq(s, k + 1, Len(s))
  BY <1>2, <1>3
<1>5. t \o u \in Seq(S)
  BY ConcatProperties
<1>6. RemoveAt(s, k) = SubSeq(s, 1, k - 1) \o SubSeq(s, k + 1, Len(s))
  BY DEF RemoveAt
<1> QED BY <1>4, <1>5, <1>6

LEMMA LoaderStart == LoaderInit => LoaderTypeOK
<1> SUFFICES ASSUME LoaderInit PROVE LoaderTypeOK
  OBVIOUS
<1>1. 1 \in Load
  BY LoaderAssumption DEF Load
<1>2. commandFiles \in Seq(Instances)
  BY DEF LoaderInit
<1>3. UNION {scripts, polling, commandsOf} = {} /\ prereqScripts = {} /\ prereqInDom = {}
  BY DEF LoaderInit
<1>4. lastLoad \in Load /\ commandLoading \in BOOLEAN /\ wanted \in [Load -> SUBSET CommandFile]
  BY <1>1 DEF LoaderInit
<1>5. loadState \in [Load -> {"none", "asked", "loading", "ignored", "failed", "done"}]
  BY DEF LoaderInit
<1> QED BY <1>2, <1>3, <1>4, <1>5 DEF LoaderTypeOK

LEMMA LoadTypes ==
    ASSUME LoaderTypeOK, NEW state \in {"asked", "loading"}, NewLoad(state)
    PROVE  /\ lastLoad' \in Load
           /\ loadState' \in [Load -> {"none", "asked", "loading", "ignored", "failed", "done"}]
<1>1. lastLoad' \in Load
  BY LoaderAssumption DEF NewLoad, LoaderTypeOK, Load
<1> QED BY <1>1 DEF NewLoad, LoaderTypeOK

LEMMA ReloadTypes == ASSUME LoaderTypeOK, NEW f \in CommandFile, ReloadApp(f) PROVE LoaderTypeOK'
<1>1. lastLoad' \in Load /\ loadState' \in [Load -> {"none", "asked", "loading", "ignored",
                                                    "failed", "done"}]
  BY LoadTypes DEF ReloadApp
<1>2. commandFiles' \in Seq(Instances)
  <2> DEFINE I == {k \in 1..Len(commandFiles) : commandFiles[k][2] = f}
  <2> DEFINE k == IF I # {} THEN Min(I) ELSE 0
  <2>1. commandFiles' = IF k = 0 THEN commandFiles ELSE RemoveAt(commandFiles, k)
    BY DEF ReloadApp, SelectInSeq
  <2>2. commandFiles \in Seq(Instances) /\ Len(commandFiles) \in Nat
        /\ I \in SUBSET (1..Len(commandFiles))
    BY DEF LoaderTypeOK
  <2> HIDE DEF I
  <2>3. CASE I = {}
    BY <2>1, <2>2, <2>3
  <2>4. CASE I # {}
    <3>1. k \in 1..Len(commandFiles)
      BY <2>2, <2>4, LeastOfSome
    <3> HIDE DEF k
    <3> QED BY <2>1, <2>2, <3>1, FilesAreLeft
  <2> QED BY <2>3, <2>4
<1>3. /\ wanted' = [wanted EXCEPT ![lastLoad'] = {f}]
      /\ scripts' = scripts \cup {<<lastLoad', f>>}
      /\ UNCHANGED <<prereqScripts, prereqInDom, polling, commandLoading, commandsOf>>
  BY DEF ReloadApp
<1>4. wanted' \in [Load -> SUBSET CommandFile]
  BY <1>1, <1>3 DEF LoaderTypeOK
<1>5. scripts' \subseteq Instances
  BY <1>1, <1>3 DEF LoaderTypeOK, Instances
<1> QED BY <1>1, <1>2, <1>3, <1>4, <1>5 DEF LoaderTypeOK

LEMMA LoaderStep == LoaderTypeOK /\ (LoaderNext \/ UNCHANGED loaderVars) => LoaderTypeOK'
<1> SUFFICES ASSUME LoaderTypeOK, LoaderNext \/ UNCHANGED loaderVars PROVE LoaderTypeOK'
  OBVIOUS
<1>1. CASE LoadCommandFiles
  <2>1. lastLoad' \in Load /\ loadState' \in [Load -> {"none", "asked", "loading", "ignored",
                                                      "failed", "done"}]
    BY <1>1, LoadTypes DEF LoadCommandFiles
  <2> QED BY <1>1, <2>1 DEF LoadCommandFiles, LoaderTypeOK
<1>2. ASSUME NEW f \in CommandFile, ReloadApp(f) PROVE LoaderTypeOK'
  BY <1>2, ReloadTypes
<1>3. ASSUME NEW l \in Load, ListIsNoUse(l) PROVE LoaderTypeOK'
  BY <1>3 DEF ListIsNoUse, LoaderTypeOK
<1>4. ASSUME NEW l \in Load, ListArrives(l) PROVE LoaderTypeOK'
  BY <1>4 DEF ListArrives, LoaderTypeOK, Instances
<1>5. ASSUME NEW i \in Instances, ScriptRuns(i) PROVE LoaderTypeOK'
  <2>1. i[2] \in CommandFile
    BY DEF Instances
  <2>2. Prereqs[i[2]] \subseteq Prereq
    BY <2>1, LoaderAssumption
  <2>3. commandFiles' \in Seq(Instances)
    BY <1>5 DEF ScriptRuns, LoaderTypeOK
  <2> QED BY <1>5, <2>2, <2>3 DEF ScriptRuns, LoaderTypeOK, StillLoading
<1>6. ASSUME NEW i \in Instances, TimerFires(i) PROVE LoaderTypeOK'
  <2>1. i[1] \in Load
    BY DEF Instances
  <2>2. loadState' \in [Load -> {"none", "asked", "loading", "ignored", "failed", "done"}]
    BY <1>6, <2>1 DEF TimerFires, LoaderTypeOK
  <2> QED BY <1>6, <2>2 DEF TimerFires, LoaderTypeOK
<1>7. ASSUME NEW i \in Instances, NEW p \in Prereq, PrereqRuns(i, p) PROVE LoaderTypeOK'
  <2>1. commandFiles' \in {commandFiles, Append(commandFiles, i)}
    BY <1>7 DEF PrereqRuns
  <2>2. commandLoading' \in BOOLEAN
    BY <1>7 DEF PrereqRuns, LoaderTypeOK
  <2>3. commandFiles' \in Seq(Instances)
    BY <2>1 DEF LoaderTypeOK
  <2> QED BY <1>7, <2>2, <2>3 DEF PrereqRuns, LoaderTypeOK
<1>8. CASE UNCHANGED loaderVars
  BY <1>8 DEF loaderVars, LoaderTypeOK
<1> QED BY <1>1, <1>2, <1>3, <1>4, <1>5, <1>6, <1>7, <1>8 DEF LoaderNext, BrowserLoads

Figures(n) == [{"heights", "ingress", "egress"} -> 0..n]

LEMMA NewFigures ==
    ASSUME NEW n \in Nat, NEW r \in 0..n, NEW b \in Figures(n)
    PROVE  /\ [heights |-> r, ingress |-> r, egress |-> r] \in Figures(n)
           /\ [b EXCEPT !.heights = r, !.ingress = r] \in Figures(n)
           /\ \A m \in Nat : m >= n => b \in Figures(m)
<1>1. [heights |-> r, ingress |-> r, egress |-> r] \in Figures(n)
  <2>1. [heights |-> r, ingress |-> r, egress |-> r]
           = [f \in {"heights", "ingress", "egress"} |-> r]
    OBVIOUS
  <2> QED BY <2>1 DEF Figures
<1>2. [b EXCEPT !.heights = r, !.ingress = r] \in Figures(n)
  <2>1. PICK a : a = [b EXCEPT !["heights"] = r]
    OBVIOUS
  <2>2. a \in Figures(n)
    BY <2>1 DEF Figures
  <2>3. [a EXCEPT !["ingress"] = r] \in Figures(n)
    BY <2>2 DEF Figures
  <2> QED BY <2>1, <2>3
<1>3. \A m \in Nat : m >= n => b \in Figures(m)
  BY DEF Figures
<1> QED BY <1>1, <1>2, <1>3

LEMMA VcfTypesStart == VcfInit => VcfTypeOK
<1> SUFFICES ASSUME VcfInit PROVE VcfTypeOK
  OBVIOUS
<1>1. bars \in Figures(lastRequest)
  <2>1. bars = [f \in {"heights", "ingress", "egress"} |-> 0]
    BY DEF VcfInit, NoBars
  <2> QED BY <2>1 DEF VcfInit, Figures
<1>2. MaxRequest \in Nat /\ MaxInterval \in Nat
  BY VcfAssumption
<1>3. bars \in [{"heights", "ingress", "egress"} -> 0..lastRequest]
  BY <1>1 DEF Figures
<1>4. /\ lastInterval \in 0..MaxInterval /\ updateInterval \in 0..lastInterval
      /\ lastRequest \in 0..MaxRequest
  BY <1>2 DEF VcfInit
<1>5. intervals = {} /\ drawing \cup updating = {}
  BY DEF VcfInit
<1>6. topology = "none" /\ showStats \in BOOLEAN /\ autoupdate \in BOOLEAN
  BY DEF VcfInit
<1> QED BY <1>3, <1>4, <1>5, <1>6 DEF VcfTypeOK

\* What the interval and the figures are when a button or the checkbox was used
LEMMA IntervalTypes ==
    ASSUME VcfTypeOK, SetsInterval \/ ClearsInterval
                         \/ UNCHANGED <<intervals, updateInterval, lastInterval>>
    PROVE  /\ lastInterval' \in 0..MaxInterval /\ updateInterval' \in 0..lastInterval'
           /\ intervals' \subseteq 1..lastInterval'
<1>1. MaxInterval \in Nat
  BY VcfAssumption
<1>2. /\ lastInterval \in 0..MaxInterval /\ updateInterval \in 0..lastInterval
      /\ intervals \subseteq 1..lastInterval
  BY DEF VcfTypeOK
<1>3. CASE SetsInterval
  BY <1>1, <1>2, <1>3 DEF SetsInterval
<1>4. CASE ClearsInterval \/ UNCHANGED <<intervals, updateInterval, lastInterval>>
  BY <1>2, <1>4 DEF ClearsInterval
<1> QED BY <1>3, <1>4

LEMMA VcfTypesStep == VcfTypeOK /\ (VcfNext \/ UNCHANGED vcfVars) => VcfTypeOK'
<1> SUFFICES ASSUME VcfTypeOK, VcfNext \/ UNCHANGED vcfVars PROVE VcfTypeOK'
  OBVIOUS
<1>a. MaxRequest \in Nat
  BY VcfAssumption
<1>b. /\ lastRequest \in 0..MaxRequest /\ drawing \cup updating \subseteq 1..lastRequest
      /\ bars \in Figures(lastRequest) /\ lastRequest \in Nat
  BY <1>a DEF VcfTypeOK, Figures
<1>c. \A m \in Nat : m >= lastRequest => bars \in Figures(m)
  <2>1. 0 \in 0..lastRequest
    BY <1>b
  <2> QED BY <1>b, <2>1, NewFigures
<1> DEFINE Requests == /\ lastRequest \in 0..MaxRequest /\ drawing \cup updating \subseteq 1..lastRequest
                       /\ bars \in Figures(lastRequest)
<1> DEFINE Controls == /\ topology \in {"none", "asked", "drawn", "alert"}
                       /\ showStats \in BOOLEAN /\ autoupdate \in BOOLEAN
<1>d. Requests' /\ Controls' /\ (\/ SetsInterval \/ ClearsInterval
                                 \/ UNCHANGED <<intervals, updateInterval, lastInterval>>)
         => VcfTypeOK'
  <2> SUFFICES ASSUME Requests', Controls',
                      \/ SetsInterval \/ ClearsInterval
                      \/ UNCHANGED <<intervals, updateInterval, lastInterval>>
               PROVE  VcfTypeOK'
    OBVIOUS
  <2>1. /\ lastInterval' \in 0..MaxInterval /\ updateInterval' \in 0..lastInterval'
        /\ intervals' \subseteq 1..lastInterval'
    BY IntervalTypes
  <2> QED BY <2>1 DEF VcfTypeOK, Figures
<1>e. ASSUME UNCHANGED <<drawing, updating, lastRequest, bars>> PROVE Requests'
  BY <1>b, <1>e
<1>f. ASSUME lastRequest < MaxRequest, lastRequest' = lastRequest + 1, bars' = bars,
             drawing' \cup updating' = drawing \cup updating \cup {lastRequest'}
      PROVE  Requests'
  BY <1>a, <1>b, <1>c, <1>f
<1>g. showStats \in BOOLEAN /\ autoupdate \in BOOLEAN
      /\ topology \in {"none", "asked", "drawn", "alert"}
  BY DEF VcfTypeOK
<1> HIDE DEF Requests
<1>1. CASE \E b \in BOOLEAN : ShowTopology(b) \/ TopologyReplied(b)
  BY <1>1, <1>d, <1>e, <1>g DEF ShowTopology, TopologyReplied
<1>2. CASE DisplayStatistics
  <2>1. drawing' \cup updating' = drawing \cup updating \cup {lastRequest'}
    BY <1>2 DEF DisplayStatistics
  <2> QED BY <1>2, <1>d, <1>f, <1>g, <2>1 DEF DisplayStatistics
<1>3. CASE HideStatistics
  <2>1. NoBars = [f \in {"heights", "ingress", "egress"} |-> 0]
    BY DEF NoBars
  <2>2. NoBars \in Figures(lastRequest)
    BY <1>b, <2>1 DEF Figures
  <2>3. Requests'
    BY <1>3, <1>b, <2>2 DEF Requests, HideStatistics
  <2> QED BY <1>3, <1>d, <1>g, <2>3 DEF HideStatistics
<1>4. CASE ChangeAutoupdate
  BY <1>4, <1>d, <1>e, <1>g DEF ChangeAutoupdate
<1>5. ASSUME NEW i \in intervals, UpdateStatistics(i) PROVE VcfTypeOK'
  <2>1. drawing' \cup updating' = drawing \cup updating \cup {lastRequest'}
    BY <1>5 DEF UpdateStatistics
  <2> QED BY <1>5, <1>d, <1>f, <1>g, <2>1 DEF UpdateStatistics
<1>6. ASSUME NEW r \in drawing \cup updating, DrawBars(r) \/ UpdateBars(r) \/ StatisticsFail(r)
      PROVE  VcfTypeOK'
  <2>1. r \in 0..lastRequest
    BY <1>b
  <2>2. /\ [heights |-> r, ingress |-> r, egress |-> r] \in Figures(lastRequest)
        /\ [bars EXCEPT !.heights = r, !.ingress = r] \in Figures(lastRequest)
    BY <1>b, <2>1, NewFigures
  <2>3. bars' \in {bars, [heights |-> r, ingress |-> r, egress |-> r],
                   [bars EXCEPT !.heights = r, !.ingress = r]}
    BY <1>6, Zenon DEF DrawBars, UpdateBars, StatisticsFail
  <2>4. bars' \in Figures(lastRequest)
    BY <1>b, <2>2, <2>3
  <2>5. Requests'
    BY <1>6, <1>b, <2>4 DEF Requests, DrawBars, UpdateBars, StatisticsFail
  <2> QED BY <1>6, <1>d, <1>g, <2>5 DEF DrawBars, UpdateBars, StatisticsFail
<1>7. CASE UNCHANGED vcfVars
  BY <1>7, <1>d, <1>e, <1>g DEF vcfVars
<1> QED BY <1>1, <1>2, <1>3, <1>4, <1>5, <1>6, <1>7 DEF VcfNext

\* A reply is counted once at most, so the counts and the RPCs that are not answered are no
\* more than what was sent.
MonitorTypes ==
    /\ MonitorTypeOK /\ IsFiniteSet(asked)
    /\ fetchCount + Cardinality(asked) <= fetches

LEMMA MonitorTypesStart == MonitorInit => MonitorTypes
<1> SUFFICES ASSUME MonitorInit PROVE MonitorTypes
  OBVIOUS
<1>1. MaxFetch \in Nat
  BY MonitorAssumption
<1>2. IsFiniteSet({}) /\ Cardinality({}) = 0
  BY FS_EmptySet
<1>3. asked = {} /\ fetchCount = 0 /\ fetches = 0 /\ timeoutId = 0 /\ armed = {}
  BY DEF MonitorInit
<1>4. fetchCount + Cardinality(asked) <= fetches /\ IsFiniteSet(asked)
  BY <1>2, <1>3
<1>5. fetches \in 0..MaxFetch /\ timeoutId \in 0..fetches /\ fetchCount \in 0..MaxFetch
  BY <1>1, <1>3
<1>6. \A r \in asked \cup armed : r.fetch \in 1..fetches /\ r.name \in Interface
  BY <1>3
<1> QED BY <1>4, <1>5, <1>6 DEF MonitorInit, MonitorTypes, MonitorTypeOK

\* What there is of fetches, whatever the view shows
Counts ==
    /\ fetches \in 0..MaxFetch /\ timeoutId \in 0..fetches /\ fetchCount \in Nat
    /\ \A r \in asked \cup armed : r.fetch \in 1..fetches /\ r.name \in Interface
    /\ IsFiniteSet(asked) /\ fetchCount + Cardinality(asked) <= fetches

LEMMA CountsAreTyped == Counts' => fetchCount' \in 0..MaxFetch
<1> SUFFICES ASSUME Counts' PROVE fetchCount' \in 0..MaxFetch
  OBVIOUS
<1>1. Cardinality(asked') \in Nat
  BY FS_CardinalityType DEF Counts
<1> QED BY <1>1, MonitorAssumption DEF Counts

LEMMA FetchCounts ==
    ASSUME Counts, NEW name \in Interface, NEW timers \in SUBSET armed, FetchStats(name, timers),
           fetchCount' = fetchCount
    PROVE  Counts'
<1>1. /\ MaxFetch \in Nat /\ fetches' \in 0..MaxFetch /\ fetches' = fetches + 1
      /\ fetches \in Nat /\ fetches' \in 1..fetches'
  BY MonitorAssumption DEF Counts, FetchStats
<1>2. PICK f : f = Fetches(fetches', name)
  OBVIOUS
<1>3. f.fetch = fetches' /\ f.name = name
  BY <1>2 DEF Fetches
<1>4. asked' = asked \cup {f} /\ armed' \subseteq armed \cup {f} /\ timeoutId' = fetches'
  BY <1>2 DEF FetchStats, Cleared
<1>5. f \notin asked
  BY <1>1, <1>3 DEF Counts
<1>6. /\ IsFiniteSet(asked \cup {f}) /\ Cardinality(asked \cup {f}) = Cardinality(asked) + 1
      /\ Cardinality(asked) \in Nat
  BY <1>5, FS_AddElement, FS_CardinalityType DEF Counts
<1>7. ASSUME NEW r \in asked' \cup armed' PROVE r.fetch \in 1..fetches' /\ r.name \in Interface
  <2>1. CASE r = f
    BY <1>1, <1>3, <2>1
  <2>2. CASE r \in asked \cup armed
    BY <1>1, <2>2 DEF Counts
  <2> QED BY <1>4, <2>1, <2>2
<1>8. fetchCount' + Cardinality(asked') <= fetches' /\ fetchCount \in Nat
  BY <1>1, <1>4, <1>6 DEF Counts
<1> QED BY <1>1, <1>4, <1>6, <1>7, <1>8 DEF Counts

LEMMA AnswerCounts ==
    ASSUME Counts, NEW r, Answered(r), fetchCount' \in Nat, fetchCount' <= fetchCount + 1,
           armed' \subseteq armed, UNCHANGED <<timeoutId, fetches>>
    PROVE  Counts'
<1>1. r \in asked /\ asked' = asked \ {r}
  BY DEF Answered
<1>2. /\ IsFiniteSet(asked \ {r}) /\ Cardinality(asked \ {r}) = Cardinality(asked) - 1
      /\ Cardinality(asked) \in Nat
  BY <1>1, FS_RemoveElement, FS_CardinalityType DEF Counts
<1>3. fetches \in Nat /\ fetchCount \in Nat
  BY MonitorAssumption DEF Counts
<1>4. fetchCount' + Cardinality(asked') <= fetches
  BY <1>1, <1>2, <1>3 DEF Counts
<1> QED BY <1>1, <1>2, <1>4 DEF Counts

LEMMA MonitorTypesStep ==
    MonitorInv /\ MonitorTypes /\ (MonitorNext \/ UNCHANGED monitorVars) => MonitorTypes'
<1> SUFFICES ASSUME MonitorInv, MonitorTypes, MonitorNext \/ UNCHANGED monitorVars
             PROVE  MonitorTypes'
  OBVIOUS
<1> DEFINE View == /\ panel \in {"none", "loading", "content", "error"}
                   /\ figuresOf \in Interface \cup {"none"}
                   /\ ifdList \in BOOLEAN /\ listing \in BOOLEAN
                   /\ currName \in Interface \cup {"all", "none"}
<1>a. Counts /\ View
  <2>1. MaxFetch \in Nat
    BY MonitorAssumption
  <2> QED BY <2>1 DEF MonitorTypes, MonitorTypeOK, Counts
<1>b. Counts' /\ View' => MonitorTypes'
  <2>1. Counts' => fetchCount' \in 0..MaxFetch
    BY CountsAreTyped
  <2> QED BY <2>1 DEF MonitorTypes, MonitorTypeOK, Counts
<1>c. ASSUME UNCHANGED <<fetches, fetchCount, asked, timeoutId>>, armed' \subseteq armed
      PROVE  Counts'
  BY <1>a, <1>c DEF Counts
<1>d. ASSUME NEW timers PROVE Cleared(timers) \subseteq timers
  BY DEF Cleared
<1>1. ASSUME NEW name \in Interface \cup {"all"}, StartMonitor(name) PROVE MonitorTypes'
  <2>1. CASE name # "all" /\ ~ IsIfl(name)
    <3>1. FetchStats(name, armed) /\ name \in Interface /\ fetchCount' = fetchCount
      BY <1>1, <2>1 DEF StartMonitor
    <3>2. Counts'
      BY <1>a, <3>1, FetchCounts
    <3> QED BY <1>1, <1>a, <1>b, <2>1, <3>1, <3>2 DEF StartMonitor, FetchStats
  <2>2. CASE ~ (name # "all" /\ ~ IsIfl(name))
    BY <1>1, <1>a, <1>b, <1>c, <2>2 DEF StartMonitor
  <2> QED BY <2>1, <2>2
<1>2. ASSUME NEW name \in Interface, ChangeInterface(name) PROVE MonitorTypes'
  <2>1. Counts'
    BY <1>2, <1>a, FetchCounts DEF ChangeInterface
  <2> QED BY <1>2, <1>a, <1>b, <2>1 DEF ChangeInterface, FetchStats
<1>3. ASSUME NEW t \in armed, MonitorTimer(t) PROVE MonitorTypes'
  <2>1. t.name \in Interface
    BY <1>a DEF Counts
  <2>2. Counts'
    BY <1>3, <1>a, <2>1, FetchCounts DEF MonitorTimer
  <2> QED BY <1>3, <1>a, <1>b, <2>1, <2>2 DEF MonitorTimer, FetchStats
<1>4. CASE ListReplied
  <2>1. Chosen(currName) \in Interface
    BY <1>4, MonitorAssumption DEF MonitorInv, ListReplied, Chosen
  <2>2. Counts'
    BY <1>4, <1>a, <2>1, FetchCounts DEF ListReplied
  <2> QED BY <1>4, <1>a, <1>b, <2>1, <2>2 DEF ListReplied, FetchStats
<1>5. CASE ListError \/ ListFailed
  <2>1. Counts'
    BY <1>5, <1>c, <1>d DEF ListError, ListFailed, ShowError
  <2> QED BY <1>5, <1>a, <1>b, <2>1 DEF ListError, ListFailed, ShowError
<1>6. ASSUME NEW r \in asked, StatsError(r) \/ StatsUnused(r) PROVE MonitorTypes'
  <2>1. Answered(r) /\ fetchCount' = fetchCount /\ UNCHANGED <<timeoutId, fetches>>
        /\ armed' \subseteq armed
    BY <1>6, <1>d DEF StatsError, StatsUnused, ShowError
  <2>2. Counts'
    BY <1>a, <2>1, AnswerCounts DEF Counts
  <2> QED BY <1>6, <1>a, <1>b, <2>2 DEF StatsError, StatsUnused, ShowError
<1>7. ASSUME NEW r \in asked,
             StatsThrows(r) \/ StatsWithoutTraffic(r) \/ \E bytes : StatsReplied(r, bytes)
      PROVE  MonitorTypes'
  <2>1. Answered(r) /\ UNCHANGED <<timeoutId, fetches>> /\ armed' = armed
    BY <1>7 DEF StatsThrows, StatsWithoutTraffic, StatsReplied
  <2>2. fetchCount \in Nat
    BY <1>a DEF Counts
  <2>3. fetchCount' \in {fetchCount, fetchCount + 1, 0}
    BY <1>7 DEF StatsThrows, StatsWithoutTraffic, StatsReplied, CountOf
  <2>4. fetchCount' \in Nat /\ fetchCount' <= fetchCount + 1
    BY <2>2, <2>3
  <2>5. Counts'
    BY <1>a, <2>1, <2>4, AnswerCounts
  <2>6. r.name \in Interface
    BY <1>a DEF Counts
  <2> QED BY <1>7, <1>a, <1>b, <2>5, <2>6 DEF StatsThrows, StatsWithoutTraffic, StatsReplied
<1>8. CASE UNCHANGED monitorVars
  BY <1>8, <1>a, <1>b, <1>c DEF monitorVars
<1> QED BY <1>1, <1>2, <1>3, <1>4, <1>5, <1>6, <1>7, <1>8 DEF MonitorNext

\* The counts of a run stay below twice the addresses: no address is asked twice in a stage,
\* and no answer counts more than twice.
MapTypes ==
    /\ Key \subseteq Address
    /\ \A a \in Key : lookUpMap[a] \in [{"hostname", "interface"} -> BOOLEAN]
    /\ lspLeft \in [Run -> 0..MaxLsp]
    /\ \A r \in Run :
          /\ stage[r] = "location" => lspLeft[r] > 0
          /\ counted[r] + 2 * Cardinality(naming[r]) <= 2 * Cardinality(Address)

LEMMA MapTypesStart == MapInit => MapTypes
<1> SUFFICES ASSUME MapInit PROVE MapTypes
  OBVIOUS
<1>1. Key = {}
  BY DEF MapInit, Key
<1>2. MaxLsp \in Nat /\ Cardinality(Address) \in Nat /\ Cardinality({}) = 0
  BY MapAssumption, FS_CardinalityType, FS_EmptySet
<1>3. lspLeft \in [Run -> 0..MaxLsp]
  BY <1>2 DEF MapInit
<1>4. ASSUME NEW r \in Run
      PROVE  counted[r] + 2 * Cardinality(naming[r]) <= 2 * Cardinality(Address)
  <2>1. counted[r] = 0 /\ naming[r] = {}
    BY DEF MapInit
  <2> QED BY <1>2, <2>1
<1>5. \A r \in Run : stage[r] # "location"
  BY DEF MapInit
<1> QED BY <1>1, <1>3, <1>4, <1>5 DEF MapTypes

LEMMA Naming ==
    ASSUME NEW S \in SUBSET Address
    PROVE  /\ IsFiniteSet(S) /\ Cardinality(S) \in Nat
           /\ Cardinality(S) <= Cardinality(Address) /\ Cardinality(Address) \in Nat
           /\ \A a \in S : Cardinality(S \ {a}) = Cardinality(S) - 1
BY MapAssumption, FS_Subset, FS_CardinalityType, FS_RemoveElement

LEMMA MapTypesStep == MapInv /\ MapTypes /\ (MapNext \/ UNCHANGED mapVars) => MapTypes'
<1> SUFFICES ASSUME MapInv, MapTypes, MapNext \/ UNCHANGED mapVars PROVE MapTypes'
  OBVIOUS
<1> DEFINE Flags == [{"hostname", "interface"} -> BOOLEAN]
<1> DEFINE MapIsTyped == Key \subseteq Address /\ \A a \in Key : lookUpMap[a] \in Flags
<1> DEFINE Left == /\ lspLeft \in [Run -> 0..MaxLsp]
                   /\ \A r \in Run : stage[r] = "location" => lspLeft[r] > 0
<1> DEFINE Room == \A r \in Run :
                      counted[r] + 2 * Cardinality(naming[r]) <= 2 * Cardinality(Address)
<1>a. MapIsTyped /\ Left /\ Room
  BY DEF MapTypes
<1>b. MapIsTyped' /\ Left' /\ Room' => MapTypes'
  BY DEF MapTypes
<1>c. Unnamed \in Flags
  <2>1. PICK b \in BOOLEAN : b = FALSE
    OBVIOUS
  <2>2. [hostname |-> b, interface |-> b] = [f \in {"hostname", "interface"} |-> b]
    OBVIOUS
  <2>3. Unnamed = [hostname |-> b, interface |-> b]
    BY <2>1 DEF Unnamed
  <2> QED BY <2>2, <2>3
<1>d. MaxLsp \in Nat
  BY MapAssumption
<1>e. stage \in [Run -> Stage] /\ counted \in [Run -> Nat]
  BY DEF MapInv
<1> HIDE DEF MapIsTyped, Left, Room
<1>f. ASSUME UNCHANGED lookUpMap PROVE MapIsTyped'
  BY <1>a, <1>f DEF MapIsTyped, Key
<1>g. ASSUME UNCHANGED <<counted, naming>> PROVE Room'
  BY <1>a, <1>g DEF Room
<1>h. ASSUME UNCHANGED lspLeft, \A r \in Run : stage'[r] = "location" => stage[r] = "location"
      PROVE Left'
  BY <1>a, <1>h DEF Left
<1>1. ASSUME NEW r \in Run, MapLsp(r) \/ LspFailed(r) \/ LocationFails(r) PROVE MapTypes'
  BY <1>1, <1>b, <1>e, <1>f, <1>g, <1>h DEF MapLsp, LspFailed, LocationFails, Goes
<1>2. ASSUME NEW r \in Run, NEW n \in 0..MaxLsp, NEW S \in SUBSET Address, LspReplied(r, n, S)
      PROVE  MapTypes'
  <2>1. MapIsTyped'
    BY <1>2, <1>a, <1>c DEF MapIsTyped, LspReplied, With, Key
  <2>2. Left'
    BY <1>2, <1>a, <1>d, <1>e DEF Left, LspReplied, Goes
  <2>3. Room'
    BY <1>2, <1>g DEF LspReplied
  <2> QED BY <1>b, <2>1, <2>2, <2>3
<1>3. ASSUME NEW r \in Run, NEW own \in SUBSET Address, Located(r, own) PROVE MapTypes'
  <2>1. MapIsTyped'
    BY <1>3, <1>a, <1>c DEF MapIsTyped, Located, Key
  <2>2. stage[r] = "location" /\ lspLeft[r] \in 1..MaxLsp
    BY <1>3, <1>a, <1>d DEF Left, Located
  <2>3. lspLeft' = [lspLeft EXCEPT ![r] = lspLeft[r] - 1] /\ lspLeft[r] - 1 \in 0..MaxLsp
    BY <1>3, <2>2, <1>d DEF Located
  <2>4. Left'
    <3>1. lspLeft' \in [Run -> 0..MaxLsp] /\ lspLeft'[r] = lspLeft[r] - 1
          /\ \A q \in Run : q # r => lspLeft'[q] = lspLeft[q]
      BY <1>a, <2>3 DEF Left
    <3>2. \A q \in Run : q # r => stage'[q] = stage[q]
      BY <1>3, <1>e DEF Located, Goes
    <3>3. stage'[r] = "location" => lspLeft'[r] > 0
      BY <1>3, <1>e DEF Located, Goes
    <3> QED BY <1>a, <3>1, <3>2, <3>3 DEF Left
  <2>5. Room'
    <3>1. naming' = naming /\ counted' \in {counted, [counted EXCEPT ![r] = 0]}
      BY <1>3 DEF Located
    <3>2. naming[r] \in SUBSET Address
      BY <1>a DEF MapInv, MapIsTyped
    <3>3. Cardinality(naming[r]) \in Nat /\ Cardinality(naming[r]) <= Cardinality(Address)
          /\ Cardinality(Address) \in Nat
      BY <3>2, Naming
    <3> QED BY <1>a, <1>e, <3>1, <3>3 DEF Room
  <2> QED BY <1>b, <2>1, <2>4, <2>5
<1>4. ASSUME NEW r \in Run, NEW a \in Address, HostReplied(r, a) PROVE MapTypes'
  <2>1. a \in hosting[r] /\ a \in Key /\ hosting[r] \subseteq Address /\ stage[r] = "hostnames"
        /\ naming[r] = {} /\ counted[r] + Cardinality(hosting[r]) <= Cardinality(Key)
    BY <1>4, <1>a DEF HostReplied, MapInv, MapIsTyped
  <2>2. MapIsTyped'
    <3>1. lookUpMap' = [lookUpMap EXCEPT ![a] = [lookUpMap[a] EXCEPT !["hostname"] = TRUE]]
      BY <1>4 DEF HostReplied
    <3>2. [lookUpMap[a] EXCEPT !["hostname"] = TRUE] \in Flags
      BY <1>a, <2>1 DEF MapIsTyped
    <3> QED BY <1>a, <2>1, <3>1, <3>2 DEF MapIsTyped, Key
  <2>3. Left'
    BY <1>4, <1>e, <1>h DEF HostReplied, Goes
  <2>4. /\ Cardinality(hosting[r]) \in Nat /\ Cardinality(hosting[r] \ {a}) \in Nat
        /\ Cardinality(hosting[r] \ {a}) = Cardinality(hosting[r]) - 1
    BY <2>1, Naming
  <2>5. /\ Key \in SUBSET Address /\ Cardinality(Key) <= Cardinality(Address)
        /\ Cardinality(Key) \in Nat /\ Cardinality(Address) \in Nat
    BY <1>a, Naming DEF MapIsTyped
  <2>6. Cardinality({}) = 0
    BY FS_EmptySet
  <2>7. \/ naming' = [naming EXCEPT ![r] = Key] /\ counted' = [counted EXCEPT ![r] = 0]
        \/ naming' = naming /\ counted' = [counted EXCEPT ![r] = counted[r] + 1]
    BY <1>4 DEF HostReplied
  <2>8. naming \in [Run -> SUBSET Key]
    BY DEF MapInv
  <2>9. Room'
    <3>1. \A q \in Run : q # r => counted'[q] = counted[q] /\ naming'[q] = naming[q]
      BY <1>e, <2>7, <2>8
    <3>2. counted'[r] + 2 * Cardinality(naming'[r]) <= 2 * Cardinality(Address)
      <4>1. CASE naming'[r] = Key /\ counted'[r] = 0
        BY <2>5, <4>1
      <4>2. CASE naming'[r] = {} /\ counted'[r] = counted[r] + 1
        BY <1>e, <2>1, <2>4, <2>5, <2>6, <4>2
      <4> QED BY <1>e, <2>1, <2>7, <2>8, <4>1, <4>2
    <3> QED BY <1>a, <3>1, <3>2 DEF Room
  <2> QED BY <1>b, <2>2, <2>3, <2>9
<1>5. ASSUME NEW r \in Run, NEW a \in Address, NEW outcome \in Outcomes,
             InterfaceReplied(r, a, outcome)
      PROVE  MapTypes'
  <2>1. a \in naming[r] /\ a \in Key /\ naming[r] \subseteq Address
    BY <1>5, <1>a DEF InterfaceReplied, MapInv, MapIsTyped
  <2>2. MapIsTyped'
    <3>1. PICK b \in BOOLEAN :
              lookUpMap' = [lookUpMap EXCEPT ![a] = [lookUpMap[a] EXCEPT !["interface"] = b]]
      <4>1. lookUpMap[a].interface \in BOOLEAN
        BY <1>a, <2>1 DEF MapIsTyped
      <4>2. (lookUpMap[a].interface \/ outcome.notes) \in BOOLEAN
        OBVIOUS
      <4> QED BY <1>5, <4>2 DEF InterfaceReplied
    <3>2. [lookUpMap[a] EXCEPT !["interface"] = b] \in Flags
      BY <1>a, <2>1 DEF MapIsTyped
    <3> QED BY <1>a, <2>1, <3>1, <3>2 DEF MapIsTyped, Key
  <2>3. Left'
    BY <1>5, <1>e, <1>h DEF InterfaceReplied, Goes
  <2>4. /\ Cardinality(naming[r]) \in Nat /\ Cardinality(Address) \in Nat
        /\ Cardinality(naming[r] \ {a}) = Cardinality(naming[r]) - 1
    BY <2>1, Naming
  <2>5. outcome.pushes \in 0..2
    BY DEF Outcomes
  <2>6. naming \in [Run -> SUBSET Key]
    BY DEF MapInv
  <2>7. /\ naming' = [naming EXCEPT ![r] = naming[r] \ {a}]
        /\ counted' = [counted EXCEPT ![r] = counted[r] + outcome.pushes]
    BY <1>5 DEF InterfaceReplied
  <2>8. Room'
    <3>1. \A q \in Run : q # r => counted'[q] = counted[q] /\ naming'[q] = naming[q]
      BY <1>e, <2>6, <2>7
    <3>2. counted'[r] = counted[r] + outcome.pushes /\ naming'[r] = naming[r] \ {a}
          /\ counted[r] \in Nat
      BY <1>e, <2>6, <2>7
    <3>3. counted[r] + 2 * Cardinality(naming[r]) <= 2 * Cardinality(Address)
      BY <1>a DEF Room
    <3>4. counted'[r] + 2 * Cardinality(naming'[r]) <= 2 * Cardinality(Address)
      BY <2>4, <2>5, <3>2, <3>3
    <3> QED BY <1>a, <3>1, <3>4 DEF Room
  <2> QED BY <1>b, <2>2, <2>3, <2>8
<1>6. ASSUME NEW r \in Run, NEW a \in Address, NameFails(r, a) PROVE MapTypes'
  <2>1. MapIsTyped' /\ Left'
    BY <1>6, <1>f, <1>h DEF NameFails
  <2>2. naming \in [Run -> SUBSET Key] /\ counted' = counted
        /\ naming' = [naming EXCEPT ![r] = naming[r] \ {a}]
    BY <1>6 DEF MapInv, NameFails
  <2>3. naming[r] \in SUBSET Address /\ naming[r] \ {a} \in SUBSET Address
    BY <1>a, <2>2 DEF MapIsTyped
  <2>4. /\ Cardinality(naming[r] \ {a}) <= Cardinality(naming[r])
        /\ Cardinality(naming[r] \ {a}) \in Nat /\ Cardinality(naming[r]) \in Nat
        /\ Cardinality(Address) \in Nat
    <3>1. IsFiniteSet(naming[r])
      BY <2>3, Naming
    <3>2. Cardinality(naming[r] \ {a}) <= Cardinality(naming[r])
      BY <3>1, FS_Subset
    <3> QED BY <2>3, <3>2, Naming
  <2>5. Room'
    <3>1. \A q \in Run : q # r => naming'[q] = naming[q]
      BY <2>2
    <3>2. naming'[r] = naming[r] \ {a} /\ counted[r] \in Nat
      BY <1>e, <2>2
    <3>3. counted[r] + 2 * Cardinality(naming[r]) <= 2 * Cardinality(Address)
      BY <1>a DEF Room
    <3>4. counted[r] + 2 * Cardinality(naming'[r]) <= 2 * Cardinality(Address)
      BY <2>4, <3>2, <3>3
    <3> QED BY <1>a, <2>2, <3>1, <3>4 DEF Room
  <2> QED BY <1>b, <2>1, <2>5
<1>7. CASE UNCHANGED mapVars
  BY <1>7, <1>b, <1>f, <1>g, <1>h DEF mapVars
<1>8. 0 \in 0..MaxLsp /\ {} \in SUBSET Address /\ 1..MaxLsp \subseteq 0..MaxLsp
  BY <1>d
<1> QED BY <1>1, <1>2, <1>3, <1>4, <1>5, <1>6, <1>7, <1>8 DEF MapNext

LEMMA MapTypesSuffice == MapInv /\ MapTypes => MapTypeOK
<1> SUFFICES ASSUME MapInv, MapTypes PROVE MapTypeOK
  OBVIOUS
<1>1. ASSUME NEW r \in Run PROVE counted[r] \in 0..2 * Cardinality(Address)
  <2>1. naming[r] \in SUBSET Address /\ counted[r] \in Nat
        /\ counted[r] + 2 * Cardinality(naming[r]) <= 2 * Cardinality(Address)
    BY DEF MapInv, MapTypes
  <2>2. Cardinality(naming[r]) \in Nat /\ Cardinality(Address) \in Nat
    BY <2>1, Naming
  <2> QED BY <2>1, <2>2
<1>2. counted \in [Run -> 0..2 * Cardinality(Address)]
  BY <1>1 DEF MapInv
<1> QED BY <1>2 DEF MapInv, MapTypes, MapTypeOK, Stage

ViewTypes == LspViewTypeOK /\ order \in Seq(located) /\ \A s \in stats : s.host \in Host

LEMMA ViewTypesStart == LspViewInit => ViewTypes
<1> SUFFICES ASSUME LspViewInit PROVE ViewTypes
  OBVIOUS
<1>1. Range(<<>>) = {}
  BY DEF Range
<1>2. MaxHopStats \in Nat
  BY LspViewAssumption
<1> QED BY <1>1, <1>2 DEF LspViewInit, ViewTypes, LspViewTypeOK

LEMMA ViewTypesStep == LineInv /\ ViewTypes /\ (LspViewNext \/ UNCHANGED lspViewVars) => ViewTypes'
<1> SUFFICES ASSUME LineInv, ViewTypes, LspViewNext \/ UNCHANGED lspViewVars PROVE ViewTypes'
  OBVIOUS
<1> DEFINE Map == /\ located \subseteq 1..MaxHop /\ order \in Seq(located)
                  /\ Range(drawn) \subseteq 0..MaxHop
<1> DEFINE Dialog == /\ {dialog, routerInfo} \subseteq Host \cup {"none"} /\ polledHosts \subseteq Host
                     /\ lastStats \in 0..MaxHopStats /\ \A s \in stats : s.host \in Host
<1>a. Map /\ Dialog
  BY DEF ViewTypes, LspViewTypeOK
<1>b. Map' /\ Dialog' => ViewTypes'
  <2> SUFFICES ASSUME Map', Dialog' PROVE ViewTypes'
    OBVIOUS
  <2>1. Range(order') \subseteq located'
    BY DEF Range
  <2> QED BY <2>1 DEF ViewTypes, LspViewTypeOK
<1>c. MaxHopStats \in Nat /\ MaxHop \in Nat
  BY LspViewAssumption
<1>d. ASSUME UNCHANGED drawVars PROVE Map'
  BY <1>a, <1>d DEF drawVars
<1>e. ASSUME UNCHANGED dialogVars PROVE Dialog'
  BY <1>a, <1>e DEF dialogVars
<1>1. ASSUME NEW j \in 1..MaxHop, Geocoded(j) PROVE ViewTypes'
  BY <1>1, <1>a, <1>b, <1>e DEF Geocoded
<1>2. CASE GenerateMap
  <2>1. drawn' = PathOf /\ UNCHANGED <<located, order>>
    BY <1>2 DEF GenerateMap
  <2>2. Range(PathOf) \subseteq 0..MaxHop
    <3>1. \A i \in DOMAIN PathOf : PathOf[i] \in 0..MaxHop
      BY <1>c, PathIsInOrder DEF LineInv
    <3> QED BY <3>1 DEF Range
  <2> QED BY <1>2, <1>a, <1>b, <1>e, <2>1, <2>2 DEF GenerateMap
<1>3. ASSUME NEW a \in Host, SelectNode(a) PROVE ViewTypes'
  BY <1>3, <1>a, <1>b, <1>d DEF SelectNode
<1>4. ASSUME NEW a \in Host, FetchInterfaceStats(a) PROVE ViewTypes'
  <2>1. PICK s : s = [fetch |-> lastStats', host |-> a]
    OBVIOUS
  <2>2. stats' = stats \cup {s} /\ s.host = a
    BY <1>4, <2>1 DEF FetchInterfaceStats
  <2>3. \A t \in stats' : t.host \in Host
    BY <1>a, <2>2
  <2> QED BY <1>4, <1>a, <1>b, <1>c, <1>d, <2>3 DEF FetchInterfaceStats
<1>5. CASE CloseDialog
  BY <1>5, <1>a, <1>b, <1>d DEF CloseDialog
<1>6. ASSUME NEW s \in stats, NEW success \in BOOLEAN, GotInterfaceStats(s, success)
      PROVE  ViewTypes'
  BY <1>6, <1>a, <1>b, <1>d DEF GotInterfaceStats
<1>7. CASE UNCHANGED lspViewVars
  BY <1>7, <1>b, <1>d, <1>e DEF lspViewVars
<1> QED BY <1>1, <1>2, <1>3, <1>4, <1>5, <1>6, <1>7 DEF LspViewNext

LEMMA LockStep == lock \in BOOLEAN /\ (AppManagerNext \/ UNCHANGED appManagerVars)
                     => lock' \in BOOLEAN
BY DEF AppManagerNext, appManagerVars, InstallApp, UpdateApp, InstallAnother, CheckInstallLock,
   Succeeded, AppReloaded, ToldToWait, ToldError, LockIsGone, LockIsThere, AjaxFails,
   LooksForLock, MakesLock, Checks, InstallsFromWeb, Installs, Ends, Updates

LEMMA ManagerTypes == ManagerInv /\ lock \in BOOLEAN => AppManagerTypeOK
<1> SUFFICES ASSUME ManagerInv, lock \in BOOLEAN PROVE AppManagerTypeOK
  OBVIOUS
<1>1. ASSUME NEW i \in Ajax PROVE ajax[i].process \in Process
  BY <1>1 DEF ManagerInv, Request, NoAjax, Process
<1> QED BY <1>1 DEF ManagerInv, PanesAreTrue, AppManagerTypeOK, Process

\* The variables of the loader (parser.js) and of the apps keep their types for every number
\* of files, intervals, fetches, runs, points and requests: AppsTypeOK.  That an app's counts
\* stay within what it asks for is part of it.
THEOREM AppsAreTyped == Spec => []AppsTypeOK
<1> DEFINE Inv == /\ scene \in Scene /\ LoaderTypeOK /\ VcfTypeOK
                  /\ MonitorInv /\ MonitorTypes /\ MapInv /\ MapTypes /\ LineInv /\ ViewTypes
                  /\ ManagerInv /\ lock \in BOOLEAN
<1>1. AppsInit => Inv
  <2>1. AppManagerInit => lock \in BOOLEAN
    BY DEF AppManagerInit
  <2> QED BY <2>1, LoaderStart, VcfTypesStart, MonitorStart, MonitorTypesStart, MapStart,
             MapTypesStart, LineStart, ViewTypesStart, ManagerStart DEF AppsInit
<1>2. Inv /\ [AppsNext]_appsVars => Inv'
  <2> SUFFICES ASSUME Inv, [AppsNext]_appsVars PROVE Inv'
    OBVIOUS
  <2>1. /\ LoaderNext \/ UNCHANGED loaderVars
        /\ VcfNext \/ UNCHANGED vcfVars
        /\ MonitorNext \/ UNCHANGED monitorVars
        /\ MapNext \/ UNCHANGED mapVars
        /\ LspViewNext \/ UNCHANGED lspViewVars
        /\ AppManagerNext \/ UNCHANGED appManagerVars
        /\ UNCHANGED scene
    BY DEF AppsNext, appsVars
  <2>2. LoaderTypeOK' /\ VcfTypeOK'
    BY <2>1, LoaderStep, VcfTypesStep
  <2>3. MonitorInv' /\ MonitorTypes' /\ MapInv' /\ MapTypes'
    BY <2>1, MonitorStep, MonitorTypesStep, MapStep, MapTypesStep
  <2>4. LineInv' /\ ViewTypes'
    BY <2>1, LineStep, ViewTypesStep
  <2>5. ManagerInv' /\ lock' \in BOOLEAN
    BY <2>1, ManagerStep, LockStep
  <2> QED BY <2>1, <2>2, <2>3, <2>4, <2>5
<1>3. Inv => AppsTypeOK
  BY MapTypesSuffice, ManagerTypes DEF AppsTypeOK, MonitorTypes, ViewTypes
<1> QED BY <1>1, <1>2, <1>3, PTL DEF Spec

=============================================================================
