-------------------------------- MODULE Vcf --------------------------------
(***************************************************************************)
(* The app that shows a virtual chassis fabric (web/apps/vcf): a drawing,  *)
(* a button that shows and hides bars with statistics, and a checkbox that *)
(* has them updated.  Statistics are asked for by a script on the server,  *)
(* whose reply may come when the button was pressed again.  A request is   *)
(* known by its number, and the figures it brings by the same number.      *)
(***************************************************************************)
EXTENDS Naturals, FiniteSets

CONSTANTS
    MaxRequest,  \* bound: requests for statistics
    MaxInterval  \* bound: intervals ever set

ASSUME VcfAssumption == {MaxRequest, MaxInterval} \subseteq Nat

VARIABLES
    topology,        \* "none", "asked", "drawn", "alert"
    showStats,       \* the button says "Hide Statistics"
    autoupdate,      \* the checkbox
    intervals,       \* the intervals that run
    updateInterval,  \* the one the app knows, 0 for none
    lastInterval,    \* intervals set
    drawing,         \* requests of displayStatistics that are not answered
    updating,        \* those of updateStatistics
    lastRequest,     \* requests sent
    bars             \* the figures in the bars and in the two texts, 0 for no bars

vcfVars == <<topology, showStats, autoupdate, intervals, updateInterval, lastInterval, drawing,
             updating, lastRequest, bars>>

NoBars == [heights |-> 0, ingress |-> 0, egress |-> 0]

-----------------------------------------------------------------------------
(* The topology *)

\* vcfTopology: without a target an alert, else the script is run
ShowTopology(hasTarget) ==
    /\ topology = "none"
    /\ topology' = IF hasTarget THEN "asked" ELSE "alert"
    /\ UNCHANGED <<showStats, autoupdate, intervals, updateInterval, lastInterval, drawing,
                   updating, lastRequest, bars>>

\* renderVCFTopology, or an alert; an empty reply draws nothing
TopologyReplied(success) ==
    /\ topology = "asked"
    /\ topology' = IF success THEN "drawn" ELSE "alert"
    /\ UNCHANGED <<showStats, autoupdate, intervals, updateInterval, lastInterval, drawing,
                   updating, lastRequest, bars>>

-----------------------------------------------------------------------------
(* The button and the checkbox *)

SetsInterval ==
    /\ lastInterval < MaxInterval
    /\ lastInterval'   = lastInterval + 1
    /\ updateInterval' = lastInterval'
    /\ intervals'      = intervals \cup {lastInterval'}

\* A mutant of ClearsInterval: it forgets the interval, and does not clear it
ClearsIntervalForgets == updateInterval' = 0 /\ UNCHANGED <<intervals, lastInterval>>

\* clearInterval, of an interval that may be cleared already
ClearsInterval ==
    /\ intervals' = intervals \ {updateInterval}
    /\ UNCHANGED <<updateInterval, lastInterval>>

\* displayStatistics
DisplayStatistics ==
    /\ topology = "drawn" /\ ~ showStats /\ lastRequest < MaxRequest
    /\ lastRequest' = lastRequest + 1 /\ drawing' = drawing \cup {lastRequest'}
    /\ IF autoupdate THEN SetsInterval
                     ELSE UNCHANGED <<intervals, updateInterval, lastInterval>>
    /\ showStats' = TRUE
    /\ UNCHANGED <<topology, autoupdate, updating, bars>>

\* hideStatistics
HideStatistics ==
    /\ topology = "drawn" /\ showStats
    /\ showStats' = FALSE /\ bars' = NoBars /\ ClearsInterval
    /\ UNCHANGED <<topology, autoupdate, drawing, updating, lastRequest>>

\* The handler of the checkbox
ChangeAutoupdate ==
    /\ topology = "drawn"
    /\ autoupdate' = ~ autoupdate
    /\ IF ~ autoupdate' THEN ClearsInterval
       ELSE IF showStats THEN SetsInterval
       ELSE UNCHANGED <<intervals, updateInterval, lastInterval>>
    /\ UNCHANGED <<topology, showStats, drawing, updating, lastRequest, bars>>

-----------------------------------------------------------------------------
(* Statistics *)

\* updateStatistics, called by an interval
UpdateStatistics(i) ==
    /\ i \in intervals /\ lastRequest < MaxRequest
    /\ lastRequest' = lastRequest + 1 /\ updating' = updating \cup {lastRequest'}
    /\ UNCHANGED <<topology, showStats, autoupdate, intervals, updateInterval, lastInterval,
                   drawing, bars>>

\* drawBars: what enters the selection is drawn, so bars that are there stay as they are
DrawBars(r) ==
    /\ r \in drawing /\ drawing' = drawing \ {r}
    /\ bars' = IF bars = NoBars THEN [heights |-> r, ingress |-> r, egress |-> r] ELSE bars
    /\ UNCHANGED <<topology, showStats, autoupdate, intervals, updateInterval, lastInterval,
                   updating, lastRequest>>

\* updateBars: bars that are there take the figures.  The text of egress has a child in
\* place of its class, and is not found.
UpdateBars(r) ==
    /\ r \in updating /\ updating' = updating \ {r}
    /\ bars' = IF bars = NoBars THEN bars ELSE [bars EXCEPT !.heights = r, !.ingress = r]
    /\ UNCHANGED <<topology, showStats, autoupdate, intervals, updateInterval, lastInterval,
                   drawing, lastRequest>>

\* An alert, or a reply without stats
StatisticsFail(r) ==
    /\ r \in drawing \cup updating
    /\ drawing' = drawing \ {r} /\ updating' = updating \ {r}
    /\ UNCHANGED <<topology, showStats, autoupdate, intervals, updateInterval, lastInterval,
                   lastRequest, bars>>

-----------------------------------------------------------------------------
VcfInit ==
    /\ topology = "none" /\ showStats = FALSE /\ autoupdate = FALSE
    /\ intervals = {} /\ updateInterval = 0 /\ lastInterval = 0
    /\ drawing = {} /\ updating = {} /\ lastRequest = 0 /\ bars = NoBars

VcfNext ==
    \/ \E b \in BOOLEAN : ShowTopology(b) \/ TopologyReplied(b)
    \/ DisplayStatistics \/ HideStatistics \/ ChangeAutoupdate
    \/ \E i \in intervals : UpdateStatistics(i)
    \/ \E r \in drawing : DrawBars(r)
    \/ \E r \in updating : UpdateBars(r)
    \/ \E r \in drawing \cup updating : StatisticsFail(r)

-----------------------------------------------------------------------------
(* What the app promises *)

VcfTypeOK ==
    /\ topology \in {"none", "asked", "drawn", "alert"}
    /\ showStats \in BOOLEAN /\ autoupdate \in BOOLEAN
    /\ lastInterval \in 0..MaxInterval /\ updateInterval \in 0..lastInterval
    /\ intervals \subseteq 1..lastInterval
    /\ lastRequest \in 0..MaxRequest /\ drawing \cup updating \subseteq 1..lastRequest
    /\ bars \in [{"heights", "ingress", "egress"} -> 0..lastRequest]

\* Two controls set and clear the interval, each without a look at the other's state: one
\* interval runs while statistics are shown and the box is checked, and none at other times.
OneInterval == Cardinality(intervals) = IF showStats /\ autoupdate THEN 1 ELSE 0

=============================================================================
