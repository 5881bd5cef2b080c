------------------------------ MODULE LspView ------------------------------
(***************************************************************************)
(* What the app of MapMplsLsp shows when the names are known: a line on a  *)
(* map, whose points wait for a geocoder, and for every host a modal       *)
(* dialog with statistics that are fetched every three seconds.            *)
(***************************************************************************)
EXTENDS Naturals, Sequences, FiniteSets, SequencesExt, Functions

CONSTANTS
    Host,       \* the hosts in the graph
    MaxHop,     \* bound: locations of the LSP
    MaxHopStats \* bound: fetches of interface statistics

ASSUME LspViewAssumption == {MaxHop, MaxHopStats} \subseteq Nat

VARIABLES
    located,    \* the locations of the LSP that have coordinates
    order,      \* those whose address is known, as the geocoder answered
    drawn,      \* the points of the line on the map, 0 for undefined
    dialog,     \* the host whose dialog is open, or "none"
    polledHosts, \* the hosts that intervals fetch statistics of
    stats,      \* fetches of statistics under way
    lastStats,  \* fetches of statistics
    routerInfo  \* the host the dialog shows statistics of, or "none"

drawVars    == <<located, order, drawn>>
dialogVars  == <<dialog, polledHosts, stats, lastStats, routerInfo>>
lspViewVars == <<drawVars, dialogVars>>

-----------------------------------------------------------------------------
(* The map *)

\* The callback of fetchAddressFromCoordinates for location j: its point is added to the path
Geocoded(j) ==
    /\ j \in located /\ ~ Contains(order, j)
    /\ order' = Append(order, j)
    /\ UNCHANGED <<located, drawn, dialogVars>>

\* A mutant of PathOf: as the answers came
PathOfAnswers == order

\* path[order.indexOf(i)]: location order[k] has the point path[k], and what indexOf does
\* not find is undefined
PathOf ==
    LET indexOf(i) == SelectInSeq(order, LAMBDA j : j = i)
    IN  [i \in 1..Len(order) |-> IF indexOf(i) = 0 THEN 0 ELSE order[indexOf(i)]]

\* generateMap, by a button
GenerateMap ==
    /\ order # <<>> /\ dialog = "none"
    /\ drawn' = PathOf
    /\ UNCHANGED <<located, order, dialogVars>>

-----------------------------------------------------------------------------
(* The dialog of a host *)

\* The handler of selectNode; the dialog is modal
SelectNode(a) ==
    /\ dialog = "none"
    /\ dialog' = a /\ polledHosts' = polledHosts \cup {a} /\ routerInfo' = "none"
    /\ UNCHANGED <<drawVars, stats, lastStats>>

\* Its Close button
CloseDialog ==
    /\ dialog # "none" /\ dialog' = "none"
    /\ polledHosts' = polledHosts \ {dialog} /\ routerInfo' = "none"
    /\ UNCHANGED <<drawVars, stats, lastStats>>

\* getInterfaceStats, by the interval
FetchInterfaceStats(a) ==
    /\ a \in polledHosts /\ lastStats < MaxHopStats
    /\ lastStats' = lastStats + 1
    /\ stats' = stats \cup {[fetch |-> lastStats', host |-> a]}
    /\ UNCHANGED <<drawVars, dialog, polledHosts, routerInfo>>

\* Its callback, which does not look whose dialog is open
GotInterfaceStats(s, success) ==
    /\ s \in stats /\ stats' = stats \ {s}
    /\ routerInfo' = IF success THEN s.host ELSE routerInfo
    /\ UNCHANGED <<drawVars, dialog, polledHosts, lastStats>>

-----------------------------------------------------------------------------
LspViewInit ==
    /\ located \in SUBSET (1..MaxHop) /\ order = <<>> /\ drawn = <<>>
    /\ dialog = "none" /\ polledHosts = {} /\ stats = {} /\ lastStats = 0 /\ routerInfo = "none"

LspViewNext ==
    \/ \E j \in 1..MaxHop : Geocoded(j)
    \/ GenerateMap
    \/ \E a \in Host : SelectNode(a) \/ FetchInterfaceStats(a)
    \/ CloseDialog
    \/ \E s \in stats, success \in BOOLEAN : GotInterfaceStats(s, success)

-----------------------------------------------------------------------------
(* What the map promises *)

LspViewTypeOK ==
    /\ located \subseteq 1..MaxHop /\ Range(order) \subseteq located
    /\ Range(drawn) \subseteq 0..MaxHop
    /\ {dialog, routerInfo} \subseteq Host \cup {"none"} /\ polledHosts \subseteq Host
    /\ lastStats \in 0..MaxHopStats

\* The points of the line come in the order of the LSP, in whatever order the geocoder has
\* answered: none is in the place of another (generateMap).
LineFollowsLsp == \A i \in DOMAIN drawn : drawn[i] \in {0, i}

=============================================================================
