-------------------------- MODULE MonitorInterface --------------------------
(***************************************************************************)
(* The app that monitors an interface (web/apps/monitor-interface).        *)
(*                                                                         *)
(* fetchInterfaceStats asks the device for the counters of an interface    *)
(* and arms a timer that calls it again.  The replies take their time: one *)
(* may come when the timer has fired again, or when the user has chosen    *)
(* another interface.  A call is known by its number, and so are the RPC   *)
(* it sent and the timer it armed.  The interval is the unit of time.      *)
(***************************************************************************)
EXTENDS Naturals, FiniteSets, FiniteSetsExt

CONSTANTS
    Interface,  \* what the device has
    FirstOf,    \* the one a list of the physical interface of each begins with
    MaxBytes,   \* bound: the counters of traffic
    MaxFetch    \* bound: calls of fetchInterfaceStats

ASSUME MonitorAssumption ==
    /\ {"all", "none"} \cap Interface = {} /\ {MaxBytes, MaxFetch} \subseteq Nat
    /\ FirstOf \in [Interface \cup {"all"} -> Interface]

VARIABLES
    panel,        \* the part of its template the view shows: "none" before the app is started,
                  \* "loading", "content", "error"
    figuresOf,    \* the interface whose figures it shows, "none" if it shows none
    currName,     \* currInterface.name, "none" before the app is started
    ifdList,      \* the list of interfaces is there
    listing,      \* fetchInterfaceList has asked for it
    currTraffic,  \* the traffic of currInterface.ifd or .ifl: NoneYet, Unknown if the reply
                  \* had none, or bytes, peak and average rate in each direction
    fetchCount,
    asked,        \* the RPCs that are not answered, with the interface each asks about
    armed,        \* the timers that are armed, likewise
    timeoutId,
    fetches       \* calls of fetchInterfaceStats

monitorVars == <<panel, figuresOf, currName, ifdList, listing, currTraffic, fetchCount, asked,
                 armed, timeoutId, fetches>>

Direction == {"ingress", "egress"}
NoneYet == [is |-> "none"]
Unknown == [is |-> "unknown"]

\* isIfl
IsIfl(name) == FirstOf[name] # name

-----------------------------------------------------------------------------
(* Asking *)

Fetches(n, name) == [fetch |-> n, name |-> name]

\* A mutant of Cleared: the timer that is armed goes on
ClearedNone(timers) == timers

\* resetAppTimer
Cleared(timers) == {t \in timers : t.fetch # timeoutId}

\* A mutant of FetchStats: it leaves resetting to those who call it
FetchStatsBeside(name, timers) ==
    /\ fetches < MaxFetch
    /\ fetches'   = fetches + 1
    /\ asked'     = asked \cup {Fetches(fetches', name)}
    /\ armed'     = timers \cup {Fetches(fetches', name)}
    /\ timeoutId' = fetches'
    /\ currName'  = name

\* fetchInterfaceStats, called when some timers are armed
FetchStats(name, timers) ==
    /\ fetches < MaxFetch
    /\ fetches'   = fetches + 1
    /\ asked'     = asked \cup {Fetches(fetches', name)}
    /\ armed'     = Cleared(timers) \cup {Fetches(fetches', name)}
    /\ timeoutId' = fetches'
    /\ currName'  = name

\* init: the physical interface of a logical one is listed before the fetch
StartMonitor(name) ==
    /\ currName = "none" /\ panel' = "loading"
    /\ IF name # "all" /\ ~ IsIfl(name)
       THEN FetchStats(name, armed) /\ UNCHANGED listing
       ELSE /\ currName' = name /\ listing' = TRUE
            /\ UNCHANGED <<asked, armed, timeoutId, fetches>>
    /\ UNCHANGED <<figuresOf, ifdList, currTraffic, fetchCount>>

\* The timer that fires is armed no more
MonitorTimer(t) ==
    /\ t \in armed
    /\ FetchStats(t.name, armed \ {t})
    /\ UNCHANGED <<panel, figuresOf, ifdList, listing, currTraffic, fetchCount>>

\* onInterfaceChange.  hasInterfaceChanged is FALSE again before any reply can look at it.
\* currName is "none" in between.
ChangeInterface(name) ==
    /\ panel = "content" /\ ifdList /\ name # currName
    /\ FetchStats(name, armed)
    /\ figuresOf' = "none" /\ currTraffic' = NoneYet
    /\ UNCHANGED <<panel, ifdList, listing, fetchCount>>

-----------------------------------------------------------------------------
(* Replies *)

\* A mutant of Chosen: "all" is taken for a name
ChosenAsIs(name) == name

\* Of all interfaces the first of the list
Chosen(name) == IF name = "all" THEN FirstOf["all"] ELSE name

\* The callback of fetchInterfaceList
ListReplied ==
    /\ listing /\ listing' = FALSE /\ ifdList' = TRUE
    /\ FetchStats(Chosen(currName), armed)
    /\ UNCHANGED <<panel, figuresOf, currTraffic, fetchCount>>

ShowError ==
    /\ panel' = "error" /\ figuresOf' = "none"
    /\ armed' = Cleared(armed)

\* An error-message from the device
ListError ==
    /\ listing /\ listing' = FALSE
    /\ ShowError
    /\ UNCHANGED <<currName, ifdList, currTraffic, fetchCount, asked, timeoutId, fetches>>

\* The RPC failed: parseRPC is called before isError and throws on what it is given
ListFailed ==
    /\ listing /\ listing' = FALSE
    /\ UNCHANGED <<panel, figuresOf, currName, ifdList, currTraffic, fetchCount, asked, armed,
                   timeoutId, fetches>>

Answered(r) == r \in asked /\ asked' = asked \ {r}

StatsError(r) ==
    /\ Answered(r) /\ ShowError
    /\ UNCHANGED <<currName, ifdList, listing, currTraffic, fetchCount, timeoutId, fetches>>

\* The RPC failed, or the reply has not what the type of the interface asks for
StatsUnused(r) ==
    /\ Answered(r)
    /\ UNCHANGED <<panel, figuresOf, currName, ifdList, listing, currTraffic, fetchCount, armed,
                   timeoutId, fetches>>

\* A mutant of AverageRate: one sample too few in the sum
AverageRateShort(oldAvg, newValue, sampleSz) ==
    (2 * (oldAvg * (sampleSz + 1) + 100 * newValue) + sampleSz + 1) \div (2 * (sampleSz + 1))

\* getAverageRate, in hundredths as toFixed(2) leaves it
AverageRate(oldAvg, newValue, sampleSz) ==
    (2 * (oldAvg * sampleSz + 100 * newValue) + sampleSz + 1) \div (2 * (sampleSz + 1))

Current(d, bytes) ==
    IF bytes[d] > currTraffic.bytes[d] THEN bytes[d] - currTraffic.bytes[d] ELSE 0

\* fetchCount as each direction finds it: ingress comes first, and both count from 0
\* again when one of them has no average
CountOf(d, bytes) ==
    IF \E e \in {"ingress", d} : Current(e, bytes) > 0 /\ currTraffic.average[e] = 0
    THEN 0 ELSE fetchCount + 1

\* getTrafficInfo; an interval without traffic leaves no average
TrafficInfo(bytes) ==
    IF currTraffic = NoneYet
    THEN [is |-> "known", bytes |-> bytes, peak |-> [d \in Direction |-> 0],
          average |-> [d \in Direction |-> 0]]
    ELSE [is |-> "known", bytes |-> bytes,
          peak    |-> [d \in Direction |-> Max({currTraffic.peak[d], Current(d, bytes)})],
          average |-> [d \in Direction |->
                          IF Current(d, bytes) = 0 THEN 0
                          ELSE AverageRate(currTraffic.average[d], Current(d, bytes),
                                           CountOf(d, bytes))]]

\* getIfd finds nothing in the reply about a logical interface, and getIfl the first
\* logical interface of a physical one, if it has any
HasWanted(r) ==
    IF IsIfl(currName) THEN IsIfl(r.name) \/ \E i \in Interface : IsIfl(i) /\ FirstOf[i] = r.name
    ELSE ~ IsIfl(r.name)

\* The callback of fetchInterfaceStats.  The first reply brings a list if there is none.
StatsReplied(r, bytes) ==
    /\ Answered(r) /\ HasWanted(r) /\ currTraffic # Unknown
    /\ currTraffic' = TrafficInfo(bytes)
    /\ fetchCount'  = IF currTraffic = NoneYet THEN fetchCount ELSE CountOf("egress", bytes)
    /\ panel' = "content" /\ figuresOf' = r.name /\ ifdList' = TRUE
    /\ UNCHANGED <<currName, listing, armed, timeoutId, fetches>>

\* A reply without traffic-statistics
StatsWithoutTraffic(r) ==
    /\ Answered(r) /\ HasWanted(r)
    /\ currTraffic' = Unknown
    /\ panel' = "content" /\ figuresOf' = r.name /\ ifdList' = TRUE
    /\ UNCHANGED <<currName, listing, fetchCount, armed, timeoutId, fetches>>

\* After one of those getTrafficInfo throws on its null, once the count is up
StatsThrows(r) ==
    /\ Answered(r) /\ HasWanted(r) /\ currTraffic = Unknown
    /\ fetchCount' = fetchCount + 1
    /\ UNCHANGED <<panel, figuresOf, currName, ifdList, listing, currTraffic, armed, timeoutId,
                   fetches>>

-----------------------------------------------------------------------------
MonitorInit ==
    /\ panel = "none" /\ figuresOf = "none" /\ currName = "none"
    /\ ifdList = FALSE /\ listing = FALSE
    /\ currTraffic = NoneYet /\ fetchCount = 0
    /\ asked = {} /\ armed = {} /\ timeoutId = 0 /\ fetches = 0

MonitorNext ==
    \/ \E name \in Interface \cup {"all"} : StartMonitor(name)
    \/ \E name \in Interface : ChangeInterface(name)
    \/ \E t \in armed : MonitorTimer(t)
    \/ ListReplied \/ ListError \/ ListFailed
    \/ \E r \in asked :
          \/ StatsError(r) \/ StatsUnused(r) \/ StatsWithoutTraffic(r) \/ StatsThrows(r)
          \/ \E bytes \in [Direction -> 0..MaxBytes] : StatsReplied(r, bytes)

-----------------------------------------------------------------------------
(* What the monitor promises *)

MonitorTypeOK ==
    /\ panel \in {"none", "loading", "content", "error"}
    /\ figuresOf \in Interface \cup {"none"} /\ currName \in Interface \cup {"all", "none"}
    /\ ifdList \in BOOLEAN /\ listing \in BOOLEAN
    /\ fetches \in 0..MaxFetch /\ timeoutId \in 0..fetches /\ fetchCount \in 0..MaxFetch
    /\ \A r \in asked \cup armed : r.fetch \in 1..fetches /\ r.name \in Interface

\* Changing the interface, late replies and slow devices start no second loop: at most one
\* timer is armed, the one resetAppTimer can clear, and it asks about the current interface.
OneLoop == \A t \in armed : t.fetch = timeoutId /\ t.name = currName

\* A device that answers with an error is asked no more (fetchInterfaceStats), whichever of
\* the fetches that are under way it is the answer to.
ErrorStops == panel = "error" => armed = {}

\* The average of a direction lies between nothing and its peak, although the count of
\* samples is shared with the other direction and starts again with it (getTrafficInfo).
AverageBelowPeak ==
    currTraffic.is = "known" =>
        \A d \in Direction : currTraffic.average[d] <= 100 * currTraffic.peak[d]

=============================================================================
