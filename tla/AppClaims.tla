----------------------------- MODULE AppClaims -----------------------------
(***************************************************************************)
(* What comments of the loader and the apps say of them and what the       *)
(* program does not do.  TLC finds each of these violated in the instance  *)
(* of MCWebApps.                                                           *)
(***************************************************************************)
EXTENDS MCWebApps

\* parser.js: a load is resolved "only if we are done loading the commandFile".
DoneMeansLoaded ==
    \A l \in Load : loadState[l] = "done" /\ lastLoad = 1 =>
        {l} \X wanted[l] \subseteq Range(commandFiles)

\* parser.js: reloadApp clears "the command arrays if the app is already loaded".
ReloadReplaces ==
    \A l \in Load, f \in CommandFile :
        loadState[l] = "done" /\ wanted[l] = {f} /\ scripts = {} =>
            \A m \in Load : m < l => <<m, f>> \notin commandsOf

\* onInterfaceChange sets a flag "to let an existing fetchInterfaceStats routine know that
\* the interface selection has changed and it needs to return": the figures shown are those
\* of the interface that is chosen.
ShowsChosen == figuresOf \in {"none", currName}

\* hideStatistics "Removes ingress and egress bars from canvas": none are left while the
\* button says "Show Statistics".
HiddenHasNoBars == ~ showStats => bars = NoBars

\* updateBars "Finds and updates the data in statistics bars": bars and texts tell the same.
TextsTellBars == bars.ingress = bars.heights /\ bars.egress = bars.heights

\* getInterfaceNames "fetches the interface name of the device and populates the lookUpMap":
\* it calls back when every interface is there.
InterfacesBeforeMap == \A r \in Run : stage[r] = "shown" => naming[r] = {}

\* app-manager.py speaks of parallel installs as something to have "in the future", and
\* has a lock file for all: no two processes install at the same time.
OneInstaller == Cardinality({i \in Ajax : Is(i, "install", "holds")}) <= 1

=============================================================================
