----------------------------- MODULE AppManager -----------------------------
(***************************************************************************)
(* Installing and updating apps (web/apps/app-manager: app-manager.js, and *)
(* its script on the server, py/app-manager.py).                           *)
(*                                                                         *)
(* Each AJAX request runs the script as a process of its own.  Processes   *)
(* that install keep each other out by a lock file; one that finds it      *)
(* answers "wait", and the page asks every two seconds whether it is gone. *)
(***************************************************************************)
EXTENDS Naturals, FiniteSets

CONSTANTS
    App,      \* apps
    Pane,     \* views of the app manager
    MaxAjax   \* bound: requests

ASSUME AppManagerAssumption == MaxAjax \in Nat

Ajax == 1..MaxAjax

VARIABLES
    appState,   \* of each pane: "none", "loading", "waiting", "success" or "error", and the app
    lastAjax,   \* requests sent
    ajax,       \* each request: its pane, kind, app, timer that sent it, state of its process,
                \* and whether the page waits for its answer
    waiting,    \* the intervals that run, by the request that was told to wait
    reloading,  \* requests whose app is being reloaded (Loader)
    lock,       \* install.lock exists
    appDir      \* what the server's disk has of each app: "none", a "part" of it, the "whole",
                \* or a part of what was whole before, "wiped"

appManagerVars == <<appState, lastAjax, ajax, waiting, reloading, lock, appDir>>

NoAjax == [pane |-> "none", kind |-> "none", app |-> "none", timer |-> 0, process |-> "none",
           listens |-> FALSE]

Is(i, kind, process) == ajax[i].kind = kind /\ ajax[i].process = process

Shows(i, is) == appState' = [appState EXCEPT ![ajax[i].pane] = [is |-> is, app |-> ajax[i].app]]

-----------------------------------------------------------------------------
(* The page *)

\* doAjax, after one request's answer has arrived if there is one
Send(pane, kind, app, timer, after) ==
    /\ lastAjax < MaxAjax
    /\ lastAjax' = lastAjax + 1
    /\ ajax' = [after EXCEPT ![lastAjax'] =
                   [pane |-> pane, kind |-> kind, app |-> app, timer |-> timer,
                    process |-> "sent", listens |-> TRUE]]

\* The install button, which is never disabled, and "install app"
InstallApp(pane, app) ==
    /\ appState[pane].is # "success"
    /\ Send(pane, "install", app, 0, ajax)
    /\ appState' = [appState EXCEPT ![pane] = [is |-> "loading", app |-> app]]
    /\ UNCHANGED <<waiting, reloading, lock, appDir>>

\* The same button after an installation
InstallAnother(pane) ==
    /\ appState[pane].is = "success"
    /\ appState' = [appState EXCEPT ![pane] = [is |-> "none", app |-> "none"]]
    /\ UNCHANGED <<lastAjax, ajax, waiting, reloading, lock, appDir>>

\* "update app"
UpdateApp(pane, app) ==
    /\ appState[pane].is = "none"
    /\ Send(pane, "update", app, 0, ajax)
    /\ appState' = [appState EXCEPT ![pane] = [is |-> "loading", app |-> app]]
    /\ UNCHANGED <<waiting, reloading, lock, appDir>>

\* The interval asks, whether or not it was answered the last time
CheckInstallLock(w) ==
    /\ w \in waiting
    /\ Send(ajax[w].pane, "check", ajax[w].app, w, ajax)
    /\ UNCHANGED <<appState, waiting, reloading, lock, appDir>>

Over == [i \in Ajax |-> [ajax EXCEPT ![i].process = "over", ![i].listens = FALSE]]

\* A mutant of Success: whatever is no error
SuccessUnlessError(i) == ajax[i].process \in {"success", "uptodate", "wait"}

Success(i) == ajax[i].process \in {"success", "uptodate"}

\* The callback of getInstallCb and of "update app": success, and the app is reloaded
Succeeded(i) ==
    /\ ajax[i].listens /\ ajax[i].kind \in {"install", "update"} /\ Success(i)
    /\ IF ajax[i].process = "uptodate"
       THEN Shows(i, "success") /\ UNCHANGED reloading
       ELSE reloading' = reloading \cup {i} /\ UNCHANGED appState
    /\ ajax' = Over[i]
    /\ UNCHANGED <<lastAjax, waiting, lock, appDir>>

\* $.clira.reloadApp is done
AppReloaded(i) ==
    /\ i \in reloading /\ reloading' = reloading \ {i}
    /\ Shows(i, "success")
    /\ UNCHANGED <<lastAjax, ajax, waiting, lock, appDir>>

\* The callback of getInstallCb: wait
ToldToWait(i) ==
    /\ ajax[i].listens /\ Is(i, "install", "wait")
    /\ Shows(i, "waiting") /\ waiting' = waiting \cup {i}
    /\ ajax' = Over[i]
    /\ UNCHANGED <<lastAjax, reloading, lock, appDir>>

\* setError, for what the script says; checks have no such answer
ToldError(i) ==
    /\ ajax[i].listens /\ ajax[i].process = "error"
    /\ Shows(i, "error") /\ ajax' = Over[i]
    /\ UNCHANGED <<lastAjax, waiting, reloading, lock, appDir>>

\* The callback of checkInstallLock; the interval may be cleared already
LockIsGone(i) ==
    /\ ajax[i].listens /\ Is(i, "check", "success")
    /\ waiting' = waiting \ {ajax[i].timer}
    /\ Send(ajax[i].pane, "install", ajax[i].app, 0, Over[i])
    /\ Shows(i, "loading")
    /\ UNCHANGED <<reloading, lock, appDir>>

LockIsThere(i) ==
    /\ ajax[i].listens /\ Is(i, "check", "wait")
    /\ ajax' = Over[i]
    /\ UNCHANGED <<appState, lastAjax, waiting, reloading, lock, appDir>>

\* onErrorCb: the request fails or takes more than ten seconds; its process goes on
AjaxFails(i) ==
    /\ ajax[i].listens
    /\ ajax' = [ajax EXCEPT ![i].listens = FALSE]
    /\ Shows(i, "error")
    /\ UNCHANGED <<lastAjax, waiting, reloading, lock, appDir>>

-----------------------------------------------------------------------------
(* The server *)

Becomes(i, process) == ajax' = [ajax EXCEPT ![i].process = process]
PageStays == UNCHANGED <<appState, lastAjax, waiting, reloading>>

\* getInstallLock looks for the file, and then makes it
LooksForLock(i) ==
    /\ Is(i, "install", "sent")
    /\ Becomes(i, IF lock THEN "wait" ELSE "free")
    /\ PageStays /\ UNCHANGED <<lock, appDir>>

MakesLock(i) ==
    /\ Is(i, "install", "free")
    /\ Becomes(i, "holds") /\ lock' = TRUE
    /\ PageStays /\ UNCHANGED appDir

\* The end of an installation, and clearInstallLock, which removes the file whoever has
\* made it
Ends(i, process, left) ==
    /\ Becomes(i, process)
    /\ appDir' = [appDir EXCEPT ![ajax[i].app] = left]
    /\ lock' = FALSE
    /\ PageStays

\* installFromDisk and installFromGithub: an app that has a directory is an error; the first
\* leaves what it has copied when it fails, the second nothing
Installs(i, able) ==
    /\ Is(i, "install", "holds")
    /\ LET left == appDir[ajax[i].app]
       IN IF able /\ left = "none" THEN Ends(i, "success", "whole")
          ELSE Ends(i, "error", left) \/ (left = "none" /\ Ends(i, "error", "part"))

\* installFromWebServer removes the app and makes its directory anew; then it fails, as
\* updateAppMetaFile writes to another directory, that nobody has made
InstallsFromWeb(i) ==
    /\ Is(i, "install", "holds")
    /\ Ends(i, "error", IF appDir[ajax[i].app] \in {"whole", "wiped"} THEN "wiped" ELSE "part")

\* updateApp takes no lock
Updates(i, answer) ==
    /\ Is(i, "update", "sent")
    /\ answer # "error" => appDir[ajax[i].app] = "whole"
    /\ Becomes(i, answer)
    /\ PageStays /\ UNCHANGED <<lock, appDir>>

\* checkInstallLock
Checks(i) ==
    /\ Is(i, "check", "sent")
    /\ Becomes(i, IF lock THEN "wait" ELSE "success")
    /\ PageStays /\ UNCHANGED <<lock, appDir>>

-----------------------------------------------------------------------------
AppManagerInit ==
    /\ appState = [p \in Pane |-> [is |-> "none", app |-> "none"]]
    /\ lastAjax = 0 /\ ajax = [i \in Ajax |-> NoAjax]
    /\ waiting = {} /\ reloading = {} /\ lock = FALSE
    /\ appDir = [a \in App |-> "none"]

AppManagerNext ==
    \/ \E pane \in Pane :
          \/ \E app \in App : InstallApp(pane, app) \/ UpdateApp(pane, app)
          \/ InstallAnother(pane)
    \/ \E i \in Ajax :
          \/ CheckInstallLock(i)
          \/ Succeeded(i) \/ AppReloaded(i) \/ ToldToWait(i) \/ ToldError(i)
          \/ LockIsGone(i) \/ LockIsThere(i) \/ AjaxFails(i)
          \/ LooksForLock(i) \/ MakesLock(i) \/ Checks(i) \/ InstallsFromWeb(i)
          \/ \E able \in BOOLEAN : Installs(i, able)
          \/ \E answer \in {"success", "uptodate", "error"} : Updates(i, answer)

-----------------------------------------------------------------------------
(* What the app manager promises *)

AppManagerTypeOK ==
    /\ \A p \in Pane : /\ appState[p].is \in {"none", "loading", "waiting", "success", "error"}
                       /\ appState[p].app \in App \cup {"none"}
    /\ lastAjax \in 0..MaxAjax /\ waiting \cup reloading \subseteq 1..lastAjax
    /\ \A i \in Ajax : ajax[i].process \in {"none", "sent", "free", "holds", "success",
                                            "uptodate", "wait", "error", "over"}
    /\ lock \in BOOLEAN /\ appDir \in [App -> {"none", "part", "whole", "wiped"}]

\* Whatever else the pane has asked for, and whatever it was told before, it says that an
\* app is installed or updated only when all of the app is there (getInstallCb), unless an
\* installation from a web server has removed it again.
SuccessIsInstalled ==
    \A p \in Pane :
        appState[p].is = "success" => appDir[appState[p].app] \in {"whole", "wiped"}

=============================================================================
