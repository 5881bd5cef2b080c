------------------------------- MODULE Loader -------------------------------
(***************************************************************************)
(* Loading of command files (web/core/parser.js: loadCommandFiles,         *)
(* reloadApp, loadFile, commandFile; app.js and builtins.js call them).    *)
(*                                                                         *)
(* A command file is a script of an app that registers commands; it may    *)
(* need other scripts (prereqs) first.  All of them are loaded at the same *)
(* time by script elements, and one boolean, $.clira.commandLoading, tells *)
(* the loads whether a file is still waiting for its prereqs.              *)
(*                                                                         *)
(* A file that is loaded again is another program: instance <<l, f>> is    *)
(* file f as load l brought it.                                            *)
(***************************************************************************)
EXTENDS Naturals, Sequences, FiniteSets, SequencesExt, Functions

CONSTANTS
    CommandFile,    \* command files the web server lists
    Prereq,         \* scripts they may need
    Prereqs,        \* the prereqs of each command file
    MaxLoad         \* bound: loads and reloads

ASSUME LoaderAssumption ==
    MaxLoad \in Nat \ {0} /\ Prereqs \in [CommandFile -> SUBSET Prereq]

Load      == 1..MaxLoad
Instances == Load \X CommandFile

VARIABLES
    lastLoad,        \* loads asked for
    loadState,       \* of each load: "none", "asked", "loading", "ignored", "failed", "done"
    wanted,          \* the files of each load
    scripts,         \* instances whose script is on its way
    prereqScripts,   \* <<instance, prereq>>: prereqs on their way
    prereqInDom,     \* prereqs that have a script element
    polling,         \* instances whose timer asks commandLoading
    commandLoading,
    commandFiles,    \* instances that are completely loaded, in that order
    commandsOf       \* instances whose commands are in $.clira.commands

loaderVars == <<lastLoad, loadState, wanted, scripts, prereqScripts, prereqInDom, polling,
                commandLoading, commandFiles, commandsOf>>

\* Deferreds of load l that are not resolved yet
Outstanding(l, ss, ps) == {i \in ss \cup ps : i[1] = l}

\* A load of all files whose list has come
ListArrived(l) == loadState[l] \in {"loading", "done"} /\ wanted[l] = CommandFile

NewLoad(state) ==
    /\ lastLoad < MaxLoad
    /\ lastLoad' = lastLoad + 1
    /\ loadState' = [loadState EXCEPT ![lastLoad'] = state]

-----------------------------------------------------------------------------
(* All files *)

\* loadCommandFiles for "reload commands", a command that the first list brings with it
\* (loadBuiltins)
LoadCommandFiles ==
    /\ \E l \in Load : ListArrived(l)
    /\ NewLoad("asked")
    /\ UNCHANGED <<wanted, scripts, prereqScripts, prereqInDom, polling, commandLoading,
                   commandFiles, commandsOf>>

\* The list arrives: everything is thrown away and every file is asked for.  Scripts
\* on their way for an earlier load still come.
ListArrives(l) ==
    /\ loadState[l] = "asked"
    /\ loadState'    = [loadState EXCEPT ![l] = "loading"]
    /\ commandsOf'   = {}
    /\ commandFiles' = <<>>
    /\ wanted'       = [wanted EXCEPT ![l] = CommandFile]
    /\ prereqInDom'  = {}
    /\ scripts'      = scripts \cup ({l} \X CommandFile)
    /\ UNCHANGED <<lastLoad, prereqScripts, polling, commandLoading>>

\* The list is empty, or does not arrive
ListIsNoUse(l) ==
    /\ loadState[l] = "asked"
    /\ \E s \in {"ignored", "failed"} : loadState' = [loadState EXCEPT ![l] = s]
    /\ UNCHANGED <<lastLoad, wanted, scripts, prereqScripts, prereqInDom, polling,
                   commandLoading, commandFiles, commandsOf>>

\* One file, of an app that the app manager installed or updated.  What leaves is the first entry
\* of commandFiles with its name, and not its commands.
ReloadApp(f) ==
    /\ commandsOf # {}
    /\ NewLoad("loading")
    /\ wanted' = [wanted EXCEPT ![lastLoad'] = {f}]
    /\ LET k == SelectInSeq(commandFiles, LAMBDA i : i[2] = f)
       IN  commandFiles' = IF k = 0 THEN commandFiles ELSE RemoveAt(commandFiles, k)
    /\ scripts' = scripts \cup {<<lastLoad', f>>}
    /\ UNCHANGED <<prereqScripts, prereqInDom, polling, commandLoading, commandsOf>>

-----------------------------------------------------------------------------
(* Events of the browser *)

\* A mutant of StillLoading: commandLoading is left set
StillLoadingAlways(needed) == TRUE

StillLoading(needed) == needed # {}

\* The script runs: commandFile adds its commands and asks for the prereqs that have
\* no script element yet.  Without any it is loaded.  Then its onload event.
ScriptRuns(i) ==
    /\ i \in scripts
    /\ scripts'    = scripts \ {i}
    /\ commandsOf' = commandsOf \cup {i}
    /\ LET needed == Prereqs[i[2]] \ prereqInDom
       IN  /\ prereqScripts'  = prereqScripts \cup ({i} \X needed)
           /\ prereqInDom'    = prereqInDom \cup needed
           /\ commandLoading' = StillLoading(needed)
           /\ commandFiles'   = IF needed = {} THEN Append(commandFiles, i) ELSE commandFiles
    /\ polling' = polling \cup {i}
    /\ UNCHANGED <<lastLoad, loadState, wanted>>

\* A prereq has run; the last one of an instance completes it
PrereqRuns(i, p) ==
    /\ <<i, p>> \in prereqScripts
    /\ prereqScripts' = prereqScripts \ {<<i, p>>}
    /\ IF \E q \in Prereq : <<i, q>> \in prereqScripts'
       THEN UNCHANGED <<commandFiles, commandLoading>>
       ELSE commandFiles' = Append(commandFiles, i) /\ commandLoading' = FALSE
    /\ UNCHANGED <<lastLoad, loadState, wanted, scripts, prereqInDom, polling, commandsOf>>

\* A timer sees that nothing is being loaded and resolves its file; with the last of
\* its load the load is done
TimerFires(i) ==
    /\ i \in polling /\ ~ commandLoading
    /\ polling' = polling \ {i}
    /\ loadState' = IF Outstanding(i[1], scripts, polling') = {}
                    THEN [loadState EXCEPT ![i[1]] = "done"] ELSE loadState
    /\ UNCHANGED <<lastLoad, wanted, scripts, prereqScripts, prereqInDom, commandLoading,
                   commandFiles, commandsOf>>

-----------------------------------------------------------------------------
\* app.js: the page starts with a load
LoaderInit ==
    /\ lastLoad = 1 /\ loadState = [l \in Load |-> IF l = 1 THEN "asked" ELSE "none"]
    /\ wanted = [l \in Load |-> {}]
    /\ scripts = {} /\ prereqScripts = {} /\ prereqInDom = {}
    /\ polling = {} /\ commandLoading = FALSE
    /\ commandFiles = <<>> /\ commandsOf = {}

BrowserLoads ==
    \/ \E l \in Load : ListArrives(l)
    \/ \E i \in Instances : ScriptRuns(i) \/ TimerFires(i)
    \/ \E i \in Instances, p \in Prereq : PrereqRuns(i, p)

LoaderNext ==
    \/ LoadCommandFiles
    \/ \E f \in CommandFile : ReloadApp(f)
    \/ \E l \in Load : ListIsNoUse(l)
    \/ BrowserLoads

-----------------------------------------------------------------------------
(* What loading promises *)

LoaderTypeOK ==
    /\ lastLoad \in Load
    /\ loadState \in [Load -> {"none", "asked", "loading", "ignored", "failed", "done"}]
    /\ wanted \in [Load -> SUBSET CommandFile]
    /\ UNION {scripts, polling, commandsOf} \subseteq Instances
    /\ prereqScripts \subseteq Instances \X Prereq /\ prereqInDom \subseteq Prereq
    /\ commandLoading \in BOOLEAN /\ commandFiles \in Seq(Instances)

\* A load ends, although one boolean serves all files of all loads
LoadsResolve == \A l \in Load : loadState[l] = "loading" ~> loadState[l] = "done"

=============================================================================
