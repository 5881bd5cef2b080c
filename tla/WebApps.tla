------------------------------ MODULE WebApps ------------------------------
(***************************************************************************)
(* The loader of command files and the apps it loads.  As in WebPage a     *)
(* behaviour is one of some part, the `scene`: the apps know nothing of    *)
(* each other.                                                             *)
(***************************************************************************)
EXTENDS Loader, MonitorInterface, Vcf, MapMplsLsp, LspView, AppManager

VARIABLE scene

Scene == {"loader", "monitor", "vcf", "map", "view", "manager"}

appsVars ==
    <<scene, loaderVars, monitorVars, vcfVars, mapVars, lspViewVars, appManagerVars>>

AppsInit ==
    /\ scene \in Scene
    /\ LoaderInit /\ MonitorInit /\ VcfInit /\ MapInit /\ LspViewInit /\ AppManagerInit
    /\ scene # "view" => located = {}

AppsNext ==
    /\ UNCHANGED scene
    /\ \/ /\ scene = "loader" /\ LoaderNext
          /\ UNCHANGED <<monitorVars, vcfVars, mapVars, lspViewVars, appManagerVars>>
       \/ /\ scene = "monitor" /\ MonitorNext
          /\ UNCHANGED <<loaderVars, vcfVars, mapVars, lspViewVars, appManagerVars>>
       \/ /\ scene = "vcf" /\ VcfNext
          /\ UNCHANGED <<loaderVars, monitorVars, mapVars, lspViewVars, appManagerVars>>
       \/ /\ scene = "map" /\ MapNext
          /\ UNCHANGED <<loaderVars, monitorVars, vcfVars, lspViewVars, appManagerVars>>
       \/ /\ scene = "view" /\ LspViewNext
          /\ UNCHANGED <<loaderVars, monitorVars, vcfVars, mapVars, appManagerVars>>
       \/ /\ scene = "manager" /\ AppManagerNext
          /\ UNCHANGED <<loaderVars, monitorVars, vcfVars, mapVars, lspViewVars>>

\* The loader's actions are fair: a browser runs the scripts it has asked for and
\* fires its timers, and the web server sends its list
OthersStay ==
    /\ scene = "loader" /\ UNCHANGED scene
    /\ UNCHANGED <<monitorVars, vcfVars, mapVars, lspViewVars, appManagerVars>>

Fairness ==
    /\ \A l \in Load : WF_appsVars(ListArrives(l) /\ OthersStay)
    /\ \A i \in Instances :
          /\ WF_appsVars(ScriptRuns(i) /\ OthersStay)
          /\ WF_appsVars(TimerFires(i) /\ OthersStay)
          /\ \A p \in Prereq : WF_appsVars(PrereqRuns(i, p) /\ OthersStay)

Spec == AppsInit /\ [][AppsNext]_appsVars /\ Fairness

\* The type invariants of all parts, each of whatever its own actions make of it
AppsTypeOK ==
    /\ scene \in Scene
    /\ LoaderTypeOK /\ MonitorTypeOK /\ VcfTypeOK /\ MapTypeOK /\ LspViewTypeOK
    /\ AppManagerTypeOK

=============================================================================
