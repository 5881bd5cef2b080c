------------------------------ MODULE WebPage ------------------------------
(***************************************************************************)
(* The parts of the page: the command line and its parser, containers of   *)
(* outputs, commands and configurations on devices, forms, preferences.    *)
(*                                                                         *)
(* They share no variable but the muxer, which Commands has, so it is      *)
(* enough to see each by itself: a behaviour is one of some part, the      *)
(* `scene`, and the other parts are as they were when the page was loaded. *)
(***************************************************************************)
EXTENDS Parser, Outputs, Commands, Configure, Form, Prefs

VARIABLE scene

Scene == {"parser", "outputs", "commands", "configure", "form", "prefs"}

pageVars == <<scene, parserVars, outputsVars, commandVars, configureVars, formVars, prefsVars>>

\* Only the scenes that start in several ways need their choice
PageInit ==
    /\ scene \in Scene
    /\ ParserInit /\ OutputsInit /\ CommandsInit /\ ConfigureInit /\ FormInit /\ PrefsInit
    /\ scene # "parser"  => commands = CHOOSE c \in CommandSets : TRUE
    /\ scene # "outputs" => history = <<>>

PageNext ==
    /\ UNCHANGED scene
    /\ \/ /\ scene = "parser" /\ ParserNext
          /\ UNCHANGED <<outputsVars, commandVars, configureVars, formVars, prefsVars>>
       \/ /\ scene = "outputs" /\ OutputsNext
          /\ UNCHANGED <<parserVars, commandVars, configureVars, formVars, prefsVars>>
       \/ /\ scene = "commands" /\ CommandsNext
          /\ UNCHANGED <<parserVars, outputsVars, configureVars, formVars, prefsVars>>
       \/ /\ scene = "configure" /\ ConfigureNext
          /\ UNCHANGED <<parserVars, outputsVars, commandVars, formVars, prefsVars>>
       \/ /\ scene = "form" /\ FormNext
          /\ UNCHANGED <<parserVars, outputsVars, commandVars, configureVars, prefsVars>>
       \/ /\ scene = "prefs" /\ PrefsNext
          /\ UNCHANGED <<parserVars, outputsVars, commandVars, configureVars, formVars>>

Spec == PageInit /\ [][PageNext]_pageVars

\* The type invariants of all parts, each of whatever its own actions make of it
PageTypeOK ==
    /\ scene \in Scene
    /\ ParserTypeOK /\ OutputsTypeOK /\ CommandsTypeOK /\ ConfigureTypeOK /\ FormTypeOK
    /\ PrefsTypeOK

=============================================================================
