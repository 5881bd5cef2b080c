----------------------------- MODULE PageClaims -----------------------------
(***************************************************************************)
(* What comments of the page's code say of it and what the program does    *)
(* not do.  TLC finds each of these violated in the instance of MCWebPage, *)
(* with Configure's operations pasted into panes for PasteStaysWithPane.   *)
(***************************************************************************)
EXTENDS MCWebPage

\* parser.js: postProcess is to "remove matches that simply don't make sense": a reading is
\* dropped as seen before only when one with its values is shown.
ParseLosesNothing ==
    [][parsePhase' = "parsed" /\ parsePhase = "typing" =>
          \A p \in Range(possibilities) :
             AllNokeyword(p) \/ \E q \in Range(possibilities') :
                 q.command = p.command /\ Data(q) = Data(p)]_parserVars

\* controllers.js: close of a failed command toggles "the output container associated with
\* the failed commandNumber".
CloseHidesOwn == \A t \in toggled : t[1] = t[2]

\* clira.js: the "first argument to callback is status which is true when load succeded
\* and false when failure".
StatusTellsLoad ==
    \A o \in Op : Kind(o) = "load" /\ Contains(configHeard[o], TRUE) =>
        verdict[<<o, "load">>] = "taken"

\* configuration.js: the target is the "Remote taget to load configuration to"; what is
\* pasted into its pane goes nowhere else.
PasteStaysWithPane ==
    \A o \in Op, s \in Step :
        Pasted(o) => rpcTarget[<<o, s>>] \in {NoDevice, operation[o].device}

\* views.js: a button with validate is "enabled only when there are no errors in the form".
EnabledOnlyWithoutErrors ==
    formPhase = "shown" /\ Enabled =>
        \A f \in fields : /\ fieldErrors[f] = {}
                          /\ ~ (Described[f].range /\ fieldValue[f] \in {"short", "bad"})

\* views.js: what the user modifies in a form is "captured in fieldValues" and "can be
\* retrieved from viewContext": Save stores what its own form shows.
SaveStoresOwn ==
    [][\A c \in Pane : Save(c) =>
          \A p \in DOMAIN fieldValues[c] : stored'[p] = fieldValues[c][p]]_prefsVars

=============================================================================
