------------------------------- MODULE Prefs -------------------------------
(***************************************************************************)
(* Preferences (web/core/clira.prefs.js, clira.prefs.views.js, models.js;  *)
(* views.js: DynFormView, which their form extends).                       *)
(*                                                                         *)
(* A preference is in localStorage and, for the page, in $.clira.prefs.    *)
(* The user opens dialogs, each in a container of its own, and from them   *)
(* forms; every form that is inserted puts itself in the global            *)
(* viewContext, which Save reads its values from.                          *)
(***************************************************************************)
EXTENDS Naturals, Sequences, FiniteSets, Functions

CONSTANTS
    Pref,        \* names of preferences
    PrefValue,   \* their values, of which "" is what an emptied field has
    Default,     \* by preference
    Pane,        \* containers that may show a form
    KnownDevice, \* devices the user may add
    NoPane,
    MaxEdit      \* bound: changes to fields

ASSUME PrefsAssumption ==
    /\ Default \in [Pref -> PrefValue \ {""}] /\ NoPane \notin Pane /\ MaxEdit \in Nat

VARIABLES
    stored,       \* Clira.Preference: what is saved
    prefs,        \* $.clira.prefs
    pane,         \* what each container shows: "none", "prefs" or another "form"
    fieldValues,  \* of its controller: the values of the form's fields that are not empty
    viewContext,  \* the global, by container
    entered,      \* what the user has entered for each preference and saved or may save
    edits,        \* changes to fields
    devicesAdded, \* rows the server has
    connectCheck, \* RpcService: the RPC that tries a device
    connectTold   \* what the dialog says of it: "none", "connecting", "successful", "not"

prefsVars == <<stored, prefs, pane, fieldValues, viewContext, entered, edits, devicesAdded,
               connectCheck, connectTold>>

CheckService == INSTANCE RpcService WITH Rpc <- KnownDevice, call <- connectCheck

NoValues == [p \in {} |-> ""]

-----------------------------------------------------------------------------
(* The page *)

\* The page is loaded, or loaded again, and prefsInit called: what is missing is saved,
\* then all is read
PrefsInitPage ==
    /\ stored' = [p \in Pref |-> IF p \in DOMAIN stored THEN stored[p] ELSE Default[p]]
    /\ prefs'  = stored'
    /\ pane' = [c \in Pane |-> "none"] /\ fieldValues' = [c \in Pane |-> NoValues]
    /\ viewContext' = NoPane
    /\ connectCheck' = [d \in KnownDevice |-> IF connectCheck[d] = "asked" THEN "close"
                                         ELSE connectCheck[d]]
    /\ connectTold' = [d \in KnownDevice |-> "none"]
    /\ UNCHANGED <<entered, edits, devicesAdded>>

-----------------------------------------------------------------------------
(* Forms *)

\* DynFormView.willInsertElement and didInsertElement
InsertFormOf(c, what, values) ==
    /\ pane' = [pane EXCEPT ![c] = what]
    /\ fieldValues' = [fieldValues EXCEPT ![c] = values]
    /\ viewContext' = c
    /\ UNCHANGED <<stored, prefs, entered, edits, devicesAdded, connectCheck, connectTold>>

\* PreferencesDialog.generalPref
GeneralPref(c) == prefs # NoValues /\ pane[c] = "none" /\ InsertFormOf(c, "prefs", stored)

\* A form of a command, or the question for a password
OtherForm(c) == prefs # NoValues /\ pane[c] = "none" /\ InsertFormOf(c, "form", NoValues)

With(values, p, v) == [q \in (DOMAIN values) \cup {p} |-> IF q = p THEN v ELSE values[q]]

\* A mutant of Changed: an empty field has an empty value
ChangedToEmpty(values, p, v) == With(values, p, v)

\* An empty field has no value
Changed(values, p, v) ==
    IF v = "" THEN Restrict(values, (DOMAIN values) \ {p}) ELSE With(values, p, v)

\* valueChange of a field
EditField(c, p, v) ==
    /\ pane[c] = "prefs" /\ edits < MaxEdit
    /\ edits' = edits + 1
    /\ fieldValues' = [fieldValues EXCEPT ![c] = Changed(@, p, v)]
    /\ entered' = [entered EXCEPT ![p] = @ \cup {v}]
    /\ UNCHANGED <<stored, prefs, pane, viewContext, devicesAdded, connectCheck, connectTold>>

\* A mutant of Kept: the page's preferences are replaced by what is saved
KeptNothing(old, values) == values

\* What the values saved leave of those there were
Kept(old, values) == [p \in DOMAIN old |-> IF p \in DOMAIN values THEN values[p] ELSE old[p]]

\* Save
Save(c) ==
    /\ pane[c] = "prefs"
    /\ LET values == fieldValues[viewContext]
       IN /\ stored' = [p \in Pref |-> IF p \in DOMAIN values THEN values[p] ELSE stored[p]]
          /\ prefs'  = Kept(prefs, values)
    /\ pane' = [pane EXCEPT ![c] = "none"]
    /\ UNCHANGED <<fieldValues, viewContext, entered, edits, devicesAdded, connectCheck,
                   connectTold>>

\* Cancel, and whatever ends another form
CloseForm(c) ==
    /\ pane[c] # "none"
    /\ pane' = [pane EXCEPT ![c] = "none"]
    /\ UNCHANGED <<stored, prefs, fieldValues, viewContext, entered, edits, devicesAdded,
                   connectCheck, connectTold>>

-----------------------------------------------------------------------------
(* Devices *)

\* The device form is submitted to the server (the grid's editurl) and has its answer:
\* afterSubmit returns before anything is known of the connection it may try, with a
\* command without a view (Commands)
AddDeviceRow(d, connect) ==
    /\ d \notin devicesAdded
    /\ devicesAdded' = devicesAdded \cup {d}
    /\ IF connect
       THEN CheckService!Ask(d) /\ connectTold' = [connectTold EXCEPT ![d] = "connecting"]
       ELSE UNCHANGED <<connectCheck, connectTold>>
    /\ UNCHANGED <<stored, prefs, pane, fieldValues, viewContext, entered, edits>>

\* The command ends; who hears of it and who does not is Commands
CheckEnds(d, how, heard) ==
    /\ CheckService!Ends(d, how)
    /\ how = "complete" => heard
    /\ how = "close" => ~ heard
    /\ connectTold' = [connectTold EXCEPT ![d] = CASE ~ heard           -> @
                                                  [] how = "complete" -> "successful"
                                                  [] OTHER            -> "not"]
    /\ UNCHANGED <<stored, prefs, pane, fieldValues, viewContext, entered, edits, devicesAdded>>

-----------------------------------------------------------------------------
PrefsInit ==
    /\ stored = NoValues /\ prefs = NoValues
    /\ pane = [c \in Pane |-> "none"] /\ fieldValues = [c \in Pane |-> NoValues]
    /\ viewContext = NoPane /\ entered = [p \in Pref |-> {Default[p]}] /\ edits = 0
    /\ devicesAdded = {} /\ connectCheck = [d \in KnownDevice |-> "idle"]
    /\ connectTold = [d \in KnownDevice |-> "none"]

PrefsNext ==
    \/ PrefsInitPage
    \/ \E c \in Pane :
          \/ GeneralPref(c) \/ OtherForm(c) \/ Save(c) \/ CloseForm(c)
          \/ \E p \in Pref, v \in PrefValue : EditField(c, p, v)
    \/ \E d \in KnownDevice :
          \/ \E connect \in BOOLEAN : AddDeviceRow(d, connect)
          \/ \E how \in CheckService!Endings, heard \in BOOLEAN : CheckEnds(d, how, heard)

-----------------------------------------------------------------------------
(* What preferences promise *)

PrefsTypeOK ==
    /\ \A f \in {stored, prefs} \cup Range(fieldValues) :
          DOMAIN f \subseteq Pref /\ Range(f) \subseteq PrefValue \ {""}
    /\ pane \in [Pane -> {"none", "prefs", "form"}] /\ viewContext \in Pane \cup {NoPane}
    /\ entered \in [Pref -> SUBSET PrefValue] /\ edits \in 0..MaxEdit
    /\ devicesAdded \subseteq KnownDevice /\ CheckService!RpcTypeOK
    /\ connectTold \in [KnownDevice -> {"none", "connecting", "successful", "not"}]

\* The page runs on the preferences that are saved, all of them and no other, whichever form
\* was saved from the values of whichever other form and whatever fields were empty.
PrefsAreStored ==
    /\ prefs = stored
    /\ stored # NoValues => \A p \in Pref : stored[p] \in entered[p]

=============================================================================
