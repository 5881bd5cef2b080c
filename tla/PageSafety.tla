----------------------------- MODULE PageSafety -----------------------------
(***************************************************************************)
(* Theorems about the page, for every set of commands, devices, fields and *)
(* preferences: what is saved, shown and told.  A step of the page is one  *)
(* of a single part (WebPage), so each part has an invariant of its own.   *)
(***************************************************************************)
EXTENDS ParserSafety

-----------------------------------------------------------------------------
(* Preferences *)

\* Values for some of the preferences, each of which was entered
Entered(values) ==
    /\ values = [p \in DOMAIN values |-> values[p]] /\ DOMAIN values \subseteq Pref
    /\ \A p \in DOMAIN values : values[p] \in entered[p]

\* All preferences are saved or none, and a form for them can only be open when they are;
\* Save may take its values from any form, so all have only what was entered.
PrefsInv ==
    /\ prefs = stored /\ Entered(stored)
    /\ stored = NoValues \/ DOMAIN stored = Pref
    /\ entered \in [Pref -> SUBSET PrefValue] /\ \A p \in Pref : Default[p] \in entered[p]
    /\ DOMAIN fieldValues = Pane /\ fieldValues = [c \in Pane |-> fieldValues[c]]
    /\ \A c \in Pane : Entered(fieldValues[c])
    /\ pane = [c \in Pane |-> pane[c]]
    /\ \A c \in Pane : pane[c] = "prefs" => DOMAIN stored = Pref /\ viewContext \in Pane

LEMMA PrefsStart == PrefsInit => PrefsInv
<1> SUFFICES ASSUME PrefsInit PROVE PrefsInv
  OBVIOUS
<1>1. \A p \in Pref : Default[p] \in PrefValue
  BY PrefsAssumption
<1> QED BY <1>1 DEF PrefsInit, PrefsInv, Entered, NoValues

LEMMA InsertFormKeeps ==
    ASSUME PrefsInv, NEW c \in Pane, NEW what, NEW values, Entered(values), prefs # NoValues,
           InsertFormOf(c, what, values)
    PROVE  PrefsInv'
BY DEF InsertFormOf, PrefsInv, Entered

LEMMA EditFieldKeeps ==
    ASSUME PrefsInv, NEW c \in Pane, NEW p \in Pref, NEW v \in PrefValue, EditField(c, p, v)
    PROVE  PrefsInv'
<1>1. /\ fieldValues' = [fieldValues EXCEPT ![c] = Changed(@, p, v)]
      /\ entered' = [entered EXCEPT ![p] = @ \cup {v}]
      /\ UNCHANGED <<stored, prefs, pane, viewContext>>
  BY DEF EditField
<1>2. /\ entered' \in [Pref -> SUBSET PrefValue] /\ v \in entered'[p]
      /\ \A q \in Pref : entered[q] \subseteq entered'[q]
  BY <1>1 DEF PrefsInv
<1>3. Entered(stored)'
  BY <1>1, <1>2 DEF PrefsInv, Entered
<1>4. ASSUME NEW d \in Pane PROVE Entered(fieldValues[d])'
  <2>1. CASE d # c
    <3>1. fieldValues'[d] = fieldValues[d]
      BY <1>1, <2>1 DEF PrefsInv
    <3> QED BY <1>2, <3>1 DEF PrefsInv, Entered
  <2>2. CASE d = c
    <3>1. fieldValues'[d] = Changed(fieldValues[c], p, v)
      BY <1>1, <2>2 DEF PrefsInv
    <3>2. Entered(fieldValues[c])
      BY DEF PrefsInv
    <3>3. CASE v = ""
      BY <1>2, <3>1, <3>2, <3>3 DEF Changed, Restrict, Entered
    <3>4. CASE v # ""
      <4> DEFINE old == fieldValues[c]
                 new == fieldValues'[d]
      <4>1. new = [q \in (DOMAIN old) \cup {p} |-> IF q = p THEN v ELSE old[q]]
        BY <3>1, <3>4 DEF Changed, With
      <4>2. DOMAIN old \subseteq Pref /\ \A q \in DOMAIN old : old[q] \in entered[q]
        BY <3>2 DEF Entered
      <4> HIDE DEF old
      <4>3. /\ DOMAIN new = (DOMAIN old) \cup {p} /\ new = [q \in DOMAIN new |-> new[q]]
            /\ \A q \in DOMAIN new : new[q] = IF q = p THEN v ELSE old[q]
        BY <4>1
      <4> HIDE DEF new
      <4>4. DOMAIN new \subseteq Pref /\ \A q \in DOMAIN new : new[q] \in entered'[q]
        BY <1>2, <4>2, <4>3
      <4> QED BY <4>3, <4>4 DEF Entered, new
    <3> QED BY <3>3, <3>4
  <2> QED BY <2>1, <2>2
<1>5. /\ DOMAIN fieldValues' = Pane /\ fieldValues' = [d \in Pane |-> fieldValues'[d]]
      /\ \A q \in Pref : Default[q] \in entered'[q]
  BY <1>1, <1>2 DEF PrefsInv
<1> QED BY <1>1, <1>2, <1>3, <1>4, <1>5 DEF PrefsInv

LEMMA SaveKeeps == ASSUME PrefsInv, NEW c \in Pane, Save(c) PROVE PrefsInv'
<1> DEFINE values == fieldValues[viewContext]
<1>1. /\ pane[c] = "prefs" /\ pane' = [pane EXCEPT ![c] = "none"]
      /\ stored' = [p \in Pref |-> IF p \in DOMAIN values THEN values[p] ELSE stored[p]]
      /\ prefs' = Kept(prefs, values)
      /\ UNCHANGED <<fieldValues, viewContext, entered>>
  BY DEF Save
<1>2. DOMAIN stored = Pref /\ prefs = stored /\ viewContext \in Pane /\ Entered(stored)
      /\ Entered(values)
  BY <1>1 DEF PrefsInv
<1> HIDE DEF values
<1>3. prefs' = stored' /\ DOMAIN stored' = Pref
  BY <1>1, <1>2 DEF Kept
<1>4. Entered(stored)'
  BY <1>1, <1>2 DEF Entered
<1>5. \A d \in Pane : Entered(fieldValues[d])'
  BY <1>1 DEF PrefsInv, Entered
<1>6. /\ entered' \in [Pref -> SUBSET PrefValue] /\ \A p \in Pref : Default[p] \in entered'[p]
      /\ DOMAIN fieldValues' = Pane /\ fieldValues' = [d \in Pane |-> fieldValues'[d]]
  BY <1>1 DEF PrefsInv
<1>7. /\ pane' = [d \in Pane |-> pane'[d]]
      /\ \A d \in Pane : pane'[d] = "prefs" => DOMAIN stored' = Pref /\ viewContext' \in Pane
  BY <1>1, <1>2, <1>3 DEF PrefsInv
<1> QED BY <1>3, <1>4, <1>5, <1>6, <1>7 DEF PrefsInv

LEMMA PrefsStep == PrefsInv /\ (PrefsNext \/ UNCHANGED prefsVars) => PrefsInv'
<1> SUFFICES ASSUME PrefsInv, PrefsNext \/ UNCHANGED prefsVars PROVE PrefsInv'
  OBVIOUS
<1>1. CASE PrefsInitPage
  <2>1. /\ stored' = [p \in Pref |-> IF p \in DOMAIN stored THEN stored[p] ELSE Default[p]]
        /\ prefs' = stored' /\ entered' = entered
    BY <1>1 DEF PrefsInitPage
  <2>2. Entered(stored)'
    BY <2>1 DEF PrefsInv, Entered
  <2>3. \A c \in Pane : Entered(fieldValues[c])' /\ pane'[c] = "none"
    BY <1>1 DEF PrefsInitPage, Entered, NoValues
  <2> QED BY <1>1, <2>1, <2>2, <2>3 DEF PrefsInitPage, PrefsInv
<1>2. ASSUME NEW c \in Pane, GeneralPref(c) PROVE PrefsInv'
  <2>1. Entered(stored) /\ prefs # NoValues /\ InsertFormOf(c, "prefs", stored)
    BY <1>2 DEF GeneralPref, PrefsInv
  <2> QED BY <2>1, InsertFormKeeps
<1>3. ASSUME NEW c \in Pane, OtherForm(c) PROVE PrefsInv'
  <2>1. Entered(NoValues) /\ prefs # NoValues /\ InsertFormOf(c, "form", NoValues)
    BY <1>3 DEF OtherForm, Entered, NoValues
  <2> QED BY <2>1, InsertFormKeeps
<1>4. ASSUME NEW c \in Pane, CloseForm(c) PROVE PrefsInv'
  BY <1>4 DEF CloseForm, PrefsInv, Entered
<1>5. ASSUME NEW d \in KnownDevice, NEW how, NEW heardIt,
             (\E connect \in BOOLEAN : AddDeviceRow(d, connect)) \/ CheckEnds(d, how, heardIt)
      PROVE  PrefsInv'
  <2>1. UNCHANGED <<stored, prefs, pane, fieldValues, viewContext, entered>>
    BY <1>5 DEF AddDeviceRow, CheckEnds
  <2> QED BY <2>1 DEF PrefsInv, Entered
<1>6. CASE UNCHANGED prefsVars
  BY <1>6 DEF prefsVars, PrefsInv, Entered
<1> QED BY <1>1, <1>2, <1>3, <1>4, <1>5, <1>6, EditFieldKeeps, SaveKeeps DEF PrefsNext

LEMMA PrefsInvSuffices == PrefsInv => PrefsAreStored
BY DEF PrefsInv, PrefsAreStored, Entered

\* Values that can be saved: none of them is empty.
AreValues(f) == DOMAIN f \subseteq Pref /\ \A p \in DOMAIN f : f[p] \in PrefValue \ {""}

PrefsTypes ==
    /\ AreValues(stored) /\ \A c \in Pane : AreValues(fieldValues[c])
    /\ pane \in [Pane -> {"none", "prefs", "form"}] /\ viewContext \in Pane \cup {NoPane}
    /\ edits \in 0..MaxEdit
    /\ devicesAdded \subseteq KnownDevice /\ CheckService!RpcTypeOK
    /\ connectTold \in [KnownDevice -> {"none", "connecting", "successful", "not"}]

LEMMA PrefsTyped == PrefsInv /\ PrefsTypes => PrefsTypeOK
<1> SUFFICES ASSUME PrefsInv, PrefsTypes PROVE PrefsTypeOK
  OBVIOUS
<1>1. \A f : AreValues(f) => DOMAIN f \subseteq Pref /\ Range(f) \subseteq PrefValue \ {""}
  BY DEF AreValues, Range
<1>2. \A f \in Range(fieldValues) : AreValues(f)
  BY DEF PrefsInv, PrefsTypes, Range
<1>3. AreValues(stored) /\ AreValues(prefs)
  BY DEF PrefsInv, PrefsTypes
<1>4. \A f \in {stored, prefs} \cup Range(fieldValues) :
         DOMAIN f \subseteq Pref /\ Range(f) \subseteq PrefValue \ {""}
  BY <1>1, <1>2, <1>3
<1> QED BY <1>4 DEF PrefsTypeOK, PrefsTypes, PrefsInv

LEMMA PrefsTypesStart == PrefsInit => PrefsTypes
<1> SUFFICES ASSUME PrefsInit PROVE PrefsTypes
  OBVIOUS
<1>1. AreValues(NoValues)
  BY DEF AreValues, NoValues
<1>2. 0 \in 0..MaxEdit
  <2>1. MaxEdit \in Nat
    BY PrefsAssumption
  <2> QED BY <2>1
<1>3. AreValues(stored) /\ \A c \in Pane : AreValues(fieldValues[c])
  BY <1>1 DEF PrefsInit
<1> QED BY <1>2, <1>3 DEF PrefsInit, PrefsTypes, CheckService!RpcTypeOK

LEMMA InsertFormTyped ==
    ASSUME PrefsInv, PrefsTypes, NEW c \in Pane, NEW what \in {"prefs", "form"}, NEW values,
           AreValues(values), InsertFormOf(c, what, values)
    PROVE  PrefsTypes'
<1>1. \A d \in Pane : AreValues(fieldValues'[d])
  BY DEF InsertFormOf, PrefsInv, PrefsTypes
<1>2. pane' \in [Pane -> {"none", "prefs", "form"}]
  BY DEF InsertFormOf, PrefsTypes
<1> QED BY <1>1, <1>2 DEF InsertFormOf, PrefsTypes, AreValues, CheckService!RpcTypeOK

LEMMA PrefsTypesStep ==
    PrefsInv /\ PrefsTypes /\ (PrefsNext \/ UNCHANGED prefsVars) => PrefsTypes'
<1> SUFFICES ASSUME PrefsInv, PrefsTypes, PrefsNext \/ UNCHANGED prefsVars PROVE PrefsTypes'
  OBVIOUS
<1>1. CASE UNCHANGED prefsVars
  BY <1>1 DEF prefsVars, PrefsTypes, AreValues, CheckService!RpcTypeOK
<1>2. CASE PrefsInitPage
  <2>1. \A p \in Pref : stored'[p] \in PrefValue \ {""}
    BY <1>2, PrefsAssumption DEF PrefsInitPage, PrefsTypes, AreValues
  <2>2. AreValues(stored')
    BY <1>2, <2>1 DEF PrefsInitPage, AreValues
  <2>3. \A c \in Pane : AreValues(fieldValues'[c])
    BY <1>2 DEF PrefsInitPage, AreValues, NoValues
  <2>4. CheckService!RpcTypeOK'
    BY <1>2 DEF PrefsInitPage, PrefsTypes, CheckService!RpcTypeOK, CheckService!Endings
  <2> QED BY <1>2, <2>2, <2>3, <2>4 DEF PrefsInitPage, PrefsTypes, AreValues
<1>3. ASSUME NEW c \in Pane, GeneralPref(c) \/ OtherForm(c) PROVE PrefsTypes'
  <2>1. AreValues(NoValues) /\ AreValues(stored)
    BY DEF AreValues, NoValues, PrefsTypes
  <2> QED BY <1>3, <2>1, InsertFormTyped DEF GeneralPref, OtherForm
<1>4. ASSUME NEW c \in Pane, Save(c) PROVE PrefsTypes'
  <2>1. DOMAIN stored = Pref /\ viewContext \in Pane
    BY <1>4 DEF Save, PrefsInv
  <2>2. AreValues(fieldValues[viewContext])
    BY <2>1 DEF PrefsTypes
  <2>3. AreValues(stored')
    BY <1>4, <2>1, <2>2 DEF Save, PrefsTypes, AreValues
  <2>4. pane' \in [Pane -> {"none", "prefs", "form"}]
    BY <1>4 DEF Save, PrefsTypes
  <2> QED BY <1>4, <2>3, <2>4 DEF Save, PrefsTypes, AreValues, CheckService!RpcTypeOK
<1>5. ASSUME NEW c \in Pane, CloseForm(c) PROVE PrefsTypes'
  BY <1>5 DEF CloseForm, PrefsTypes, AreValues, CheckService!RpcTypeOK
<1>6. ASSUME NEW c \in Pane, NEW p \in Pref, NEW v \in PrefValue, EditField(c, p, v) PROVE PrefsTypes'
  <2>1. AreValues(Changed(fieldValues[c], p, v))
    <3>1. AreValues(fieldValues[c])
      BY DEF PrefsTypes
    <3>2. CASE v = ""
      BY <3>1, <3>2 DEF Changed, Restrict, AreValues
    <3>3. CASE v # ""
      BY <3>1, <3>3 DEF Changed, With, AreValues
    <3> QED BY <3>2, <3>3
  <2>2. \A d \in Pane : AreValues(fieldValues'[d])
    BY <1>6, <2>1 DEF EditField, PrefsInv, PrefsTypes
  <2>3. edits' \in 0..MaxEdit
    <3>1. edits \in 0..MaxEdit /\ edits < MaxEdit /\ edits' = edits + 1
      BY <1>6 DEF EditField, PrefsTypes
    <3>2. MaxEdit \in Nat
      BY PrefsAssumption
    <3> QED BY <3>1, <3>2
  <2> QED BY <1>6, <2>2, <2>3 DEF EditField, PrefsTypes, AreValues, CheckService!RpcTypeOK
<1>7. ASSUME NEW d \in KnownDevice, NEW connect \in BOOLEAN, AddDeviceRow(d, connect) PROVE PrefsTypes'
  <2>1. CheckService!RpcTypeOK'
    BY <1>7 DEF AddDeviceRow, PrefsTypes, CheckService!RpcTypeOK, CheckService!Ask
  <2>2. connectTold' \in [KnownDevice -> {"none", "connecting", "successful", "not"}]
    BY <1>7 DEF AddDeviceRow, PrefsTypes
  <2> QED BY <1>7, <2>1, <2>2 DEF AddDeviceRow, PrefsTypes, AreValues
<1>8. ASSUME NEW d \in KnownDevice, NEW how \in CheckService!Endings, NEW told \in BOOLEAN,
             CheckEnds(d, how, told)
      PROVE  PrefsTypes'
  <2>1. CheckService!RpcTypeOK'
    BY <1>8 DEF CheckEnds, PrefsTypes, CheckService!RpcTypeOK, CheckService!Ends
  <2>2. connectTold' \in [KnownDevice -> {"none", "connecting", "successful", "not"}]
    BY <1>8 DEF CheckEnds, PrefsTypes
  <2> QED BY <1>8, <2>1, <2>2 DEF CheckEnds, PrefsTypes, AreValues
<1> QED BY <1>1, <1>2, <1>3, <1>4, <1>5, <1>6, <1>7, <1>8 DEF PrefsNext

-----------------------------------------------------------------------------
(* Forms *)

FormTypes ==
    /\ fields \subseteq Field /\ formPhase \in {"none", "shown", "executed"}
    /\ fieldValue = [f \in Field |-> fieldValue[f]]
    /\ fieldErrors \in [Field -> SUBSET ErrorKind] /\ fieldCount \in [Field -> Nat]
    /\ isError \in [Field -> BOOLEAN]
    /\ dataRpc = [f \in Field |-> dataRpc[f]] /\ fieldNumeric = [f \in Field |-> fieldNumeric[f]]

\* Every field counts its errors, shown or not; those of a field that checks itself are
\* among what it looks for, until it is no longer a number.
FormInv ==
    /\ FormTypes
    /\ formPhase = "none" => fields = {} /\ \A f \in Field : fieldValue[f] = "none"
    /\ \A f \in Field : fieldCount[f] = Cardinality(fieldErrors[f])
    /\ FieldTellsErrors

LEMMA ErrorsCounted ==
    ASSUME NEW S \in SUBSET ErrorKind
    PROVE  IsFiniteSet(S) /\ Cardinality(S) \in Nat /\ (Cardinality(S) = 0 <=> S = {})
<1>1. IsFiniteSet(ErrorKind)
  <2>1. IsFiniteSet({"mandatory"} \cup {"match"}) /\ IsFiniteSet({"type"} \cup {"rangeMin"})
    BY FS_Singleton, FS_Union
  <2>2. ErrorKind = ({"mandatory"} \cup {"match"}) \cup ({"type"} \cup {"rangeMin"})
    BY DEF ErrorKind
  <2> QED BY <2>1, <2>2, FS_Union
<1>2. IsFiniteSet(S)
  BY <1>1, FS_Subset
<1> QED BY <1>2, FS_CardinalityType, FS_EmptySet

LEMMA FoundErrors ==
    \A f \in Field : \A v : Finds(f, v) \subseteq Checked(f) /\ Checked(f) \subseteq ErrorKind
BY DEF Finds, Checked, ErrorKind

LEMMA FormStart == FormInit => FormInv
<1> SUFFICES ASSUME FormInit PROVE FormInv
  OBVIOUS
<1>1. Cardinality({}) = 0
  BY FS_EmptySet
<1> QED BY <1>1 DEF FormInit, FormInv, FormTypes, FieldTellsErrors

\* What is checked is right afterwards, and what is not has the value it had.
LEMMA CheckErrorsKeeps ==
    ASSUME FormInv, formPhase = "shown", NEW S \in SUBSET fields,
           fieldValue' = [f \in Field |-> fieldValue'[f]],
           \A f \in fields \ S : fieldValue'[f] = fieldValue[f],
           UNCHANGED <<fields, fieldNumeric, dataRpc, formPhase>>, CheckErrors(fieldValue', S)
    PROVE  FormInv'
<1>1. /\ fieldErrors' = [f \in Field |-> IF f \in S THEN ErrorsAfter(f, fieldValue'[f]) ELSE fieldErrors[f]]
      /\ fieldCount'  = [f \in Field |-> IF f \in S THEN fieldCount[f] + Counted(f, fieldValue'[f])
                                         ELSE fieldCount[f]]
      /\ isError'     = [f \in Field |-> IF f \in S THEN fieldCount'[f] > 0 ELSE isError[f]]
  BY DEF CheckErrors
<1>2. \A f \in Field : \A v : ErrorsAfter(f, v) \in SUBSET ErrorKind
  BY FoundErrors DEF ErrorsAfter, FormInv, FormTypes
<1>3. fieldErrors' \in [Field -> SUBSET ErrorKind]
  BY <1>1, <1>2 DEF FormInv, FormTypes
<1>4. \A f \in Field : fieldCount'[f] = Cardinality(fieldErrors'[f])
  <2> TAKE f \in Field
  <2>1. Cardinality(fieldErrors[f]) \in Nat /\ fieldCount[f] = Cardinality(fieldErrors[f])
    BY ErrorsCounted DEF FormInv, FormTypes
  <2>2. Cardinality(fieldErrors'[f]) \in Nat
    BY <1>3, ErrorsCounted
  <2>3. CASE f \in S
    <3>1. /\ fieldErrors'[f] = ErrorsAfter(f, fieldValue'[f])
          /\ fieldCount'[f] = fieldCount[f]
                                + (Cardinality(ErrorsAfter(f, fieldValue'[f])) - Cardinality(fieldErrors[f]))
      BY <1>1, <2>3 DEF Counted
    <3> QED BY <2>1, <2>2, <3>1
  <2>4. CASE f \notin S
    BY <1>1, <2>1, <2>4
  <2> QED BY <2>3, <2>4
<1>5. \A f \in Field : fieldCount'[f] \in Nat /\ (fieldCount'[f] > 0 <=> fieldErrors'[f] # {})
  BY <1>3, <1>4, ErrorsCounted
<1>6. FieldTellsErrors'
  <2> SUFFICES ASSUME NEW f \in fields
               PROVE  /\ fieldCount'[f] = Cardinality(fieldErrors'[f])
                      /\ Described[f].help => (isError'[f] <=> fieldErrors'[f] # {})
                      /\ Described[f].help /\ dataRpc[f] # "complete" =>
                            fieldErrors'[f] = Finds(f, fieldValue'[f])
    BY DEF FieldTellsErrors, Finds, Checked
  <2>1. f \in Field
    BY DEF FormInv, FormTypes
  <2>2. CASE f \in S
    <3>1. isError'[f] = (fieldCount'[f] > 0) /\ fieldErrors'[f] = ErrorsAfter(f, fieldValue'[f])
      BY <1>1, <2>1, <2>2
    <3>2. Described[f].help /\ dataRpc[f] # "complete" => fieldErrors[f] \subseteq Checked(f)
      BY <2>1, FoundErrors DEF FormInv, FieldTellsErrors
    <3> QED BY <1>4, <1>5, <2>1, <3>1, <3>2 DEF ErrorsAfter
  <2>3. CASE f \notin S
    <3>1. UNCHANGED <<isError[f], fieldErrors[f], fieldValue[f]>>
      BY <1>1, <2>1, <2>3
    <3> QED BY <1>4, <2>1, <3>1 DEF FormInv, FieldTellsErrors
  <2> QED BY <2>2, <2>3
<1>7. fieldCount' \in [Field -> Nat]
  BY <1>1, <1>5
<1>8. isError' \in [Field -> BOOLEAN]
  <2>1. \A f \in Field : (fieldCount'[f] > 0) \in BOOLEAN /\ isError[f] \in BOOLEAN
    BY DEF FormInv, FormTypes
  <2> QED BY <1>1, <2>1, Zenon
<1> QED BY <1>3, <1>4, <1>6, <1>7, <1>8 DEF FormInv, FormTypes

LEMMA InsertFormOfFields ==
    ASSUME FormInv, NEW S \in SUBSET Field, InsertForm(S)
    PROVE  FormInv'
<1> DEFINE found(f) == IF f \in S /\ Described[f].help THEN Finds(f, "none") ELSE {}
<1>1. /\ formPhase = "none" /\ formPhase' = "shown" /\ fields' = S
      /\ fieldErrors' = [f \in Field |-> found(f)]
      /\ fieldCount'  = [f \in Field |-> Cardinality(fieldErrors'[f])]
      /\ isError'     = [f \in Field |-> fieldErrors'[f] # {}]
      /\ dataRpc' = [f \in Field |-> IF f \in S /\ Described[f].data THEN "asked" ELSE dataRpc[f]]
      /\ UNCHANGED <<fieldValue, fieldNumeric>>
  BY DEF InsertForm
<1>2. fieldErrors' \in [Field -> SUBSET ErrorKind]
  BY <1>1, FoundErrors
<1>3. \A f \in Field : Cardinality(fieldErrors'[f]) \in Nat
  BY <1>2, ErrorsCounted
<1>4. \A f \in Field : fieldValue[f] = "none" /\ Finds(f, "none")' = Finds(f, "none")
  BY <1>1 DEF FormInv, Finds, Checked
<1>5. FieldTellsErrors'
  BY <1>1, <1>4 DEF FieldTellsErrors
<1> QED BY <1>1, <1>2, <1>3, <1>5 DEF FormInv, FormTypes

LEMMA FormStep == FormInv /\ (FormNext \/ UNCHANGED formVars) => FormInv'
<1> SUFFICES ASSUME FormInv, FormNext \/ UNCHANGED formVars PROVE FormInv'
  OBVIOUS
<1>1. ASSUME NEW f \in Field, NEW v \in FieldValue, ValueChange(f, v) PROVE FormInv'
  <2>1. /\ formPhase = "shown" /\ {f} \in SUBSET fields /\ CheckErrors(fieldValue', {f})
        /\ fieldValue' = [fieldValue EXCEPT ![f] = v]
        /\ UNCHANGED <<fields, fieldNumeric, dataRpc, formPhase>>
    BY <1>1 DEF ValueChange, Event
  <2>2. /\ fieldValue' = [g \in Field |-> fieldValue'[g]]
        /\ \A g \in fields \ {f} : fieldValue'[g] = fieldValue[g]
    BY <2>1 DEF FormInv, FormTypes
  <2> QED BY <2>1, <2>2, CheckErrorsKeeps
<1>2. CASE Reset
  <2> DEFINE S == {f \in fields : fieldValue[f] # "none"}
  <2>1. /\ formPhase = "shown" /\ S \in SUBSET fields /\ CheckErrors(fieldValue', S)
        /\ fieldValue' = [f \in Field |-> "none"]
        /\ UNCHANGED <<fields, fieldNumeric, dataRpc, formPhase>>
    BY <1>2 DEF Reset, Event
  <2>2. /\ fieldValue' = [g \in Field |-> fieldValue'[g]]
        /\ \A g \in fields \ S : fieldValue'[g] = fieldValue[g]
    BY <2>1 DEF FormInv, FormTypes
  <2> HIDE DEF S
  <2> QED BY <2>1, <2>2, CheckErrorsKeeps
<1>3. ASSUME NEW f \in Field, ChoicesArrive(f) PROVE FormInv'
  <2>1. /\ dataRpc' = [dataRpc EXCEPT ![f] = "complete"]
        /\ fieldNumeric' = [fieldNumeric EXCEPT ![f] = FALSE]
        /\ UNCHANGED <<fields, fieldValue, fieldErrors, fieldCount, isError, formPhase>>
    BY <1>3 DEF ChoicesArrive, DataService!Ends
  <2>2. \A g \in Field : g # f => Finds(g, fieldValue[g])' = Finds(g, fieldValue[g])
    <3>1. \A g \in Field : g # f => fieldNumeric'[g] = fieldNumeric[g]
      BY <2>1 DEF FormInv, FormTypes
    <3> QED BY <2>1, <3>1 DEF Finds, Checked
  <2>3. /\ dataRpc' = [g \in Field |-> dataRpc'[g]] /\ dataRpc'[f] = "complete"
        /\ \A g \in Field : g # f => dataRpc'[g] = dataRpc[g]
    BY <2>1 DEF FormInv, FormTypes
  <2>4. FieldTellsErrors'
    BY <2>1, <2>2, <2>3 DEF FormInv, FormTypes, FieldTellsErrors
  <2> QED BY <2>1, <2>3, <2>4 DEF FormInv, FormTypes
<1>4. ASSUME NEW f \in Field, ChoicesFail(f) PROVE FormInv'
  <2>1. /\ UNCHANGED <<fields, fieldValue, fieldNumeric, fieldErrors, fieldCount, isError, formPhase>>
        /\ \E how \in {"error", "close"} : dataRpc' = [dataRpc EXCEPT ![f] = how]
        /\ dataRpc[f] = "asked"
    BY <1>4 DEF ChoicesFail, DataService!Ends
  <2>2. /\ dataRpc' = [g \in Field |-> dataRpc'[g]]
        /\ \A g \in Field : dataRpc'[g] = "complete" <=> dataRpc[g] = "complete"
    BY <2>1 DEF FormInv, FormTypes
  <2>3. \A g \in Field : Finds(g, fieldValue[g])' = Finds(g, fieldValue[g])
    BY <2>1 DEF Finds, Checked
  <2>4. FieldTellsErrors'
    BY <2>1, <2>2, <2>3 DEF FormInv, FormTypes, FieldTellsErrors
  <2> QED BY <2>1, <2>2, <2>4 DEF FormInv, FormTypes
<1>5. CASE Execute \/ UNCHANGED formVars
  <2>1. /\ UNCHANGED <<fields, fieldValue, fieldNumeric, fieldErrors, fieldCount, isError, dataRpc>>
        /\ formPhase' = formPhase \/ formPhase' = "executed"
    BY <1>5 DEF Execute, formVars
  <2>2. \A g \in Field : Finds(g, fieldValue[g])' = Finds(g, fieldValue[g])
    BY <2>1 DEF Finds, Checked
  <2>3. FieldTellsErrors'
    BY <2>1, <2>2 DEF FormInv, FormTypes, FieldTellsErrors
  <2> QED BY <2>1, <2>3 DEF FormInv, FormTypes
<1> QED BY <1>1, <1>2, <1>3, <1>4, <1>5, InsertFormOfFields DEF FormNext

\* Sums over finite sets exist whichever element is taken first.
SumsUp(g, T, f, pick) ==
    \A u \in T : g[u] = IF u = {} THEN 0 ELSE f[pick[u]] + g[u \ {pick[u]}]

LEMMA SumExists ==
    ASSUME NEW S, IsFiniteSet(S), NEW f \in [S -> Int], NEW pick, \A u \in SUBSET S : u # {} => pick[u] \in u
    PROVE  \E g \in [SUBSET S -> Int] : SumsUp(g, SUBSET S, f, pick)
<1> DEFINE n == Cardinality(S)
           Upto(k) == {u \in SUBSET S : Cardinality(u) <= k}
           T == {k \in 0..n : \E g \in [Upto(k) -> Int] : SumsUp(g, Upto(k), f, pick)}
<1>1. /\ n \in Nat
      /\ \A u \in SUBSET S : IsFiniteSet(u) /\ Cardinality(u) \in Nat /\ Cardinality(u) <= n
                             /\ (Cardinality(u) = 0 <=> u = {})
  BY FS_Subset, FS_CardinalityType, FS_EmptySet
<1>2. \A u \in SUBSET S : u # {} => /\ u \ {pick[u]} \in SUBSET S
                                    /\ Cardinality(u \ {pick[u]}) = Cardinality(u) - 1
  <2> SUFFICES ASSUME NEW u \in SUBSET S, u # {}
               PROVE  Cardinality(u \ {pick[u]}) = Cardinality(u) - 1
    OBVIOUS
  <2>1. IsFiniteSet(u) /\ pick[u] \in u
    BY <1>1
  <2> QED BY <2>1, FS_RemoveElement
<1>3. 0 \in T
  <2> DEFINE g == [u \in Upto(0) |-> 0]
  <2>1. \A u \in Upto(0) : u = {}
    BY <1>1
  <2>2. g \in [Upto(0) -> Int] /\ SumsUp(g, Upto(0), f, pick)
    BY <2>1 DEF SumsUp
  <2>3. 0 \in 0..n
    BY <1>1
  <2> HIDE DEF g, n, Upto
  <2> QED BY <2>2, <2>3
<1>4. ASSUME NEW k \in 1..n, k - 1 \in T PROVE k \in T
  <2>1. PICK g \in [Upto(k - 1) -> Int] : SumsUp(g, Upto(k - 1), f, pick)
    BY <1>4
  <2> DEFINE h == [u \in Upto(k) |-> IF u = {} THEN 0 ELSE f[pick[u]] + g[u \ {pick[u]}]]
  <2>2. ASSUME NEW u \in Upto(k), u # {}
        PROVE  /\ u \ {pick[u]} \in Upto(k - 1) /\ u \ {pick[u]} \in Upto(k)
               /\ f[pick[u]] \in Int
    <3>1. u \in SUBSET S /\ Cardinality(u) <= k /\ Cardinality(u) \in Nat
      BY <1>1
    <3>2. u \ {pick[u]} \in SUBSET S /\ Cardinality(u \ {pick[u]}) = Cardinality(u) - 1
      BY <1>2, <2>2, <3>1
    <3>3. pick[u] \in S
      BY <2>2, <3>1
    <3>4. Cardinality(u) - 1 <= k - 1 /\ Cardinality(u) - 1 <= k
      BY <3>1
    <3> HIDE DEF n
    <3> QED BY <3>2, <3>3, <3>4
  <2>3. h \in [Upto(k) -> Int]
    <3>1. ASSUME NEW u \in Upto(k) PROVE h[u] \in Int
      <4> HIDE DEF Upto
      <4>1. CASE u = {}
        BY <4>1
      <4>2. CASE u # {}
        <5>1. f[pick[u]] \in Int /\ g[u \ {pick[u]}] \in Int
          BY <2>2, <4>2
        <5>2. h[u] = f[pick[u]] + g[u \ {pick[u]}]
          BY <4>2
        <5> HIDE DEF h
        <5> QED BY <5>1, <5>2
      <4> QED BY <4>1, <4>2
    <3>2. h = [u \in Upto(k) |-> h[u]]
      <4> HIDE DEF Upto
      <4> QED OBVIOUS
    <3> HIDE DEF Upto, h
    <3> QED BY <3>1, <3>2
  <2>4. ASSUME NEW v \in Upto(k - 1) PROVE v \in Upto(k) /\ h[v] = g[v]
    <3>1. v \in SUBSET S /\ Cardinality(v) <= k - 1 /\ Cardinality(v) \in Nat
      BY <1>1
    <3>2. Cardinality(v) <= k
      BY <3>1
    <3>3. v \in Upto(k)
      BY <3>1, <3>2
    <3> HIDE DEF Upto
    <3> QED BY <2>1, <3>3 DEF SumsUp
  <2>5. SumsUp(h, Upto(k), f, pick)
    <3> HIDE DEF Upto
    <3>1. \A u \in Upto(k) : h[u] = IF u = {} THEN 0 ELSE f[pick[u]] + g[u \ {pick[u]}]
      OBVIOUS
    <3> HIDE DEF h
    <3> QED BY <2>2, <2>4, <3>1 DEF SumsUp
  <2>6. k \in 0..n
    BY <1>1
  <2> HIDE DEF Upto, h, n
  <2> QED BY <2>3, <2>5, <2>6
<1>5. n \in T
  <2> HIDE DEF T, n
  <2>1. \A k \in 0..n : k \in T
    BY <1>1, <1>3, <1>4, UpTo
  <2> QED BY <1>1, <2>1
<1>6. Upto(n) = SUBSET S
  BY <1>1
<1>7. PICK g \in [Upto(n) -> Int] : SumsUp(g, Upto(n), f, pick)
  <2> HIDE DEF n, Upto
  <2> QED BY <1>5
<1> HIDE DEF Upto, n
<1> QED BY <1>6, <1>7

LEMMA SumIsInt ==
    ASSUME NEW S, IsFiniteSet(S), NEW f \in [S -> Int]
    PROVE  SumFunction(f) \in Int
<1> DEFINE pick == [u \in SUBSET S |-> CHOOSE x \in u : TRUE]
           Def(g) == [u \in SUBSET S |-> IF u = {} THEN 0 ELSE f[CHOOSE x \in u : TRUE] + g[u \ {CHOOSE x \in u : TRUE}]]
           F == CHOOSE g : g = Def(g)
           n == Cardinality(S)
           T == {k \in 0..n : \A u \in SUBSET S : Cardinality(u) <= k => F[u] \in Int}
<1>1. SumFunction(f) = F[S]
  BY DEF SumFunction, SumFunctionOnSet, FoldFunctionOnSet, MapThenFoldSet
<1>2. \A u \in SUBSET S : u # {} => pick[u] \in u
  OBVIOUS
<1>3. PICK g \in [SUBSET S -> Int] : SumsUp(g, SUBSET S, f, pick)
  <2> HIDE DEF pick
  <2> QED BY <1>2, SumExists
<1>4. g = Def(g)
  BY <1>3 DEF SumsUp
<1>5. F = Def(F)
  <2> HIDE DEF Def
  <2> QED BY <1>4
<1>6. ASSUME NEW u \in SUBSET S
      PROVE  F[u] = IF u = {} THEN 0 ELSE f[pick[u]] + F[u \ {pick[u]}]
  <2> HIDE DEF F
  <2> QED BY <1>5
<1>0. F[{}] = 0
  <2>1. {} \in SUBSET S
    OBVIOUS
  <2>2. F[{}] = IF {} = {} THEN 0 ELSE f[pick[{}]] + F[{} \ {pick[{}]}]
    <3> HIDE DEF F, pick
    <3> QED BY <1>6, <2>1
  <2> HIDE DEF F, pick
  <2> QED BY <2>2
<1> HIDE DEF F, pick
<1>7. n \in Nat /\ Cardinality({}) = 0
  BY FS_CardinalityType, FS_EmptySet
<1>8. ASSUME NEW u \in SUBSET S, u # {}
      PROVE  /\ f[pick[u]] \in Int /\ u \ {pick[u]} \in SUBSET S
             /\ Cardinality(u \ {pick[u]}) = Cardinality(u) - 1 /\ Cardinality(u) \in Nat
  <2>1. IsFiniteSet(u)
    BY FS_Subset
  <2> QED BY <1>2, <1>8, <2>1, FS_RemoveElement, FS_CardinalityType
<1>9. 0 \in T
  <2>1. \A u \in SUBSET S : Cardinality(u) <= 0 => u = {}
    BY FS_Subset, FS_EmptySet, FS_CardinalityType
  <2>2. 0 \in 0..n
    BY <1>7
  <2>3. \A u \in SUBSET S : u = {} => F[u] \in Int
    BY <1>0
  <2> HIDE DEF n
  <2> QED BY <2>1, <2>2, <2>3
<1>10. ASSUME NEW k \in 1..n, k - 1 \in T PROVE k \in T
  <2>1. ASSUME NEW u \in SUBSET S, Cardinality(u) <= k PROVE F[u] \in Int
    <3>1. CASE u = {}
      BY <1>0, <3>1
    <3>2. CASE u # {}
      <4> DEFINE c == Cardinality(u)
                 v == u \ {pick[u]}
                 d == Cardinality(v)
      <4>1. d = c - 1 /\ c \in Nat /\ v \in SUBSET S /\ f[pick[u]] \in Int /\ c <= k
        BY <1>8, <2>1, <3>2
      <4>2. F[u] = f[pick[u]] + F[v]
        BY <1>6, <3>2
      <4> HIDE DEF c, v
      <4>3. d <= k - 1
        <5> HIDE DEF d, n
        <5> QED BY <4>1
      <4> HIDE DEF d, n
      <4>4. F[v] \in Int
        BY <1>10, <4>1, <4>3 DEF d
      <4> QED BY <4>1, <4>2, <4>4
    <3> QED BY <3>1, <3>2
  <2>2. k \in 0..n
    BY <1>7
  <2> QED BY <2>1, <2>2
<1>11. n \in T
  <2> HIDE DEF T, n
  <2>1. \A k \in 0..n : k \in T
    BY <1>7, <1>9, <1>10, UpTo
  <2> QED BY <1>7, <2>1
<1> QED BY <1>1, <1>7, <1>11

\* A nonempty set of numbers that has a bound has a greatest.
LEMMA MaxOfBounded ==
    ASSUME NEW n \in Nat, NEW V \in SUBSET (0..n), V # {}
    PROVE  Max(V) \in V
<1> DEFINE W == {n - x : x \in V}
<1>1. W \in SUBSET Nat /\ W # {}
  <2>1. \A x \in V : x \in Nat /\ x <= n
    OBVIOUS
  <2>2. \A x \in V : n - x \in Nat
    BY <2>1
  <2> QED BY <2>2
<1>2. PICK w \in W : \A y \in W : w <= y
  <2> HIDE DEF W
  <2> QED BY <1>1, LeastOf
<1>3. PICK x \in V : w = n - x
  BY <1>2
<1>4. \A y \in V : x >= y
  <2> TAKE y \in V
  <2>1. n - y \in W
    OBVIOUS
  <2>2. n - x <= n - y
    BY <1>2, <1>3, <2>1
  <2> QED BY <2>2
<1> QED BY <1>4 DEF Max

FormCounts ==
    /\ fieldValue \in [Field -> FieldValue] /\ fieldNumeric \in [Field -> BOOLEAN]
    /\ errorCount \in Int /\ DataService!RpcTypeOK /\ formEvents \in 0..MaxEvents

LEMMA FormTyped == FormInv /\ FormCounts => FormTypeOK
<1> SUFFICES ASSUME FormInv, FormCounts PROVE FormTypeOK
  OBVIOUS
<1>1. fieldCount \in [Field -> Nat]
  BY DEF FormInv, FormTypes
<1>2. fieldCount \in [Field -> Int]
  BY <1>1
<1> QED BY <1>2 DEF FormInv, FormTypes, FormCounts, FormTypeOK

LEMMA FormCountsStart == FormInit => FormCounts
<1> SUFFICES ASSUME FormInit PROVE FormCounts
  OBVIOUS
<1>1. /\ fieldValue = [f \in Field |-> "none"] /\ fieldNumeric = [f \in Field |-> Described[f].numeric]
      /\ errorCount = 0 /\ dataRpc = [f \in Field |-> "idle"] /\ formEvents = 0
  BY DEF FormInit
<1>2. \A f \in Field : Described[f].numeric \in BOOLEAN
  BY FormAssumption DEF FieldSpec
<1>3. fieldNumeric \in [Field -> BOOLEAN]
  BY <1>1, <1>2, Zenon
<1>4. fieldValue \in [Field -> FieldValue]
  BY <1>1 DEF FieldValue
<1>5. DataService!RpcTypeOK
  BY <1>1 DEF DataService!RpcTypeOK
<1>6. formEvents \in 0..MaxEvents
  BY <1>1, FormAssumption
<1> QED BY <1>1, <1>3, <1>4, <1>5, <1>6 DEF FormCounts

\* Whatever the counts of the views make of the handlers of one event, it is a number.
LEMMA CheckErrorsCounts ==
    ASSUME FormInv, FormCounts, NEW S \in SUBSET fields, CheckErrors(fieldValue', S)
    PROVE  errorCount' \in Int
<1>1. IsFiniteSet(S) /\ S \in SUBSET Field
  BY FormAssumption, FS_Subset DEF FormInv, FormTypes
<1>2. \A f \in S : Counted(f, fieldValue'[f]) \in Int
  <2> TAKE f \in S
  <2>1. ErrorsAfter(f, fieldValue'[f]) \in SUBSET ErrorKind /\ fieldErrors[f] \in SUBSET ErrorKind
    BY <1>1, FoundErrors DEF ErrorsAfter, FormInv, FormTypes
  <2>2. Cardinality(ErrorsAfter(f, fieldValue'[f])) \in Nat /\ Cardinality(fieldErrors[f]) \in Nat
    BY <2>1, ErrorsCounted
  <2> QED BY <2>2 DEF Counted
<1> DEFINE c == [f \in S |-> Counted(f, fieldValue'[f])]
<1>3. c \in [S -> Int]
  BY <1>2
<1>4. SumFunction(c) \in Int
  <2> HIDE DEF c
  <2> QED BY <1>1, <1>3, SumIsInt
<1>5. errorCount \in Int
  BY DEF FormCounts
<1>6. \/ \E f \in S : errorCount' = errorCount + Counted(f, fieldValue'[f])
      \/ errorCount' = errorCount + SumFunction(c)
  BY DEF CheckErrors, CountsAfter
<1> HIDE DEF c
<1> QED BY <1>2, <1>4, <1>5, <1>6

LEMMA InsertFormCounts ==
    ASSUME FormInv, FormCounts, NEW S \in SUBSET Field, InsertForm(S)
    PROVE  errorCount' \in Int
<1> DEFINE m == Cardinality({f \in S : Described[f].mandatory})
           found == [f \in Field |-> IF f \in {g \in S : Described[g].help} THEN Finds(f, "none") ELSE {}]
           counts == [f \in Field |-> Cardinality(found[f])]
           V == {0} \cup {Cardinality(found[f]) : f \in Field}
           n == Cardinality(ErrorKind)
<1>1. errorCount' \in {m + Max(V), m + SumFunction(counts)}
  BY DEF InsertForm
<1>2. m \in Nat
  <2> DEFINE M == {f \in S : Described[f].mandatory}
  <2>1. M \in SUBSET Field
    OBVIOUS
  <2>2. IsFiniteSet(M)
    <3> HIDE DEF M
    <3> QED BY <2>1, FormAssumption, FS_Subset
  <2> QED BY <2>2, FS_CardinalityType
<1>3. \A f \in Field : found[f] \in SUBSET ErrorKind
  BY FoundErrors
<1>4. \A f \in Field : Cardinality(found[f]) \in Nat /\ Cardinality(found[f]) <= n
  <2> HIDE DEF found
  <2>1. IsFiniteSet(ErrorKind)
    BY ErrorsCounted
  <2> QED BY <1>3, <2>1, ErrorsCounted, FS_Subset
<1>5. n \in Nat
  BY ErrorsCounted
<1> HIDE DEF found, m
<1>6. SumFunction(counts) \in Int
  <2>1. counts \in [Field -> Int]
    BY <1>4
  <2> HIDE DEF counts
  <2> QED BY <2>1, FormAssumption, SumIsInt
<1>7. Max(V) \in Int
  <2>1. V \in SUBSET (0..n) /\ V # {}
    <3> HIDE DEF n
    <3>1. 0 \in 0..n
      BY <1>5
    <3>2. \A f \in Field : Cardinality(found[f]) \in 0..n
      BY <1>4, <1>5
    <3> QED BY <3>1, <3>2
  <2>2. Max(V) \in V
    <3> HIDE DEF V, n
    <3> QED BY <1>5, <2>1, MaxOfBounded
  <2>3. \A x \in 0..n : x \in Int
    OBVIOUS
  <2> HIDE DEF V, n
  <2> QED BY <2>1, <2>2, <2>3
<1> HIDE DEF counts, V
<1> QED BY <1>1, <1>2, <1>6, <1>7

LEMMA FormCountsStep == FormInv /\ FormCounts /\ (FormNext \/ UNCHANGED formVars) => FormCounts'
<1> SUFFICES ASSUME FormInv, FormCounts, FormNext \/ UNCHANGED formVars PROVE FormCounts'
  OBVIOUS
<1>0. /\ fieldValue \in [Field -> FieldValue] /\ fieldNumeric \in [Field -> BOOLEAN]
      /\ errorCount \in Int /\ dataRpc \in [Field -> {"idle", "asked"} \cup DataService!Endings]
      /\ formEvents \in 0..MaxEvents /\ MaxEvents \in Nat
  BY FormAssumption DEF FormCounts, DataService!RpcTypeOK
<1>e. Event => formEvents' \in 0..MaxEvents
  <2> SUFFICES ASSUME Event PROVE formEvents' \in 0..MaxEvents
    OBVIOUS
  <2>1. formEvents < MaxEvents /\ formEvents' = formEvents + 1
    BY DEF Event
  <2> QED BY <1>0, <2>1
<1>1. ASSUME NEW f \in Field, NEW v \in FieldValue, ValueChange(f, v) PROVE FormCounts'
  <2>1. /\ Event /\ {f} \in SUBSET fields /\ CheckErrors(fieldValue', {f})
        /\ fieldValue' = [fieldValue EXCEPT ![f] = v] /\ UNCHANGED <<fieldNumeric, dataRpc>>
    BY <1>1 DEF ValueChange
  <2>2. errorCount' \in Int
    BY <2>1, CheckErrorsCounts
  <2>3. fieldValue' \in [Field -> FieldValue]
    BY <1>0, <2>1
  <2> QED BY <1>0, <1>e, <2>1, <2>2, <2>3 DEF FormCounts, DataService!RpcTypeOK
<1>2. CASE Reset
  <2> DEFINE S == {f \in fields : fieldValue[f] # "none"}
  <2>1. /\ Event /\ S \in SUBSET fields /\ CheckErrors(fieldValue', S)
        /\ fieldValue' = [f \in Field |-> "none"] /\ UNCHANGED <<fieldNumeric, dataRpc>>
    BY <1>2 DEF Reset
  <2>2. errorCount' \in Int
    <3> HIDE DEF S
    <3> QED BY <2>1, CheckErrorsCounts
  <2>3. fieldValue' \in [Field -> FieldValue]
    BY <2>1 DEF FieldValue
  <2> QED BY <1>0, <1>e, <2>1, <2>2, <2>3 DEF FormCounts, DataService!RpcTypeOK
<1>3. ASSUME NEW f \in Field, ChoicesArrive(f) PROVE FormCounts'
  <2>1. /\ dataRpc' = [dataRpc EXCEPT ![f] = "complete"]
        /\ fieldNumeric' = [fieldNumeric EXCEPT ![f] = FALSE]
        /\ UNCHANGED <<fieldValue, errorCount, formEvents>>
    BY <1>3 DEF ChoicesArrive, DataService!Ends
  <2>2. fieldNumeric' \in [Field -> BOOLEAN]
    BY <1>0, <2>1
  <2>3. dataRpc' \in [Field -> {"idle", "asked"} \cup DataService!Endings]
    BY <1>0, <2>1 DEF DataService!Endings
  <2> QED BY <1>0, <2>1, <2>2, <2>3 DEF FormCounts, DataService!RpcTypeOK
<1>4. ASSUME NEW f \in Field, ChoicesFail(f) PROVE FormCounts'
  <2>1. PICK how \in {"error", "close"} : dataRpc' = [dataRpc EXCEPT ![f] = how]
    BY <1>4 DEF ChoicesFail, DataService!Ends
  <2>2. UNCHANGED <<fieldValue, fieldNumeric, errorCount, formEvents>>
    BY <1>4 DEF ChoicesFail
  <2>3. dataRpc' \in [Field -> {"idle", "asked"} \cup DataService!Endings]
    BY <1>0, <2>1 DEF DataService!Endings
  <2> QED BY <1>0, <2>2, <2>3 DEF FormCounts, DataService!RpcTypeOK
<1>5. CASE Execute \/ UNCHANGED formVars
  <2>1. UNCHANGED <<fieldValue, fieldNumeric, errorCount, dataRpc, formEvents>>
    BY <1>5 DEF Execute, formVars
  <2> QED BY <1>0, <2>1 DEF FormCounts, DataService!RpcTypeOK
<1>6. ASSUME NEW S \in SUBSET Field, InsertForm(S) PROVE FormCounts'
  <2>1. /\ dataRpc' = [f \in Field |-> IF f \in S /\ Described[f].data THEN "asked" ELSE dataRpc[f]]
        /\ UNCHANGED <<fieldValue, fieldNumeric, formEvents>>
    BY <1>6 DEF InsertForm
  <2>2. dataRpc' \in [Field -> {"idle", "asked"} \cup DataService!Endings]
    BY <1>0, <2>1
  <2>3. errorCount' \in Int
    BY <1>6, InsertFormCounts
  <2> QED BY <1>0, <2>1, <2>2, <2>3 DEF FormCounts, DataService!RpcTypeOK
<1> QED BY <1>1, <1>2, <1>3, <1>4, <1>5, <1>6 DEF FormNext

-----------------------------------------------------------------------------
(* Outputs *)

Texts == Input \cup Range(SavedAs) \cup {"welcome", "preferences"}
Icons == {"close", "collapse", "stick"}
Containers == [number : Nat, element : Nat, text : Texts, views : Nat, isVisible : SUBSET Nat,
               sticky : BOOLEAN, slides : Seq(Icons)]

OutputsInv ==
    /\ commandCount \in Nat /\ commandInput \in Input \cup {""}
    /\ outputs \in Seq(Containers)
    /\ TopFormIsVisible

LEMMA OutputsStart == OutputsInit => OutputsInv
<1> SUFFICES ASSUME OutputsInit PROVE OutputsInv
  OBVIOUS
<1>1. outputs = <<>> /\ commandCount = 0 /\ commandInput = ""
  BY DEF OutputsInit
<1>2. outputs \in Seq(Containers)
  BY <1>1, EmptySeq
<1>3. DOMAIN outputs = {}
  <2>1. Len(outputs) = 0
    BY <1>1
  <2> QED BY <1>2, <2>1, LenProperties
<1> QED BY <1>1, <1>2, <1>3 DEF OutputsInv, TopFormIsVisible

\* A new container goes before the others and shows the view it has.
LEMMA ContainerKeeps ==
    ASSUME OutputsInv, NEW number \in Nat, NEW element \in Nat, NEW text \in Texts, NEW views \in {0, 1},
           outputs' = <<Container(number, element, text, views)>> \o outputs
    PROVE  outputs' \in Seq(Containers) /\ TopFormIsVisible'
<1> DEFINE new == Container(number, element, text, views)
<1>1. new \in Containers /\ new.isVisible \ {1} = TopOf(new.views) \ {1}
  BY EmptySeq DEF Container, Containers, TopOf
<1> HIDE DEF new
<1>2. /\ <<new>> \in Seq(Containers) /\ outputs \in Seq(Containers) /\ Len(<<new>>) = 1
      /\ <<new>>[1] = new /\ outputs' = <<new>> \o outputs
  <2>1. outputs \in Seq(Containers)
    BY DEF OutputsInv
  <2>2. outputs' = <<new>> \o outputs
    BY DEF new
  <2> QED BY <1>1, <2>1, <2>2
<1>3. /\ outputs' \in Seq(Containers) /\ Len(outputs) \in Nat
      /\ DOMAIN outputs' = 1..1 + Len(outputs) /\ DOMAIN outputs = 1..Len(outputs)
      /\ \A i \in 1..1 + Len(outputs) : outputs'[i] = IF i <= 1 THEN new ELSE outputs[i - 1]
  BY <1>2, ConcatProperties, LenProperties
<1>4. TopFormIsVisible'
  <2> SUFFICES ASSUME NEW i \in 1..1 + Len(outputs)
               PROVE  outputs'[i].isVisible \ {1} = TopOf(outputs'[i].views) \ {1}
    BY <1>3 DEF TopFormIsVisible, Output, TopOf
  <2>1. CASE i = 1
    BY <1>1, <1>3, <2>1
  <2>2. CASE i # 1
    <3>1. i - 1 \in DOMAIN outputs /\ outputs'[i] = outputs[i - 1]
      BY <1>3, <2>2
    <3> QED BY <3>1 DEF OutputsInv, TopFormIsVisible, Output
  <2> QED BY <2>1, <2>2
<1> QED BY <1>3, <1>4

\* One container changes, and what it shows still is what is on top.
LEMMA ChangeKeeps ==
    ASSUME OutputsInv, NEW i \in DOMAIN outputs, NEW o \in Containers,
           o.isVisible \ {1} = TopOf(o.views) \ {1}, outputs' = [outputs EXCEPT ![i] = o]
    PROVE  outputs' \in Seq(Containers) /\ TopFormIsVisible'
<1>1. outputs \in Seq(Containers) /\ i \in 1..Len(outputs) /\ DOMAIN outputs = 1..Len(outputs)
  BY LenProperties DEF OutputsInv
<1>2. outputs' \in Seq(Containers)
  BY <1>1, ExceptSeq
<1>3. \A j \in DOMAIN outputs' : j \in DOMAIN outputs /\ outputs'[j] = IF j = i THEN o ELSE outputs[j]
  BY <1>1
<1>4. TopFormIsVisible'
  BY <1>3 DEF OutputsInv, TopFormIsVisible, Output, TopOf
<1> QED BY <1>2, <1>4

LEMMA OutputsStep == OutputsInv /\ (OutputsNext \/ UNCHANGED outputsVars) => OutputsInv'
<1> SUFFICES ASSUME OutputsInv, OutputsNext \/ UNCHANGED outputsVars PROVE OutputsInv'
  OBVIOUS
<1>1. ASSUME UNCHANGED outputs
      PROVE  outputs' \in Seq(Containers) /\ TopFormIsVisible'
  BY <1>1 DEF OutputsInv, TopFormIsVisible, Output, TopOf
<1>2. \A i \in DOMAIN outputs : Output(i) \in Containers
                               /\ Output(i).isVisible \ {1} = TopOf(Output(i).views) \ {1}
  BY ElementOfSeq, LenProperties DEF OutputsInv, TopFormIsVisible, Output
<1>3. CASE ExecuteInput
  <2>1. /\ commandCount' = commandCount + 1 /\ commandInput' = "" /\ commandInput \in Input
        /\ \E text \in {SavedAs[commandInput], commandInput}, views \in {0, 1} :
              /\ text = commandInput \/ commandInput \in DOMAIN SavedAs
              /\ outputs' = <<Container(commandCount', commandCount', text, views)>> \o outputs
    BY <1>3 DEF ExecuteInput, Known, ElementId, OutputsInv
  <2>2. commandCount' \in Nat
    <3>1. commandCount \in Nat /\ commandCount' = commandCount + 1
      BY <2>1 DEF OutputsInv
    <3> QED BY <3>1
  <2>3. PICK text \in Texts, views \in {0, 1} :
           outputs' = <<Container(commandCount', commandCount', text, views)>> \o outputs
    BY <2>1 DEF Texts, Range
  <2> DEFINE n == commandCount'
  <2>4. n \in Nat /\ outputs' = <<Container(n, n, text, views)>> \o outputs
    BY <2>2, <2>3
  <2> HIDE DEF n
  <2>5. outputs' \in Seq(Containers) /\ TopFormIsVisible'
    BY <2>4, ContainerKeeps
  <2> QED BY <2>1, <2>2, <2>5 DEF OutputsInv
<1>4. ASSUME NEW hideWelcome \in BOOLEAN, ShowWelcome(hideWelcome) PROVE OutputsInv'
  <2>1. UNCHANGED <<commandCount, commandInput>>
    BY <1>4 DEF ShowWelcome
  <2>2. CASE hideWelcome
    BY <1>1, <1>4, <2>1, <2>2 DEF ShowWelcome, OutputsInv
  <2>3. CASE ~ hideWelcome
    <3>1. outputs' = <<Container(0, commandCount, "welcome", 1)>> \o outputs
      BY <1>4, <2>1, <2>3 DEF ShowWelcome, ElementId
    <3>2. commandCount \in Nat /\ "welcome" \in Texts
      BY DEF OutputsInv, Texts
    <3>3. outputs' \in Seq(Containers) /\ TopFormIsVisible'
      BY <3>1, <3>2, ContainerKeeps
    <3> QED BY <2>1, <3>3 DEF OutputsInv
  <2> QED BY <2>2, <2>3
<1>5. CASE EditPreferences
  <2> DEFINE n == commandCount'
  <2>1. /\ n \in Nat /\ outputs' = <<Container(n, n, "preferences", 1)>> \o outputs
        /\ "preferences" \in Texts /\ commandInput' = commandInput
    <3>1. commandCount \in Nat /\ n = commandCount + 1
      BY <1>5 DEF EditPreferences, OutputsInv
    <3>2. n \in Nat
      BY <3>1
    <3> QED BY <1>5, <3>2 DEF EditPreferences, ElementId, Texts
  <2> HIDE DEF n
  <2>2. outputs' \in Seq(Containers) /\ TopFormIsVisible'
    BY <2>1, ContainerKeeps
  <2> QED BY <2>1, <2>2 DEF OutputsInv, n
<1>6. ASSUME NEW text \in Input, Fills(text) PROVE OutputsInv'
  BY <1>1, <1>6 DEF Fills, OutputsInv
<1>7. ASSUME NEW i \in DOMAIN outputs, NEW views \in Nat, Restack(i, views) PROVE OutputsInv'
  <2> DEFINE o == [Output(i) EXCEPT !.views = views, !.isVisible = TopOf(views)]
  <2>1. /\ outputs' = [outputs EXCEPT ![i].views = views, ![i].isVisible = TopOf(views)]
        /\ UNCHANGED <<commandCount, commandInput>>
    BY <1>7 DEF Restack
  <2>2. outputs' = [outputs EXCEPT ![i] = o]
    BY <2>1 DEF Output
  <2>3. o \in Containers /\ o.isVisible \ {1} = TopOf(o.views) \ {1}
    BY <1>2 DEF Containers, TopOf
  <2> HIDE DEF o
  <2>4. outputs' \in Seq(Containers) /\ TopFormIsVisible'
    BY <2>2, <2>3, ChangeKeeps
  <2> QED BY <2>1, <2>4 DEF OutputsInv
<1>8. ASSUME NEW i \in DOMAIN outputs, PushView(i) \/ DestroyTop(i) PROVE OutputsInv'
  <2>1. Output(i).views \in Nat
    BY <1>2 DEF Containers
  <2>2. CASE PushView(i)
    <3>1. Output(i).views + 1 \in Nat /\ Restack(i, Output(i).views + 1)
      BY <2>1, <2>2 DEF PushView
    <3> QED BY <1>7, <3>1
  <2>3. CASE DestroyTop(i)
    <3>1. Output(i).views - 1 \in Nat /\ Restack(i, Output(i).views - 1)
      BY <2>1, <2>3 DEF DestroyTop
    <3> QED BY <1>7, <3>1
  <2> QED BY <1>8, <2>2, <2>3
<1>9. ASSUME NEW i \in DOMAIN outputs, NEW what \in Icons, IconClick(i, what) PROVE OutputsInv'
  <2> DEFINE o == [Output(i) EXCEPT !.slides = Append(@, what)]
  <2>1. /\ outputs' = [outputs EXCEPT ![i].slides = Append(@, what)]
        /\ UNCHANGED <<commandCount, commandInput>>
    BY <1>9 DEF IconClick
  <2>2. outputs' = [outputs EXCEPT ![i] = o]
    BY <2>1 DEF Output
  <2>3. o \in Containers /\ o.isVisible \ {1} = TopOf(o.views) \ {1}
    <3>1. Append(Output(i).slides, what) \in Seq(Icons)
      BY <1>2, AppendProperties DEF Containers
    <3> QED BY <1>2, <3>1 DEF Containers
  <2> HIDE DEF o
  <2>4. outputs' \in Seq(Containers) /\ TopFormIsVisible'
    BY <2>2, <2>3, ChangeKeeps
  <2> QED BY <2>1, <2>4 DEF OutputsInv
<1>10. ASSUME NEW i \in DOMAIN outputs, SlideEnds(i) PROVE OutputsInv'
  <2> DEFINE what == Head(Output(i).slides)
             o == [Output(i) EXCEPT !.slides = Tail(@)]
  <2>1. /\ Output(i).slides # <<>> /\ UNCHANGED <<commandCount, commandInput>>
        /\ outputs' = [outputs EXCEPT ![i] =
              CASE what = "close"    -> o
                [] what = "collapse" -> [o EXCEPT !.isVisible = SymDiff(@, {1})]
                [] what = "stick"    -> [o EXCEPT !.sticky = ~ @]]
    BY <1>10 DEF SlideEnds
  <2>2. what \in Icons /\ Tail(Output(i).slides) \in Seq(Icons)
    BY <1>2, <2>1, HeadTailProperties DEF Containers
  <2>3. o \in Containers /\ o.isVisible \ {1} = TopOf(o.views) \ {1}
    BY <1>2, <2>2 DEF Containers
  <2> HIDE DEF o, what
  <2>4. /\ [o EXCEPT !.isVisible = SymDiff(@, {1})] \in Containers
        /\ [o EXCEPT !.sticky = ~ @] \in Containers
    <3>1. SymDiff(o.isVisible, {1}) \in SUBSET Nat
      BY <2>3 DEF Containers, SymDiff
    <3>2. (~ o.sticky) \in BOOLEAN
      OBVIOUS
    <3>3. \A visible \in SUBSET Nat, sticky \in BOOLEAN :
             /\ [o EXCEPT !.isVisible = visible] \in Containers
             /\ [o EXCEPT !.sticky = sticky] \in Containers
      BY <2>3 DEF Containers
    <3> QED BY <3>1, <3>2, <3>3
  <2>5. PICK new \in Containers : /\ outputs' = [outputs EXCEPT ![i] = new]
                                  /\ new.isVisible \ {1} = TopOf(new.views) \ {1}
    <3>1. CASE what = "close"
      BY <2>1, <2>3, <3>1
    <3>2. CASE what = "collapse"
      BY <2>1, <2>3, <2>4, <3>2 DEF SymDiff, Containers
    <3>3. CASE what = "stick"
      BY <2>1, <2>3, <2>4, <3>3 DEF Containers
    <3> QED BY <2>2, <3>1, <3>2, <3>3 DEF Icons
  <2>6. outputs' \in Seq(Containers) /\ TopFormIsVisible'
    BY <2>5, ChangeKeeps
  <2> QED BY <2>1, <2>6 DEF OutputsInv
<1>11. ASSUME UNCHANGED <<outputs, commandCount, commandInput>> PROVE OutputsInv'
  BY <1>1, <1>11 DEF OutputsInv
<1>12. ASSUME NEW i \in DOMAIN outputs, HeaderClick(i) PROVE OutputsInv'
  BY <1>6, <1>12 DEF HeaderClick
<1>13. ASSUME NEW text \in Input, UserTypes(text) \/ MruClick(text) PROVE OutputsInv'
  BY <1>6, <1>13 DEF UserTypes, MruClick
<1>14. ASSUME NEW i \in DOMAIN outputs, CloseFailed(i) PROVE OutputsInv'
  BY <1>11, <1>14 DEF CloseFailed
<1>15. CASE TogglePulldown \/ UNCHANGED outputsVars
  BY <1>11, <1>15 DEF TogglePulldown, outputsVars
<1> QED BY <1>3, <1>4, <1>5, <1>8, <1>9, <1>10, <1>12, <1>13, <1>14, <1>15 DEF OutputsNext, Icons

\* The list of recent commands is a copy of the history, unless that has been cleared.
HistoryInv ==
    /\ loaded \in BOOLEAN /\ pulldown \in BOOLEAN
    /\ history \in Seq(Range(SavedAs)) /\ mruContent \in Seq(Range(SavedAs))
    /\ history # <<>> => mruContent = history

LEMMA HistoryStart == OutputsInit => HistoryInv
<1> SUFFICES ASSUME OutputsInit PROVE HistoryInv
  OBVIOUS
<1>1. \A c \in Range(SavedAs) : <<c>> \in Seq(Range(SavedAs))
  OBVIOUS
<1>2. <<>> \in Seq(Range(SavedAs))
  BY EmptySeq
<1> QED BY <1>1, <1>2 DEF OutputsInit, HistoryInv

LEMMA HistoryStep == HistoryInv /\ (OutputsNext \/ UNCHANGED outputsVars) => HistoryInv'
<1> SUFFICES ASSUME HistoryInv, OutputsNext \/ UNCHANGED outputsVars PROVE HistoryInv'
  OBVIOUS
<1>1. CASE ExecuteInput
  <2>1. /\ UNCHANGED <<loaded, pulldown>> /\ mruContent' = Saved
        /\ history' = <<>> \/ history' = Saved
    BY <1>1 DEF ExecuteInput, ReadsHistory
  <2>2. Saved \in Seq(Range(SavedAs))
    <3>1. Known => SavedAs[commandInput] \in Range(SavedAs)
      BY DEF Known, Range
    <3> QED BY <3>1, AppendProperties DEF HistoryInv, Saved
  <2>3. <<>> \in Seq(Range(SavedAs))
    BY EmptySeq
  <2> QED BY <2>1, <2>2, <2>3 DEF HistoryInv
<1>2. CASE UNCHANGED <<history, mruContent>> /\ loaded' \in BOOLEAN /\ pulldown' \in BOOLEAN
  BY <1>2 DEF HistoryInv
<1>3. ASSUME NEW hideWelcome \in BOOLEAN, ShowWelcome(hideWelcome) PROVE HistoryInv'
  BY <1>2, <1>3 DEF ShowWelcome, HistoryInv
<1>4. CASE EditPreferences \/ TogglePulldown
  BY <1>2, <1>4 DEF EditPreferences, TogglePulldown, HistoryInv
<1>5. ASSUME NEW text \in Input, UserTypes(text) \/ MruClick(text) PROVE HistoryInv'
  BY <1>2, <1>5 DEF UserTypes, MruClick, Fills, HistoryInv
<1>6. ASSUME NEW i \in DOMAIN outputs, NEW what \in Icons,
             \/ HeaderClick(i) \/ PushView(i) \/ DestroyTop(i) \/ CloseFailed(i) \/ SlideEnds(i)
             \/ IconClick(i, what)
      PROVE  HistoryInv'
  BY <1>2, <1>6 DEF HeaderClick, Fills, PushView, DestroyTop, Restack, CloseFailed, SlideEnds,
                    IconClick, HistoryInv
<1>7. CASE UNCHANGED outputsVars
  BY <1>7 DEF outputsVars, HistoryInv
<1> QED BY <1>1, <1>3, <1>4, <1>5, <1>6, <1>7 DEF OutputsNext, Icons

LEMMA HistoryInvSuffices == HistoryInv => MruIsRecency
<1> SUFFICES ASSUME HistoryInv, history # <<>>
             PROVE  /\ IsInjective(Mru(history)) /\ Range(Mru(history)) = Range(history)
                    /\ \A j, k \in DOMAIN Mru(history) : j < k =>
                          \E n \in DOMAIN history :
                             /\ history[n] = Mru(history)[j]
                             /\ \A m \in n..Len(history) : history[m] # Mru(history)[k]
  BY DEF MruIsRecency, HistoryInv
<1> DEFINE X == Range(SavedAs)
<1>1. history \in Seq(X) /\ DOMAIN history = 1..Len(history)
  BY LenProperties DEF HistoryInv
<1> HIDE DEF X
<1>2. RecencyAt(Mru(history), history, Len(history))
  BY <1>1, MruRecency
<1>3. Range(Mru(history)) = Range(history)
  <2>1. \A i \in DOMAIN Mru(history) : \E m \in DOMAIN history : history[m] = Mru(history)[i]
    BY <1>1, <1>2 DEF RecencyAt
  <2>2. \A m \in DOMAIN history : \E i \in DOMAIN Mru(history) : Mru(history)[i] = history[m]
    BY <1>1, <1>2 DEF RecencyAt
  <2> QED BY <2>1, <2>2 DEF Range
<1> QED BY <1>1, <1>2, <1>3 DEF RecencyAt

\* A container of the page after n commands
Bounded(o, n) ==
    /\ o.number \in 0..n /\ o.element \in 0..n
    /\ o.views \in 0..(MaxForm + 1) /\ o.isVisible \subseteq 1..(MaxForm + 1)

OutputsBounds ==
    /\ commandCount <= Len(outputs) /\ Len(outputs) <= MaxOutput
    /\ \A i \in DOMAIN outputs : Bounded(outputs[i], commandCount)
    /\ closed \subseteq 0..commandCount /\ toggled \subseteq (0..commandCount) \X (0..commandCount)

LEMMA OutputsBoundsStart == OutputsInit => OutputsBounds
<1> SUFFICES ASSUME OutputsInit PROVE OutputsBounds
  OBVIOUS
<1>1. outputs = <<>> /\ commandCount = 0 /\ closed = {} /\ toggled = {}
  BY DEF OutputsInit
<1>2. Len(outputs) = 0 /\ DOMAIN outputs = {}
  BY <1>1
<1>3. 0 <= MaxOutput
  <2>1. MaxOutput \in Nat
    BY OutputsAssumption
  <2> QED BY <2>1
<1> QED BY <1>1, <1>2, <1>3 DEF OutputsBounds

\* A new container goes before the others; the count goes on by one or stays.
LEMMA ContainerFits ==
    ASSUME OutputsInv, OutputsBounds, NEW number \in Nat, NEW n \in Nat, NEW text \in Texts,
           NEW views \in {0, 1}, number <= n, n = commandCount \/ n = commandCount + 1,
           commandCount' = n, UNCHANGED <<closed, toggled>>, Len(outputs) < MaxOutput,
           outputs' = <<Container(number, n, text, views)>> \o outputs
    PROVE  OutputsBounds'
<1> DEFINE new == Container(number, n, text, views)
<1>1. new \in Containers /\ new.number = number /\ new.element = n /\ new.views = views
      /\ new.isVisible = {views} \ {0}
  BY EmptySeq DEF Container, Containers
<1>2. MaxForm \in Nat /\ MaxOutput \in Nat /\ commandCount \in Nat
  BY OutputsAssumption DEF OutputsInv
<1>3. Bounded(new, n)
  BY <1>1, <1>2 DEF Bounded
<1> HIDE DEF new
<1>4. outputs' = <<new>> \o outputs /\ outputs \in Seq(Containers)
  BY DEF new, OutputsInv
<1>5. <<new>> \in Seq(Containers) /\ Len(<<new>>) = 1 /\ <<new>>[1] = new
  BY <1>1
<1>6. /\ outputs' \in Seq(Containers) /\ Len(outputs) \in Nat
      /\ Len(outputs') = 1 + Len(outputs) /\ DOMAIN outputs' = 1..Len(outputs') /\ DOMAIN outputs = 1..Len(outputs)
      /\ \A i \in 1..1 + Len(outputs) : outputs'[i] = IF i <= 1 THEN new ELSE outputs[i - 1]
  BY <1>4, <1>5, ConcatProperties, LenProperties
<1>7. 0..commandCount \subseteq 0..n
  BY <1>2
<1>8. ASSUME NEW i \in DOMAIN outputs' PROVE Bounded(outputs'[i], n)
  <2>1. CASE i = 1
    BY <1>3, <1>6, <2>1
  <2>2. CASE i # 1
    <3>1. i - 1 \in DOMAIN outputs /\ outputs'[i] = outputs[i - 1]
      BY <1>6, <2>2
    <3>2. Bounded(outputs[i - 1], commandCount)
      BY <3>1 DEF OutputsBounds
    <3> QED BY <1>7, <3>1, <3>2 DEF Bounded
  <2> QED BY <2>1, <2>2
<1>9. commandCount' <= Len(outputs') /\ Len(outputs') <= MaxOutput
  BY <1>2, <1>6 DEF OutputsBounds
<1>10. closed' \subseteq 0..n /\ toggled' \subseteq (0..n) \X (0..n)
  BY <1>7 DEF OutputsBounds
<1> QED BY <1>8, <1>9, <1>10 DEF OutputsBounds, Bounded

\* One container changes.
LEMMA ChangeFits ==
    ASSUME OutputsInv, OutputsBounds, NEW i \in DOMAIN outputs, NEW o, Bounded(o, commandCount),
           outputs' = [outputs EXCEPT ![i] = o], UNCHANGED <<commandCount, toggled>>,
           closed' \subseteq closed \cup {o.number}
    PROVE  OutputsBounds'
<1>1. DOMAIN outputs' = DOMAIN outputs /\ DOMAIN outputs = 1..Len(outputs) /\ Len(outputs) \in Nat
  BY LenProperties DEF OutputsInv
<1>2. \A j \in DOMAIN outputs' : Bounded(outputs'[j], commandCount)
  BY <1>1 DEF OutputsBounds
<1>3. Len(outputs') = Len(outputs)
  <2>1. outputs' = [j \in 1..Len(outputs) |-> outputs'[j]]
    BY <1>1
  <2> QED BY <1>1, <2>1
<1>4. closed' \subseteq 0..commandCount
  BY DEF OutputsBounds, Bounded
<1> QED BY <1>2, <1>3, <1>4 DEF OutputsBounds, Bounded

LEMMA OutputsBoundsStep ==
    OutputsInv /\ OutputsBounds /\ (OutputsNext \/ UNCHANGED outputsVars) => OutputsBounds'
<1> SUFFICES ASSUME OutputsInv, OutputsBounds, OutputsNext \/ UNCHANGED outputsVars
             PROVE  OutputsBounds'
  OBVIOUS
<1>1. ASSUME UNCHANGED <<outputs, commandCount, closed, toggled>> PROVE OutputsBounds'
  BY <1>1 DEF OutputsBounds, Bounded
<1>2. commandCount \in Nat /\ commandCount + 1 \in Nat /\ MaxForm \in Nat
  <2>1. commandCount \in Nat /\ MaxForm \in Nat
    BY OutputsAssumption DEF OutputsInv
  <2> QED BY <2>1
<1>3. \A i \in DOMAIN outputs : /\ Bounded(Output(i), commandCount) /\ Output(i) \in Containers
                               /\ Output(i) = outputs[i]
  BY ElementOfSeq, LenProperties DEF OutputsInv, OutputsBounds, Output
<1> DEFINE n == commandCount + 1
<1>4. CASE ExecuteInput
  <2>1. /\ commandCount' = n /\ commandInput \in Input /\ Len(outputs) < MaxOutput
        /\ UNCHANGED <<closed, toggled>>
        /\ \E text \in {SavedAs[commandInput], commandInput}, views \in {0, 1} :
              /\ text = commandInput \/ commandInput \in DOMAIN SavedAs
              /\ outputs' = <<Container(n, n, text, views)>> \o outputs
    BY <1>4 DEF ExecuteInput, Known, ElementId, OutputsInv
  <2>2. PICK text \in Texts, views \in {0, 1} : outputs' = <<Container(n, n, text, views)>> \o outputs
    BY <2>1 DEF Texts, Range
  <2>3. n \in Nat /\ n = commandCount + 1
    BY <1>2
  <2> HIDE DEF n
  <2>4. n <= n
    BY <2>3
  <2> QED BY <2>1, <2>2, <2>3, <2>4, ContainerFits
<1>5. CASE EditPreferences
  <2>1. /\ commandCount' = n /\ Len(outputs) < MaxOutput /\ UNCHANGED <<closed, toggled>>
        /\ outputs' = <<Container(n, n, "preferences", 1)>> \o outputs /\ "preferences" \in Texts
    BY <1>5 DEF EditPreferences, ElementId, Texts
  <2>3. n \in Nat /\ n = commandCount + 1
    BY <1>2
  <2> HIDE DEF n
  <2>4. n <= n
    BY <2>3
  <2> QED BY <2>1, <2>3, <2>4, ContainerFits
<1>6. ASSUME NEW hideWelcome \in BOOLEAN, ShowWelcome(hideWelcome) PROVE OutputsBounds'
  <2> DEFINE m == commandCount
  <2>1. CASE hideWelcome
    BY <1>1, <1>6, <2>1 DEF ShowWelcome
  <2>2. CASE ~ hideWelcome
    <3>1. /\ commandCount' = m /\ Len(outputs) < MaxOutput /\ UNCHANGED <<closed, toggled>>
          /\ outputs' = <<Container(0, m, "welcome", 1)>> \o outputs /\ "welcome" \in Texts
      BY <1>6, <2>2 DEF ShowWelcome, ElementId, Texts
    <3>2. m \in Nat /\ m = commandCount /\ 0 <= m
      BY <1>2
    <3> HIDE DEF m
    <3> QED BY <3>1, <3>2, ContainerFits
  <2> QED BY <2>1, <2>2
<1>7. ASSUME NEW i \in DOMAIN outputs, PushView(i) \/ DestroyTop(i) PROVE OutputsBounds'
  <2>1. Output(i).views \in Nat /\ Output(i).views <= MaxForm + 1
    BY <1>2, <1>3 DEF Containers, Bounded
  <2>2. PICK views : /\ \/ views = Output(i).views + 1 /\ Output(i).views <= MaxForm
                        \/ views = Output(i).views - 1 /\ Output(i).views > 1
                     /\ Restack(i, views)
    <3>1. CASE PushView(i)
      BY <3>1 DEF PushView
    <3>2. CASE DestroyTop(i)
      BY <3>2 DEF DestroyTop
    <3> QED BY <1>7, <3>1, <3>2
  <2>3. views \in 1..(MaxForm + 1)
    BY <1>2, <2>1, <2>2
  <2> DEFINE o == [Output(i) EXCEPT !.views = views, !.isVisible = TopOf(views)]
  <2>4. outputs' = [outputs EXCEPT ![i] = o] /\ UNCHANGED <<commandCount, closed, toggled>>
    BY <2>2 DEF Restack, Output
  <2>5. Bounded(o, commandCount)
    BY <1>2, <1>3, <2>3 DEF Bounded, Containers, TopOf
  <2> HIDE DEF o
  <2> QED BY <2>4, <2>5, ChangeFits
<1>8. ASSUME NEW i \in DOMAIN outputs, NEW what \in Icons, IconClick(i, what) PROVE OutputsBounds'
  <2> DEFINE o == [Output(i) EXCEPT !.slides = Append(@, what)]
  <2>1. outputs' = [outputs EXCEPT ![i] = o] /\ UNCHANGED <<commandCount, closed, toggled>>
    BY <1>8 DEF IconClick, Output
  <2>2. Bounded(o, commandCount)
    BY <1>3 DEF Bounded, Containers
  <2> HIDE DEF o
  <2> QED BY <2>1, <2>2, ChangeFits
<1>9. ASSUME NEW i \in DOMAIN outputs, SlideEnds(i) PROVE OutputsBounds'
  <2> DEFINE what == Head(Output(i).slides)
             o == [Output(i) EXCEPT !.slides = Tail(@)]
             new == CASE what = "close"    -> o
                      [] what = "collapse" -> [o EXCEPT !.isVisible = SymDiff(@, {1})]
                      [] what = "stick"    -> [o EXCEPT !.sticky = ~ @]
  <2>1. /\ Output(i).slides # <<>> /\ UNCHANGED <<commandCount, toggled>>
        /\ outputs' = [outputs EXCEPT ![i] = new]
        /\ closed' \subseteq closed \cup {o.number}
    BY <1>9 DEF SlideEnds
  <2>2. what \in Icons
    BY <1>3, <2>1, HeadTailProperties DEF Containers
  <2>3. o \in Containers /\ Bounded(o, commandCount)
    <3>1. Tail(Output(i).slides) \in Seq(Icons)
      BY <1>3, <2>1, HeadTailProperties DEF Containers
    <3> QED BY <1>3, <3>1 DEF Bounded, Containers
  <2> HIDE DEF o
  <2>4. 1 \in 1..(MaxForm + 1)
    BY <1>2
  <2>5. \/ new = o \/ new = [o EXCEPT !.isVisible = SymDiff(o.isVisible, {1})]
        \/ new = [o EXCEPT !.sticky = ~ o.sticky]
    BY <2>2 DEF Icons
  <2> HIDE DEF new
  <2>6. Bounded(new, commandCount) /\ new.number = o.number
    <3>1. CASE new = o
      BY <2>3, <3>1
    <3>2. CASE new = [o EXCEPT !.isVisible = SymDiff(o.isVisible, {1})]
      BY <2>3, <2>4, <3>2 DEF Bounded, SymDiff, Containers
    <3>3. CASE new = [o EXCEPT !.sticky = ~ o.sticky]
      BY <2>3, <3>3 DEF Bounded, Containers
    <3> QED BY <2>5, <3>1, <3>2, <3>3
  <2> QED BY <2>1, <2>6, ChangeFits
<1>10. ASSUME NEW i \in DOMAIN outputs, CloseFailed(i) PROVE OutputsBounds'
  <2> DEFINE found == {j \in DOMAIN outputs : IsOpen(j) /\ Output(j).element = Output(i).number}
             first == CHOOSE j \in found : \A k \in found : j <= k
  <2>1. /\ UNCHANGED <<outputs, commandCount, closed>>
        /\ toggled' = toggled \cup (IF found = {} THEN {} ELSE {<<Output(i).number, Output(first).number>>})
    BY <1>10 DEF CloseFailed
  <2>2. found # {} => first \in DOMAIN outputs
    <3> SUFFICES ASSUME found # {} PROVE first \in found
      OBVIOUS
    <3>1. found \in SUBSET Nat
      <4>1. DOMAIN outputs = 1..Len(outputs)
        BY LenProperties DEF OutputsInv
      <4> QED BY <4>1
    <3> HIDE DEF found
    <3>2. \E j \in found : \A k \in found : j <= k
      BY <3>1, LeastOf
    <3> QED BY <3>2
  <2> HIDE DEF found, first
  <2>3. toggled' \subseteq (0..commandCount) \X (0..commandCount)
    BY <1>3, <2>1, <2>2 DEF OutputsBounds, Bounded
  <2> QED BY <2>1, <2>3 DEF OutputsBounds, Bounded
<1>11. CASE TogglePulldown \/ UNCHANGED outputsVars \/ \E text \in Input : UserTypes(text) \/ MruClick(text)
  BY <1>1, <1>11 DEF TogglePulldown, outputsVars, UserTypes, MruClick, Fills
<1>12. ASSUME NEW i \in DOMAIN outputs, HeaderClick(i) PROVE OutputsBounds'
  BY <1>1, <1>12 DEF HeaderClick, Fills
<1> QED BY <1>4, <1>5, <1>6, <1>7, <1>8, <1>9, <1>10, <1>11, <1>12 DEF OutputsNext, Icons

LEMMA OutputsTyped == OutputsInv /\ HistoryInv /\ OutputsBounds => OutputsTypeOK
<1> SUFFICES ASSUME OutputsInv, HistoryInv, OutputsBounds PROVE OutputsTypeOK
  OBVIOUS
<1>1. commandCount \in 0..MaxOutput
  <2>1. commandCount \in Nat /\ Len(outputs) \in Nat /\ MaxOutput \in Nat
    BY OutputsAssumption, LenProperties DEF OutputsInv
  <2> QED BY <2>1 DEF OutputsBounds
<1>2. ASSUME NEW i \in DOMAIN outputs
      PROVE  /\ Bounded(Output(i), commandCount) /\ Output(i).sticky \in BOOLEAN
             /\ Output(i).slides \in Seq({"close", "collapse", "stick"})
  <2>1. outputs[i] \in Containers
    BY ElementOfSeq, LenProperties DEF OutputsInv
  <2> QED BY <2>1 DEF OutputsBounds, Containers, Icons, Output
<1> QED BY <1>1, <1>2 DEF OutputsTypeOK, OutputsInv, HistoryInv, OutputsBounds, Bounded

-----------------------------------------------------------------------------
(* Commands *)

CommandTypes ==
    /\ lastMuxer \in 0..MaxMuxer /\ muxer \in 0..lastMuxer
    /\ link = [m \in 1..MaxMuxer |-> link[m]]
    /\ cmdCall \in [Cmd -> {"idle", "asked"} \cup Service!Endings]
    /\ command = [c \in Cmd |-> command[c]]
    /\ full \in [Cmd -> Nat] /\ heard \in [Cmd -> Seq(BOOLEAN)] /\ waits \in [Cmd -> BOOLEAN]
    /\ shown = [c \in Cmd |-> shown[c]] /\ cmdPrompt = [c \in Cmd |-> cmdPrompt[c]]

\* A question that a command is still asked for holds it back, so it cannot be cancelled
\* after the reply is complete.
PromptHolds(c) ==
    cmdPrompt[c] # "none" => \/ cmdCall[c] = "asked" /\ waits[c]
                             \/ cmdCall[c] \in {"error", "close"}

\* Success of what is not a stream is told once it is complete, and what is shown stays.
WholeIf(c) ==
    ~ Stream(c) /\ Contains(heard[c], TRUE) =>
        cmdCall[c] = "complete" /\ (HasView(c) => shown[c] = Shows("output", 1, full[c]))

\* Who is told of the end of a command, for each end
ToldIf(c) ==
    ~ Stream(c) => Len(heard[c]) = IF /\ cmdCall[c] \in Service!Endings
                                      /\ \/ cmdCall[c] = "complete"
                                         \/ full[c] = 0 /\ (HasView(c) \/ cmdCall[c] = "error")
                                   THEN 1 ELSE 0

\* A command that a connection forgot is behind one that made forceClose throw.
Forgotten(c) ==
    cmdCall[c] = "asked" /\ link[command[c].via] = "closed" =>
        \E d \in 1..(c - 1) : /\ command[d].kind = "silent" /\ cmdCall[d] = "close"
                              /\ command[d].via = command[c].via /\ full[d] = 0

CommandInv(c) ==
    /\ cmdCall[c] \in {"idle", "asked"} => heard[c] = <<>>
    /\ cmdCall[c] # "idle" => command[c].via \in 1..lastMuxer
    /\ PromptHolds(c) /\ WholeIf(c) /\ ToldIf(c)

\* The muxer the page has is one whose connection has not ended.
CommandsInv ==
    /\ CommandTypes
    /\ muxer # NoMuxer => link[muxer] \in {"opening", "ready"}
    /\ \A c \in Cmd : CommandInv(c) /\ Forgotten(c)

LEMMA CommandsInvSuffices == CommandsInv => TrueIsWhole /\ EndsAreHeard
<1> SUFFICES ASSUME CommandsInv PROVE TrueIsWhole /\ EndsAreHeard
  OBVIOUS
<1>1. TrueIsWhole
  BY DEF CommandsInv, CommandInv, WholeIf, TrueIsWhole
<1>2. EndsAreHeard
  BY DEF CommandsInv, CommandInv, ToldIf, Forgotten, EndsAreHeard
<1> QED BY <1>1, <1>2

LEMMA CommandsStart == CommandsInit => CommandsInv
<1> SUFFICES ASSUME CommandsInit PROVE CommandsInv
  OBVIOUS
<1>1. CommandTypes
  <2>1. heard \in [Cmd -> Seq(BOOLEAN)]
    BY EmptySeq DEF CommandsInit
  <2>2. waits \in [Cmd -> BOOLEAN] /\ full \in [Cmd -> Nat] /\ lastMuxer \in 0..MaxMuxer
    BY CommandsAssumption DEF CommandsInit
  <2> QED BY <2>1, <2>2 DEF CommandsInit, CommandTypes, NoMuxer
<1>2. \A c \in Cmd : cmdCall[c] = "idle" /\ heard[c] = <<>> /\ Len(heard[c]) = 0 /\ cmdPrompt[c] = "none"
  BY DEF CommandsInit
<1>3. \A c \in Cmd : CommandInv(c) /\ Forgotten(c)
  BY <1>2 DEF CommandInv, Forgotten, PromptHolds, WholeIf, ToldIf, Contains, Service!Endings
<1> QED BY <1>1, <1>3 DEF CommandsInit, CommandsInv, NoMuxer

\* One command goes on and no other; its connection stays as it is.
LEMMA OneCommandKeeps ==
    ASSUME CommandsInv, CommandTypes', NEW c \in Cmd, CommandInv(c)', cmdCall'[c] # "idle",
           UNCHANGED <<muxer, lastMuxer, link>>,
           \A d \in Cmd : d # c => UNCHANGED <<cmdCall[d], command[d], full[d], shown[d], heard[d],
                                              cmdPrompt[d], waits[d]>>,
           command'[c] = command[c], cmdCall'[c] = "asked" => cmdCall[c] = "asked",
           cmdCall[c] = "close" => cmdCall'[c] = "close" /\ full'[c] = full[c]
    PROVE  CommandsInv'
<1>1. ASSUME NEW d \in Cmd PROVE CommandInv(d)'
  <2>1. CASE d = c
    BY <2>1
  <2>2. CASE d # c
    <3>1. /\ cmdCall'[d] = cmdCall[d] /\ command'[d] = command[d] /\ full'[d] = full[d]
          /\ shown'[d] = shown[d] /\ heard'[d] = heard[d] /\ cmdPrompt'[d] = cmdPrompt[d]
          /\ waits'[d] = waits[d] /\ lastMuxer' = lastMuxer /\ link' = link
      BY <2>2
    <3>2. CommandInv(d)
      BY DEF CommandsInv
    <3>3. (Stream(d)' <=> Stream(d)) /\ (HasView(d)' <=> HasView(d))
      BY <3>1 DEF Stream, HasView
    <3>4. PromptHolds(d)'
      BY <3>1, <3>2 DEF CommandInv, PromptHolds
    <3>5. WholeIf(d)'
      BY <3>1, <3>2, <3>3 DEF CommandInv, WholeIf
    <3>6. ToldIf(d)'
      BY <3>1, <3>2, <3>3 DEF CommandInv, ToldIf
    <3> QED BY <3>1, <3>2, <3>4, <3>5, <3>6 DEF CommandInv
  <2> QED BY <2>1, <2>2
<1>2. ASSUME NEW d \in Cmd PROVE Forgotten(d)'
  <2> SUFFICES ASSUME cmdCall'[d] = "asked", link'[command'[d].via] = "closed"
               PROVE  \E e \in 1..(d - 1) : /\ command'[e].kind = "silent" /\ cmdCall'[e] = "close"
                                            /\ command'[e].via = command'[d].via /\ full'[e] = 0
    BY DEF Forgotten
  <2>1. cmdCall[d] = "asked" /\ command'[d] = command[d]
    OBVIOUS
  <2>2. PICK e \in 1..(d - 1) : /\ command[e].kind = "silent" /\ cmdCall[e] = "close"
                                /\ command[e].via = command[d].via /\ full[e] = 0
    BY <2>1 DEF CommandsInv, Forgotten
  <2>3. e \in Cmd
    BY CommandsAssumption DEF Cmd
  <2> QED BY <2>1, <2>2, <2>3
<1> QED BY <1>1, <1>2 DEF CommandsInv

LEMMA RunCommandKeeps ==
    ASSUME CommandsInv, NEW c \in Cmd, NEW kind \in CommandKind, NEW target, RunCommand(c, kind, target)
    PROVE  CommandsInv'
<1>1. /\ cmdCall[c] = "idle" /\ cmdCall' = [cmdCall EXCEPT ![c] = "asked"]
      /\ IF muxer = NoMuxer
         THEN /\ lastMuxer < MaxMuxer
              /\ lastMuxer' = lastMuxer + 1 /\ muxer' = lastMuxer'
              /\ link' = [link EXCEPT ![lastMuxer'] = "opening"]
         ELSE UNCHANGED <<muxer, lastMuxer, link>>
      /\ command' = [command EXCEPT ![c] = [kind |-> kind, target |-> target, via |-> muxer']]
      /\ shown' = [shown EXCEPT ![c] = IF kind = "silent" THEN Nothing ELSE Loading]
      /\ UNCHANGED <<full, heard, cmdPrompt, waits>>
  BY DEF RunCommand, Service!Ask
<1>2. CommandTypes /\ \A d \in Cmd : CommandInv(d) /\ Forgotten(d)
  BY DEF CommandsInv
<1>3. MaxMuxer \in Nat /\ lastMuxer \in 0..MaxMuxer /\ muxer \in 0..lastMuxer
  BY <1>2, CommandsAssumption DEF CommandTypes
<1>4. /\ muxer' \in 1..lastMuxer' /\ lastMuxer' \in 0..MaxMuxer /\ lastMuxer <= lastMuxer'
      /\ link' = [m \in 1..MaxMuxer |-> link'[m]] /\ link'[muxer'] \in {"opening", "ready"}
      /\ \A m \in 1..MaxMuxer : link'[m] = "closed" => link[m] = "closed"
  <2>1. CASE muxer = NoMuxer
    <3>1. lastMuxer' = lastMuxer + 1 /\ lastMuxer + 1 \in 1..MaxMuxer /\ muxer' = lastMuxer + 1
      BY <1>1, <1>3, <2>1
    <3>2. link' = [link EXCEPT ![lastMuxer + 1] = "opening"] /\ link = [m \in 1..MaxMuxer |-> link[m]]
      BY <1>1, <1>2, <2>1 DEF CommandTypes
    <3>3. muxer' \in 1..lastMuxer' /\ lastMuxer' \in 0..MaxMuxer /\ lastMuxer <= lastMuxer'
      BY <1>3, <3>1
    <3> DEFINE n == lastMuxer + 1
    <3>4. n \in 1..MaxMuxer /\ link' = [link EXCEPT ![n] = "opening"] /\ muxer' = n
      BY <3>1, <3>2
    <3> HIDE DEF n
    <3>5. /\ link' = [m \in 1..MaxMuxer |-> link'[m]] /\ link'[n] = "opening"
          /\ \A m \in 1..MaxMuxer : link'[m] = "closed" => link[m] = "closed"
      BY <3>2, <3>4
    <3> QED BY <3>3, <3>4, <3>5
  <2>2. CASE muxer # NoMuxer
    BY <1>1, <1>2, <1>3, <2>2 DEF CommandsInv, CommandTypes, NoMuxer
  <2> QED BY <2>1, <2>2
<1>5. CommandTypes'
  <2>1. cmdCall' \in [Cmd -> {"idle", "asked"} \cup Service!Endings]
    BY <1>1, <1>2 DEF CommandTypes
  <2>2. command' = [d \in Cmd |-> command'[d]] /\ shown' = [d \in Cmd |-> shown'[d]]
    BY <1>1, <1>2 DEF CommandTypes
  <2>3. muxer' \in 0..lastMuxer'
    BY <1>3, <1>4
  <2> QED BY <1>1, <1>2, <1>4, <2>1, <2>2, <2>3 DEF CommandTypes
<1>6. /\ cmdCall'[c] = "asked" /\ command'[c].via = muxer' /\ heard'[c] = <<>> /\ cmdPrompt'[c] = "none"
      /\ \A d \in Cmd : d # c => UNCHANGED <<cmdCall[d], command[d], shown[d]>>
  BY <1>1, <1>2 DEF CommandTypes, CommandInv, PromptHolds
<1>7. ASSUME NEW d \in Cmd PROVE CommandInv(d)'
  <2>1. CASE d = c
    <3>1. Len(heard'[c]) = 0
      BY <1>6
    <3> QED BY <1>4, <1>6, <2>1, <3>1 DEF CommandInv, PromptHolds, WholeIf, ToldIf, Contains, Service!Endings
  <2>2. CASE d # c
    <3>1. CommandInv(d) /\ UNCHANGED <<cmdCall[d], command[d], shown[d], full[d], heard[d], cmdPrompt[d], waits[d]>>
      BY <1>1, <1>2, <1>6, <2>2
    <3>2. cmdCall'[d] # "idle" => command'[d].via \in 1..lastMuxer'
      BY <1>3, <1>4, <3>1 DEF CommandInv
    <3> QED BY <3>1, <3>2 DEF CommandInv, PromptHolds, WholeIf, ToldIf, Stream, HasView
  <2> QED BY <2>1, <2>2
<1>8. ASSUME NEW d \in Cmd PROVE Forgotten(d)'
  <2> SUFFICES ASSUME cmdCall'[d] = "asked", link'[command'[d].via] = "closed"
               PROVE  \E e \in 1..(d - 1) : /\ command'[e].kind = "silent" /\ cmdCall'[e] = "close"
                                            /\ command'[e].via = command'[d].via /\ full'[e] = 0
    BY DEF Forgotten
  <2>1. d # c
    BY <1>4, <1>6
  <2>2. cmdCall[d] = "asked" /\ command'[d] = command[d] /\ command[d].via \in 1..MaxMuxer
    BY <1>2, <1>3, <1>6, <2>1 DEF CommandInv
  <2>3. link[command[d].via] = "closed"
    BY <1>4, <2>2
  <2>4. PICK e \in 1..(d - 1) : /\ command[e].kind = "silent" /\ cmdCall[e] = "close"
                                /\ command[e].via = command[d].via /\ full[e] = 0
    BY <1>2, <2>2, <2>3 DEF Forgotten
  <2>5. e \in Cmd /\ e # c
    BY <1>1, <2>4, CommandsAssumption DEF Cmd
  <2> QED BY <1>1, <1>6, <2>2, <2>4, <2>5
<1> QED BY <1>4, <1>5, <1>7, <1>8 DEF CommandsInv

\* The callbacks and prompts of one command
LEMMA CommandKeeps ==
    ASSUME CommandsInv, NEW c \in Cmd, NEW what \in {"hostkey", "secret"},
           \/ Replied(c) \/ Completed(c) \/ Failed(c) \/ PromptFor(c, what)
           \/ UserAnswers(c) \/ UserCancels(c)
    PROVE  CommandsInv'
<1>1. CommandTypes /\ CommandInv(c)
  BY DEF CommandsInv
<1>2. /\ UNCHANGED <<muxer, lastMuxer, link, command>>
      /\ cmdCall[c] # "idle" => command[c].via \in 1..lastMuxer
  BY <1>1 DEF CommandInv, Replied, Completed, Failed, PromptFor, UserAnswers, UserCancels
<1> DEFINE Others == \A d \in Cmd : d # c => UNCHANGED <<cmdCall[d], command[d], full[d], shown[d],
                                                        heard[d], cmdPrompt[d], waits[d]>>
<1>3. ASSUME CommandTypes', CommandInv(c)', cmdCall'[c] # "idle", Others,
             cmdCall'[c] = "asked" => cmdCall[c] = "asked",
             cmdCall[c] = "close" => cmdCall'[c] = "close" /\ full'[c] = full[c]
      PROVE  CommandsInv'
  BY <1>2, <1>3, OneCommandKeeps
<1>4. CASE Replied(c)
  <2>1. /\ cmdCall[c] = "asked" /\ full' = [full EXCEPT ![c] = @ + 1] /\ heard[c] = <<>>
        /\ UNCHANGED <<cmdCall, heard, cmdPrompt, waits>>
        /\ shown' = [d \in Cmd |-> shown'[d]] /\ \A d \in Cmd : d # c => shown'[d] = shown[d]
    BY <1>1, <1>4 DEF Replied, Service!Replies, CommandTypes, CommandInv
  <2>2. CommandTypes'
    <3>1. full' \in [Cmd -> Nat]
      BY <1>1, <2>1 DEF CommandTypes
    <3> QED BY <1>1, <1>2, <2>1, <3>1 DEF CommandTypes
  <2>3. Len(heard'[c]) = 0 /\ cmdCall'[c] = "asked"
    BY <2>1
  <2>4. CommandInv(c)'
    BY <1>1, <1>2, <2>1, <2>3 DEF CommandInv, PromptHolds, WholeIf, ToldIf, Stream, Contains, Service!Endings
  <2> QED BY <1>2, <1>3, <2>1, <2>2, <2>4 DEF CommandTypes
<1>5. CASE Completed(c)
  <2>1. /\ cmdCall[c] = "asked" /\ cmdCall' = [cmdCall EXCEPT ![c] = "complete"] /\ ~ waits[c]
        /\ shown' = [shown EXCEPT ![c] = WhatComplete(c)]
        /\ heard' = [heard EXCEPT ![c] = Append(@, TRUE)] /\ heard[c] = <<>>
        /\ UNCHANGED <<full, cmdPrompt, waits>>
    BY <1>1, <1>5 DEF Completed, Service!Ends, CommandInv
  <2>2. Append(heard[c], TRUE) \in Seq(BOOLEAN) /\ Len(Append(heard[c], TRUE)) = 1
    <3>1. heard[c] \in Seq(BOOLEAN) /\ Len(heard[c]) = 0
      BY <1>1, <2>1 DEF CommandTypes
    <3> QED BY <3>1, AppendProperties
  <2>3. heard' \in [Cmd -> Seq(BOOLEAN)] /\ cmdCall'[c] = "complete" /\ Len(heard'[c]) = 1
        /\ shown'[c] = WhatComplete(c)
    BY <1>1, <2>1, <2>2 DEF CommandTypes
  <2>4. CommandTypes'
    BY <1>1, <1>2, <2>1, <2>3 DEF CommandTypes, Service!Endings
  <2>5. CommandInv(c)'
    BY <1>1, <1>2, <2>1, <2>3 DEF CommandInv, PromptHolds, WholeIf, ToldIf, Stream, HasView, WhatComplete, Service!Endings
  <2> QED BY <1>1, <1>2, <1>3, <2>1, <2>4, <2>5 DEF CommandTypes
<1>6. CASE Failed(c)
  <2>1. /\ cmdCall[c] = "asked" /\ cmdCall' = [cmdCall EXCEPT ![c] = "error"] /\ heard[c] = <<>>
        /\ waits' = [waits EXCEPT ![c] = FALSE]
        /\ IF full[c] = 0
           THEN /\ heard' = [heard EXCEPT ![c] = Append(@, FALSE)]
                /\ shown' = IF HasView(c) THEN [shown EXCEPT ![c] = Alert] ELSE shown
           ELSE UNCHANGED <<heard, shown>>
        /\ UNCHANGED <<full, cmdPrompt>>
    BY <1>1, <1>6 DEF Failed, HearsFailure, Service!Ends, CommandInv
  <2>2. /\ Append(heard[c], FALSE) \in Seq(BOOLEAN) /\ Len(Append(heard[c], FALSE)) = 1
        /\ Append(heard[c], FALSE)[1] = FALSE /\ Len(heard[c]) = 0
    <3>1. heard[c] \in Seq(BOOLEAN) /\ Len(heard[c]) = 0
      BY <1>1, <2>1 DEF CommandTypes
    <3> QED BY <3>1, AppendProperties
  <2>3. /\ heard' \in [Cmd -> Seq(BOOLEAN)] /\ cmdCall'[c] = "error"
        /\ Len(heard'[c]) = IF full[c] = 0 THEN 1 ELSE 0
        /\ ~ Contains(heard'[c], TRUE)
    <3>1. cmdCall'[c] = "error"
      BY <1>1, <2>1 DEF CommandTypes
    <3>2. CASE full[c] = 0
      <4>1. heard' \in [Cmd -> Seq(BOOLEAN)] /\ heard'[c] = Append(heard[c], FALSE)
        BY <1>1, <2>1, <2>2, <3>2 DEF CommandTypes
      <4>2. \A i \in 1..1 : i = 1
        OBVIOUS
      <4> QED BY <2>2, <3>1, <3>2, <4>1, <4>2 DEF Contains
    <3>3. CASE full[c] # 0
      <4>1. heard' \in [Cmd -> Seq(BOOLEAN)] /\ heard'[c] = heard[c]
        BY <1>1, <2>1, <3>3 DEF CommandTypes
      <4> QED BY <2>2, <3>1, <3>3, <4>1 DEF Contains
    <3> QED BY <3>2, <3>3
  <2>4. CommandTypes'
    BY <1>1, <1>2, <2>1, <2>3 DEF CommandTypes, Service!Endings
  <2>5. CommandInv(c)'
    BY <1>1, <1>2, <2>1, <2>3 DEF CommandInv, PromptHolds, WholeIf, ToldIf, Stream, HasView, Service!Endings
  <2> QED BY <1>1, <1>2, <1>3, <2>1, <2>4, <2>5 DEF CommandTypes
<1>7. CASE PromptFor(c, what) \/ UserAnswers(c)
  <2>1. /\ cmdCall[c] # "idle" /\ UNCHANGED <<cmdCall, full, shown, heard>>
        /\ \/ cmdCall[c] = "asked" /\ waits' = [waits EXCEPT ![c] = TRUE]
              /\ cmdPrompt' = [cmdPrompt EXCEPT ![c] = what]
           \/ /\ waits' = [waits EXCEPT ![c] = @ /\ AnswersThrough(c) # command[c].via]
              /\ cmdPrompt' = [cmdPrompt EXCEPT ![c] = "none"]
    BY <1>1, <1>7 DEF PromptFor, UserAnswers, Sent, CommandInv, PromptHolds
  <2>2. waits' \in [Cmd -> BOOLEAN]
    BY <1>1, <2>1 DEF CommandTypes
  <2>3. cmdPrompt'[c] = "none" \/ (cmdCall'[c] = "asked" /\ waits'[c])
    BY <1>1, <2>1 DEF CommandTypes
  <2>4. CommandTypes'
    BY <1>1, <1>2, <2>1, <2>2 DEF CommandTypes
  <2>5. CommandInv(c)'
    BY <1>1, <1>2, <2>1, <2>3 DEF CommandInv, PromptHolds, WholeIf, ToldIf, Stream, HasView
  <2> QED BY <1>1, <1>2, <1>3, <2>1, <2>4, <2>5 DEF CommandTypes
<1>8. CASE UserCancels(c)
  <2>1. /\ cmdPrompt[c] # "none" /\ cmdCall[c] # "idle" /\ cmdCall[c] # "complete"
        /\ cmdPrompt' = [cmdPrompt EXCEPT ![c] = "none"]
        /\ shown' = [shown EXCEPT ![c] = Alert]
        /\ UNCHANGED <<cmdCall, full, heard, waits>>
    BY <1>1, <1>8 DEF UserCancels, CommandInv, PromptHolds
  <2>2. CommandTypes'
    BY <1>1, <1>2, <2>1 DEF CommandTypes
  <2>3. CommandInv(c)'
    BY <1>1, <1>2, <2>1 DEF CommandTypes, CommandInv, PromptHolds, WholeIf, ToldIf, Stream, HasView
  <2> QED BY <1>1, <1>2, <1>3, <2>1, <2>2, <2>3 DEF CommandTypes
<1> QED BY <1>4, <1>5, <1>6, <1>7, <1>8

LEMMA MuxerReadyKeeps == ASSUME CommandsInv, NEW m \in 1..MaxMuxer, MuxerReady(m) PROVE CommandsInv'
<1>1. /\ link[m] = "opening" /\ link' = [link EXCEPT ![m] = "ready"]
      /\ UNCHANGED <<muxer, lastMuxer, cmdCall, command, full, shown, heard, cmdPrompt, waits>>
  BY DEF MuxerReady
<1>2. CommandTypes'
  BY <1>1 DEF CommandsInv, CommandTypes
<1>3. \A k \in 1..MaxMuxer : link'[k] = "closed" => link[k] = "closed"
  BY <1>1 DEF CommandsInv, CommandTypes
<1>4. muxer # NoMuxer => link'[muxer] \in {"opening", "ready"}
  <2>1. muxer # NoMuxer => muxer \in 1..MaxMuxer
    BY CommandsAssumption DEF CommandsInv, CommandTypes, NoMuxer
  <2> QED BY <1>1, <2>1 DEF CommandsInv, CommandTypes
<1>5. ASSUME NEW c \in Cmd PROVE CommandInv(c)' /\ Forgotten(c)'
  <2>1. CommandInv(c)'
    BY <1>1 DEF CommandsInv, CommandInv, PromptHolds, WholeIf, ToldIf, Stream, HasView
  <2>2. cmdCall[c] = "asked" => command[c].via \in 1..MaxMuxer
    BY CommandsAssumption DEF CommandsInv, CommandTypes, CommandInv
  <2>3. Forgotten(c)'
    BY <1>1, <1>3, <2>2 DEF CommandsInv, Forgotten
  <2> QED BY <2>1, <2>3
<1> QED BY <1>1, <1>2, <1>4, <1>5 DEF CommandsInv

\* What a command that is not a stream hears of the end of its connection
LEMMA HeardOfClose ==
    ASSUME NEW c \in Cmd
    PROVE  /\ HearsClose(c) \in Seq(BOOLEAN)
           /\ ~ Stream(c) => /\ ~ Contains(HearsClose(c), TRUE)
                             /\ Len(HearsClose(c)) = IF full[c] = 0 /\ HasView(c) THEN 1 ELSE 0
<1> DEFINE told == IF HearsFailure(c) /\ ~ Throws(c) THEN <<FALSE>> ELSE <<>>
<1>1. /\ told \in Seq(BOOLEAN) /\ ~ Contains(told, TRUE)
      /\ Len(told) = IF full[c] = 0 /\ HasView(c) THEN 1 ELSE 0
  <2>1. CASE full[c] = 0 /\ HasView(c)
    <3>1. told = <<FALSE>>
      BY <2>1 DEF HearsFailure, Throws
    <3>2. \A i \in 1..1 : i = 1
      OBVIOUS
    <3> HIDE DEF told
    <3>3. Len(told) = 1
      BY <3>1
    <3>4. told \in Seq(BOOLEAN)
      BY <3>1
    <3>5. told[1] = FALSE
      BY <3>1
    <3> QED BY <2>1, <3>2, <3>3, <3>4, <3>5 DEF Contains
  <2>2. CASE ~ (full[c] = 0 /\ HasView(c))
    <3>1. told = <<>>
      BY <2>2 DEF HearsFailure, Throws
    <3>2. Len(told) = 0 /\ told \in Seq(BOOLEAN)
      BY <3>1, EmptySeq
    <3> QED BY <2>2, <3>2 DEF Contains
  <2> QED BY <2>1, <2>2
<1>2. CASE Stream(c)
  <2>1. HearsClose(c) = <<TRUE>> \o told /\ <<TRUE>> \in Seq(BOOLEAN)
    BY <1>2 DEF HearsClose
  <2> HIDE DEF told
  <2> QED BY <1>1, <1>2, <2>1, ConcatProperties
<1>3. CASE ~ Stream(c)
  <2>1. HearsClose(c) = <<>> \o told
    BY <1>3 DEF HearsClose
  <2> HIDE DEF told
  <2>2. HearsClose(c) = told
    BY <1>1, <2>1, ConcatEmptySeq
  <2> QED BY <1>1, <2>2
<1> QED BY <1>2, <1>3

LEMMA ConnectionEndsKeeps ==
    ASSUME CommandsInv, NEW m \in 1..MaxMuxer, ConnectionEnds(m)
    PROVE  CommandsInv'
<1> DEFINE mine    == {c \in Cmd : Sent(c) /\ command[c].via = m}
           reached == {c \in mine : \A d \in mine : d < c => ~ Throws(d)}
<1>1. /\ link[m] \in {"opening", "ready"} /\ muxer' = NoMuxer
      /\ link' = [link EXCEPT ![m] = IF @ = "ready" THEN "closed" ELSE "refused"]
      /\ cmdCall' = [c \in Cmd |-> IF c \in reached THEN "close" ELSE cmdCall[c]]
      /\ heard'   = [c \in Cmd |-> heard[c] \o IF c \in reached THEN HearsClose(c) ELSE <<>>]
      /\ shown' = [c \in Cmd |-> shown'[c]] /\ \A c \in Cmd \ reached : shown'[c] = shown[c]
      /\ UNCHANGED <<lastMuxer, command, full, cmdPrompt, waits>>
  BY DEF ConnectionEnds
<1>2. CommandTypes /\ \A c \in Cmd : CommandInv(c) /\ Forgotten(c)
  BY DEF CommandsInv
<1>3. \A c \in mine : c \in Cmd /\ cmdCall[c] = "asked" /\ link[m] = "ready" /\ command[c].via = m
  BY DEF Sent
<1>4. \A c \in Cmd : cmdCall[c] = "asked" /\ command[c].via = m /\ link[m] = "ready" => c \in mine
  BY DEF Sent
<1>5. reached \subseteq mine
  OBVIOUS
<1>6. ASSUME NEW c \in mine \ reached
      PROVE  \E d \in reached : d < c /\ Throws(d)
  <2> DEFINE T == {d \in mine : d < c /\ Throws(d)}
  <2>1. T \in SUBSET Nat /\ T # {} /\ \A d \in mine : d \in Nat
    BY DEF Cmd
  <2>2. PICK d \in T : \A e \in T : d <= e
    BY <2>1, LeastOf
  <2>3. \A e \in mine : e < d => ~ Throws(e)
    BY <2>1, <2>2
  <2> QED BY <2>2, <2>3
<1> HIDE DEF mine, reached
<1>7. ASSUME NEW c \in Cmd
      PROVE  /\ c \in reached  => cmdCall[c] = "asked" /\ cmdCall'[c] = "close" /\ heard'[c] = HearsClose(c)
             /\ c \notin reached => /\ cmdCall'[c] = cmdCall[c] /\ heard'[c] = heard[c]
                                    /\ shown'[c] = shown[c]
             /\ heard'[c] \in Seq(BOOLEAN)
  <2>1. heard[c] \in Seq(BOOLEAN) /\ HearsClose(c) \in Seq(BOOLEAN)
    BY <1>2, HeardOfClose DEF CommandTypes
  <2>2. CASE c \in reached
    <3>1. cmdCall[c] = "asked" /\ heard[c] = <<>> /\ heard'[c] = heard[c] \o HearsClose(c)
      BY <1>1, <1>2, <1>3, <1>5, <2>2 DEF CommandInv
    <3>2. <<>> \o HearsClose(c) = HearsClose(c)
      BY <2>1, ConcatEmptySeq
    <3> QED BY <1>1, <2>1, <2>2, <3>1, <3>2
  <2>3. CASE c \notin reached
    <3>1. heard'[c] = heard[c] \o <<>>
      BY <1>1, <2>3
    <3>2. heard[c] \o <<>> = heard[c]
      BY <2>1, ConcatEmptySeq
    <3> QED BY <1>1, <2>1, <2>3, <3>1, <3>2
  <2> QED BY <2>2, <2>3
<1>8. CommandTypes'
  <2>1. heard' \in [Cmd -> Seq(BOOLEAN)]
    BY <1>1, <1>7
  <2>2. cmdCall' \in [Cmd -> {"idle", "asked"} \cup Service!Endings]
    BY <1>1, <1>2 DEF CommandTypes, Service!Endings
  <2>3. muxer' \in 0..lastMuxer'
    BY <1>1, <1>2 DEF CommandTypes, NoMuxer
  <2>4. link' = [k \in 1..MaxMuxer |-> link'[k]]
    BY <1>1, <1>2 DEF CommandTypes
  <2> QED BY <1>1, <1>2, <2>1, <2>2, <2>3, <2>4 DEF CommandTypes
<1>9. ASSUME NEW c \in Cmd PROVE CommandInv(c)'
  <2>1. CASE c \in reached
    <3>1. cmdCall[c] = "asked" /\ cmdCall'[c] = "close" /\ heard'[c] = HearsClose(c)
      BY <1>7, <2>1
    <3>2. command'[c].via \in 1..lastMuxer'
      BY <1>1, <1>2, <3>1 DEF CommandInv
    <3> QED BY <1>1, <3>1, <3>2, HeardOfClose
            DEF CommandInv, PromptHolds, WholeIf, ToldIf, Stream, HasView, Service!Endings
  <2>2. CASE c \notin reached
    <3>1. UNCHANGED <<cmdCall[c], heard[c], shown[c], command, full, cmdPrompt, waits, lastMuxer>>
      BY <1>1, <1>7, <2>2
    <3> QED BY <1>2, <3>1 DEF CommandInv, PromptHolds, WholeIf, ToldIf, Stream, HasView
  <2> QED BY <2>1, <2>2
<1>10. ASSUME NEW c \in Cmd PROVE Forgotten(c)'
  <2> SUFFICES ASSUME cmdCall'[c] = "asked", link'[command'[c].via] = "closed"
               PROVE  \E e \in 1..(c - 1) : /\ command'[e].kind = "silent" /\ cmdCall'[e] = "close"
                                            /\ command'[e].via = command'[c].via /\ full'[e] = 0
    BY DEF Forgotten
  <2>1. c \notin reached /\ cmdCall[c] = "asked" /\ command' = command
    BY <1>1, <1>7
  <2>2. command[c].via \in 1..MaxMuxer
    BY <1>2, <2>1, CommandsAssumption DEF CommandInv, CommandTypes
  <2>3. CASE command[c].via = m
    <3>1. link'[m] = "closed"
      BY <2>1, <2>3
    <3>2. link[m] = "ready"
      BY <1>1, <1>2, <3>1 DEF CommandTypes
    <3>3. c \in mine \ reached
      BY <1>4, <2>1, <2>3, <3>2
    <3>4. PICK d \in reached : d < c /\ Throws(d)
      BY <1>6, <3>3
    <3>5. d \in Cmd /\ command[d].via = m
      BY <1>3, <1>5, <3>4
    <3>6. d \in 1..(c - 1)
      BY <3>4, <3>5, CommandsAssumption DEF Cmd
    <3>7. cmdCall'[d] = "close" /\ full'[d] = 0 /\ command[d].kind = "silent"
      BY <1>1, <1>7, <3>4, <3>5 DEF Throws, HearsFailure, HasView
    <3> QED BY <2>1, <2>3, <3>5, <3>6, <3>7
  <2>4. CASE command[c].via # m
    <3>1. link[command[c].via] = "closed"
      BY <1>1, <1>2, <2>1, <2>2, <2>4 DEF CommandTypes
    <3>2. PICK e \in 1..(c - 1) : /\ command[e].kind = "silent" /\ cmdCall[e] = "close"
                                  /\ command[e].via = command[c].via /\ full[e] = 0
      BY <1>2, <2>1, <3>1 DEF Forgotten
    <3>3. e \in Cmd
      BY CommandsAssumption DEF Cmd
    <3>4. cmdCall'[e] = "close"
      BY <1>7, <3>2, <3>3
    <3> QED BY <1>1, <2>1, <3>2, <3>4
  <2> QED BY <2>3, <2>4
<1> QED BY <1>1, <1>8, <1>9, <1>10 DEF CommandsInv

LEMMA CommandsStep == CommandsInv /\ (CommandsNext \/ UNCHANGED commandVars) => CommandsInv'
<1> SUFFICES ASSUME CommandsInv, CommandsNext \/ UNCHANGED commandVars PROVE CommandsInv'
  OBVIOUS
<1>1. CASE UNCHANGED commandVars
  <2>1. UNCHANGED <<muxer, lastMuxer, link, cmdCall, command, full, shown, heard, cmdPrompt, waits>>
    BY <1>1 DEF commandVars
  <2>2. CommandTypes'
    BY <2>1 DEF CommandsInv, CommandTypes
  <2>3. \A c \in Cmd : CommandInv(c)' /\ Forgotten(c)'
    BY <2>1 DEF CommandsInv, CommandInv, PromptHolds, WholeIf, ToldIf, Stream, HasView, Forgotten
  <2> QED BY <2>1, <2>2, <2>3 DEF CommandsInv
<1>2. \A c \in Cmd : Replied(c) \/ Completed(c) \/ Failed(c) \/ UserAnswers(c) \/ UserCancels(c)
                       => CommandsInv'
  BY CommandKeeps
<1>3. \A c \in Cmd, what \in {"hostkey", "secret"} : PromptFor(c, what) => CommandsInv'
  BY CommandKeeps
<1> QED BY <1>1, <1>2, <1>3, RunCommandKeeps, MuxerReadyKeeps, ConnectionEndsKeeps DEF CommandsNext

\* The devices the streams of a set of commands are added to
LEMMA StreamsAdded ==
    ASSUME NEW S \in SUBSET Cmd, \A c \in S : command[c].target \in Target, NEW devices \in Seq(Target)
    PROVE  AddStreams(S, devices) \in Seq(Target)
<1> DEFINE n == MaxCommand
           s == [c \in Cmd |-> c]
           Step1(t, c) == IF c \in S /\ Stream(c) THEN AddDevice(t, command[c].target) ELSE t
           G == [k \in 1..n |-> [t \in Seq(Target) |-> Step1(t, k)]]
           Def(g) == [u \in SUBSET (DOMAIN s) |->
                        IF u = {} THEN devices ELSE Step1(g[u \ {Max(u)}], s[Max(u)])]
           F == CHOOSE g : g = Def(g)
<1>1. n \in Nat /\ DOMAIN s = 1..n
  BY CommandsAssumption DEF Cmd
<1>2. ASSUME NEW t \in Seq(Target), NEW c \in 1..n PROVE Step1(t, c) \in Seq(Target)
  <2>1. CASE c \in S
    <3> DEFINE x == command[c].target
    <3>1. x \in Target
      BY <2>1
    <3> HIDE DEF x
    <3>2. <<x>> \in Seq(Target) /\ RemoveFirst(t, x) \in Seq(Target)
      BY <3>1, RemovesFrom
    <3>3. AddDevice(t, x) \in Seq(Target)
      BY <3>2, ConcatProperties DEF AddDevice
    <3> QED BY <3>3 DEF x
  <2>2. CASE c \notin S
    BY <2>2
  <2> QED BY <2>1, <2>2
<1>3. AddStreams(S, devices) = F[DOMAIN s]
  BY DEF AddStreams, FoldLeft, MapThenFoldSet
<1> HIDE DEF Step1
<1>4. PICK g \in [SUBSET (1..n) -> Seq(Target)] : Iterates(g, n, devices, G)
  <2> DEFINE Typ == Seq(Target)
  <2>1. G \in [1..n -> [Typ -> Typ]]
    BY <1>2
  <2> HIDE DEF G, n, Typ
  <2>2. devices \in Typ
    BY DEF Typ
  <2>3. \E g \in [SUBSET (1..n) -> Typ] : Iterates(g, n, devices, G)
    BY <1>1, <2>1, <2>2, IterExists
  <2> QED BY <2>3 DEF Typ
<1>5. g = Def(g)
  <2>1. ASSUME NEW u \in SUBSET (1..n), u # {}
        PROVE  /\ Max(u) \in 1..n
               /\ G[Max(u)][g[u \ {Max(u)}]] = Step1(g[u \ {Max(u)}], s[Max(u)])
    <3>1. Max(u) \in 1..n
      <4> HIDE DEF n
      <4> QED BY <1>1, <2>1, MaxOf
    <3>2. g[u \ {Max(u)}] \in Seq(Target) /\ s[Max(u)] = Max(u)
      BY <1>1, <3>1 DEF Cmd
    <3> QED BY <3>1, <3>2
  <2> QED BY <1>1, <1>4, <2>1 DEF Iterates
<1> HIDE DEF Def, G
<1>6. F = Def(F)
  BY <1>5
<1> HIDE DEF F
<1> DEFINE T == {k \in 0..n : F[1..k] \in Seq(Target)}
<1>7. 0 \in T
  <2>1. 1..0 = {} /\ {} \in SUBSET (DOMAIN s) /\ 0 \in 0..n
    BY <1>1
  <2>2. F[{}] = devices
    BY <1>6, <2>1 DEF Def
  <2> QED BY <2>1, <2>2
<1>8. ASSUME NEW k \in 1..n, k - 1 \in T PROVE k \in T
  <2>1. /\ (1..k) \in SUBSET (DOMAIN s) /\ (1..k) # {} /\ Max(1..k) = k
        /\ (1..k) \ {k} = 1..(k - 1)
    <3> HIDE DEF n
    <3> QED BY <1>1, Segment
  <2>2. s[k] = k
    BY <1>1
  <2>3. F[1..k] = Step1(F[1..(k - 1)], k)
    <3> HIDE DEF s
    <3> QED BY <1>6, <2>1, <2>2 DEF Def
  <2>4. F[1..k] \in Seq(Target)
    BY <1>2, <1>8, <2>3
  <2>5. k \in 0..n
    BY <1>1
  <2> QED BY <2>4, <2>5
<1>9. n \in T
  <2> HIDE DEF T, n
  <2>1. \A k \in 0..n : k \in T
    BY <1>1, <1>7, <1>8, UpTo
  <2> QED BY <1>1, <2>1
<1> QED BY <1>1, <1>3, <1>9

Shapes == {"nothing", "loading", "alert", "output"}

\* What one command shows and holds
ShapeOf(c) ==
    /\ full[c] <= MaxPieces
    /\ shown[c].what \in Shapes /\ shown[c].to \in Nat /\ shown[c].to <= full[c]
    /\ cmdPrompt[c] \in {"none", "hostkey", "secret"}
    /\ cmdCall[c] # "idle" => command[c].target \in Target

CommandShapes ==
    /\ link \in [1..MaxMuxer -> {"none", "opening", "ready", "refused", "closed"}]
    /\ \A c \in Cmd : ShapeOf(c)
    /\ recent \in Seq(Target)

LEMMA CommandsTyped == CommandsInv /\ CommandShapes => CommandsTypeOK
<1> SUFFICES ASSUME CommandsInv, CommandShapes PROVE CommandsTypeOK
  OBVIOUS
<1>1. full \in [Cmd -> 0..MaxPieces]
  <2>1. MaxPieces \in Nat /\ full \in [Cmd -> Nat]
    BY CommandsAssumption DEF CommandsInv, CommandTypes
  <2>2. \A c \in Cmd : full[c] \in 0..MaxPieces
    BY <2>1 DEF CommandShapes, ShapeOf
  <2> QED BY <2>1, <2>2
<1> QED BY <1>1 DEF CommandsTypeOK, CommandsInv, CommandTypes, CommandShapes, ShapeOf, Shapes, Service!RpcTypeOK

LEMMA CommandShapesStart == CommandsInit => CommandShapes
<1> SUFFICES ASSUME CommandsInit PROVE CommandShapes
  OBVIOUS
<1>1. 0 <= MaxPieces /\ 0 \in Nat
  <2>1. MaxPieces \in Nat
    BY CommandsAssumption
  <2> QED BY <2>1
<1>2. recent \in Seq(Target)
  BY EmptySeq DEF CommandsInit
<1>3. Nothing.what \in Shapes /\ Nothing.to = 0
  BY DEF Nothing, Shows, Shapes
<1> QED BY <1>1, <1>2, <1>3 DEF CommandsInit, CommandShapes, ShapeOf

LEMMA ShapesOfShown ==
    ASSUME NEW n \in Nat
    PROVE  /\ Nothing.what \in Shapes /\ Nothing.to = 0 /\ Loading.what \in Shapes /\ Loading.to = 0
           /\ Alert.what \in Shapes /\ Alert.to = 0
           /\ \A from : Shows("output", from, n).what \in Shapes /\ Shows("output", from, n).to = n
BY DEF Nothing, Loading, Alert, Shows, Shapes

LEMMA CommandShapesStep ==
    CommandsInv /\ CommandShapes /\ (CommandsNext \/ UNCHANGED commandVars) => CommandShapes'
<1> SUFFICES ASSUME CommandsInv, CommandShapes, CommandsNext \/ UNCHANGED commandVars
             PROVE  CommandShapes'
  OBVIOUS
<1>1. \A c \in Cmd : ShapeOf(c) /\ full[c] \in Nat /\ full[c] >= 0
  BY DEF CommandShapes, ShapeOf, CommandsInv, CommandTypes
<1>2. MaxPieces \in Nat
  BY CommandsAssumption
<1>3. ASSUME link' \in [1..MaxMuxer -> {"none", "opening", "ready", "refused", "closed"}],
             recent' \in Seq(Target), \A c \in Cmd : ShapeOf(c)'
      PROVE  CommandShapes'
  BY <1>3 DEF CommandShapes
<1>4. /\ link \in [1..MaxMuxer -> {"none", "opening", "ready", "refused", "closed"}]
      /\ recent \in Seq(Target) /\ CommandTypes
  BY DEF CommandShapes, CommandsInv
<1>5. CASE UNCHANGED commandVars
  <2>1. \A c \in Cmd : ShapeOf(c)'
    BY <1>1, <1>5 DEF commandVars, ShapeOf
  <2> QED BY <1>3, <1>4, <1>5, <2>1 DEF commandVars
<1>6. ASSUME NEW m \in 1..MaxMuxer, MuxerReady(m) PROVE CommandShapes'
  <2>1. \A c \in Cmd : ShapeOf(c)'
    BY <1>1, <1>6 DEF MuxerReady, ShapeOf
  <2> QED BY <1>3, <1>4, <1>6, <2>1 DEF MuxerReady
<1>7. ASSUME NEW c \in Cmd, NEW kind \in CommandKind, NEW target \in Target, RunCommand(c, kind, target)
      PROVE  CommandShapes'
  <2>1. link' \in [1..MaxMuxer -> {"none", "opening", "ready", "refused", "closed"}]
    BY <1>4, <1>7 DEF RunCommand
  <2>2. /\ command' = [command EXCEPT ![c] = [kind |-> kind, target |-> target, via |-> muxer']]
        /\ shown' = [shown EXCEPT ![c] = IF kind = "silent" THEN Nothing ELSE Loading]
        /\ UNCHANGED <<full, cmdPrompt, recent>> /\ cmdCall' = [cmdCall EXCEPT ![c] = "asked"]
    BY <1>7 DEF RunCommand, Service!Ask
  <2>3. \A d \in Cmd : /\ d # c => UNCHANGED <<command[d], shown[d], cmdCall[d]>>
                       /\ d = c => command'[d].target = target /\ shown'[d] \in {Nothing, Loading}
    BY <1>4, <2>2 DEF CommandTypes
  <2>4. \A d \in Cmd : ShapeOf(d)'
    BY <1>1, <2>2, <2>3, ShapesOfShown DEF ShapeOf
  <2> QED BY <1>3, <1>4, <2>1, <2>2, <2>4
<1>8. ASSUME NEW c \in Cmd, Replied(c) PROVE CommandShapes'
  <2>1. /\ cmdCall' = cmdCall /\ full[c] < MaxPieces /\ full' = [full EXCEPT ![c] = @ + 1]
        /\ \/ shown' = shown
           \/ \E from : shown' = [shown EXCEPT ![c] = Shows("output", from, full'[c])]
        /\ UNCHANGED <<link, command, cmdPrompt, recent>>
    BY <1>8 DEF Replied, Service!Replies
  <2> DEFINE n == full[c] + 1
  <2>2. n \in Nat /\ n <= MaxPieces /\ full[c] < n
    BY <1>1, <1>2, <2>1
  <2>3. full'[c] = n /\ \A d \in Cmd : d # c => full'[d] = full[d]
    BY <1>4, <2>1 DEF CommandTypes
  <2> HIDE DEF n
  <2>4. ShapeOf(c)'
    <3>1. CASE shown' = shown
      <4>1. shown[c].to \in Nat /\ shown[c].to <= full[c] /\ full[c] \in Nat
        BY <1>1 DEF ShapeOf
      <4>2. shown[c].to <= n
        BY <2>2, <4>1
      <4> QED BY <1>1, <2>1, <2>2, <2>3, <3>1, <4>2 DEF ShapeOf
    <3>2. CASE \E from : shown' = [shown EXCEPT ![c] = Shows("output", from, full'[c])]
      <4>1. \E from : shown'[c] = Shows("output", from, n)
        BY <1>4, <2>3, <3>2 DEF CommandTypes
      <4>2. shown'[c].what \in Shapes /\ shown'[c].to = n /\ n <= n
        BY <2>2, <4>1, ShapesOfShown
      <4> QED BY <1>1, <2>1, <2>2, <2>3, <4>2 DEF ShapeOf
    <3> QED BY <2>1, <3>1, <3>2
  <2>5. \A d \in Cmd : d # c => shown'[d] = shown[d]
    BY <1>4, <2>1 DEF CommandTypes
  <2>6. \A d \in Cmd : ShapeOf(d)'
    BY <1>1, <2>1, <2>3, <2>4, <2>5 DEF ShapeOf
  <2> QED BY <1>3, <1>4, <2>1, <2>6
<1>9. ASSUME NEW c \in Cmd, Completed(c) \/ Failed(c) \/ UserCancels(c)
      PROVE  CommandShapes'
  <2>1. /\ UNCHANGED <<link, command, full>>
        /\ \A d \in Cmd : d # c => UNCHANGED <<cmdCall[d], shown[d], cmdPrompt[d]>>
        /\ cmdCall'[c] # "idle" => cmdCall[c] # "idle"
        /\ shown'[c] \in {shown[c], Shows("output", 1, full[c]), Alert}
        /\ cmdPrompt'[c] \in {cmdPrompt[c], "none"}
    BY <1>4, <1>9 DEF Completed, WhatComplete, Failed, UserCancels, Service!Ends, CommandTypes
  <2>2. ShapeOf(c)'
    <3> DEFINE n == full[c]
    <3>1. n \in Nat /\ n <= n /\ 0 <= n
      BY <1>1
    <3>2. \A from : Shows("output", from, n).what \in Shapes /\ Shows("output", from, n).to = n
      BY <3>1, ShapesOfShown
    <3> QED BY <1>1, <2>1, <3>1, <3>2, ShapesOfShown DEF ShapeOf
  <2>3. \A d \in Cmd : ShapeOf(d)'
    BY <1>1, <2>1, <2>2 DEF ShapeOf
  <2>4. recent' \in Seq(Target)
    <3>1. recent' = recent \/ (recent' = AddDevice(recent, command[c].target) /\ cmdCall[c] = "asked")
      BY <1>9 DEF Completed, Failed, UserCancels, Service!Ends
    <3> DEFINE x == command[c].target
    <3>2. cmdCall[c] = "asked" => x \in Target
      BY <1>1 DEF ShapeOf
    <3>3. x \in Target => AddDevice(recent, x) \in Seq(Target)
      <4> SUFFICES ASSUME x \in Target PROVE AddDevice(recent, x) \in Seq(Target)
        OBVIOUS
      <4> HIDE DEF x
      <4>1. <<x>> \in Seq(Target) /\ RemoveFirst(recent, x) \in Seq(Target)
        BY <1>4, RemovesFrom
      <4> QED BY <4>1, ConcatProperties DEF AddDevice
    <3> QED BY <1>4, <3>1, <3>2, <3>3
  <2> QED BY <1>3, <1>4, <2>1, <2>3, <2>4
<1>10. ASSUME NEW c \in Cmd, NEW what \in {"hostkey", "secret"}, PromptFor(c, what) \/ UserAnswers(c)
       PROVE  CommandShapes'
  <2>1. /\ UNCHANGED <<link, command, full, cmdCall, shown, recent>>
        /\ \A d \in Cmd : cmdPrompt'[d] \in {cmdPrompt[d], "none", "hostkey", "secret"}
    BY <1>4, <1>10 DEF PromptFor, UserAnswers, CommandTypes
  <2>2. \A d \in Cmd : ShapeOf(d)'
    BY <1>1, <2>1 DEF ShapeOf
  <2> QED BY <1>3, <1>4, <2>1, <2>2
<1>11. ASSUME NEW m \in 1..MaxMuxer, ConnectionEnds(m) PROVE CommandShapes'
  <2> DEFINE mine    == {c \in Cmd : Sent(c) /\ command[c].via = m}
             reached == {c \in mine : \A d \in mine : d < c => ~ Throws(d)}
  <2>1. /\ link' = [link EXCEPT ![m] = IF @ = "ready" THEN "closed" ELSE "refused"]
        /\ cmdCall' = [c \in Cmd |-> IF c \in reached THEN "close" ELSE cmdCall[c]]
        /\ shown'   = [c \in Cmd |-> IF c \notin reached \/ ~ HasView(c) THEN shown[c]
                                    ELSE IF HearsFailure(c) THEN Alert
                                    ELSE IF Stream(c) THEN WhatComplete(c) ELSE shown[c]]
        /\ recent' = AddStreams(reached, recent)
        /\ UNCHANGED <<command, full, cmdPrompt>>
    BY <1>11 DEF ConnectionEnds
  <2>2. \A c \in reached : c \in Cmd /\ cmdCall[c] = "asked"
    BY DEF Sent
  <2> HIDE DEF mine, reached
  <2>3. \A c \in Cmd : /\ cmdCall'[c] # "idle" => cmdCall[c] # "idle"
                       /\ shown'[c] \in {shown[c], Shows("output", 1, full[c]), Alert}
    BY <2>1, <2>2 DEF WhatComplete
  <2>4. ASSUME NEW c \in Cmd PROVE ShapeOf(c)'
    <3> DEFINE n == full[c]
    <3>1. n \in Nat /\ n <= n /\ 0 <= n
      BY <1>1
    <3>2. \A from : Shows("output", from, n).what \in Shapes /\ Shows("output", from, n).to = n
      BY <3>1, ShapesOfShown
    <3> QED BY <1>1, <2>1, <2>3, <3>1, <3>2, ShapesOfShown DEF ShapeOf
  <2>5. recent' \in Seq(Target)
    <3>1. reached \in SUBSET Cmd /\ \A c \in reached : command[c].target \in Target
      BY <1>1, <2>2 DEF ShapeOf
    <3> QED BY <1>4, <2>1, <3>1, StreamsAdded
  <2>6. link' \in [1..MaxMuxer -> {"none", "opening", "ready", "refused", "closed"}]
    BY <1>4, <2>1
  <2> QED BY <1>3, <2>4, <2>5, <2>6
<1> QED BY <1>5, <1>6, <1>7, <1>8, <1>9, <1>10, <1>11 DEF CommandsNext

-----------------------------------------------------------------------------
(* Configurations *)

ConfigTypes ==
    /\ configCall \in [Op \X Step -> {"idle", "asked"} \cup ConfigService!Endings]
    /\ operation = [o \in Op |-> operation[o]]
    /\ rpcTarget = [r \in Op \X Step |-> rpcTarget[r]]
    /\ verdict \in [Op \X Step -> {"none", "taken", "refused"}]
    /\ success \in [Op \X Step -> BOOLEAN] /\ configFull \in [Op \X Step -> BOOLEAN]
    /\ candidate = [d \in Device |-> candidate[d]] /\ active = [d \in Device |-> active[d]]
    /\ configHeard \in [Op -> Seq(BOOLEAN)]

OpOver(o)   == Kind(o) # "none" /\ \A s \in Step : configCall[<<o, s>>] # "asked"
OpSilent(o) == \E s \in Step : \/ configCall[<<o, s>>] = "close"
                               \/ Unparsable(<<o, s>>) /\ configCall[<<o, s>>] = "error"

\* An operation has one RPC at a time; nobody is told of it before the last one has ended.
OneStep(o) ==
    /\ Kind(o) = "none" => configHeard[o] = <<>> /\ \A s \in Step : configCall[<<o, s>>] = "idle"
    /\ \A s \in Step : configCall[<<o, s>>] = "asked" =>
          /\ configHeard[o] = <<>> /\ Kind(o) # "none"
          /\ \A t \in Step \ {s} : configCall[<<o, t>>] \in {"idle", "complete"}
    /\ \A s \in Step : configCall[<<o, s>>] = "idle" => verdict[<<o, s>>] = "none"
    /\ Len(configHeard[o]) = IF OpOver(o) /\ ~ OpSilent(o) THEN 1 ELSE 0

Holds(o) == candidate[operation[o].device] \cup active[operation[o].device] \cup undone
Keeps(o) == active[operation[o].device] \cup undone

\* What a load put into a candidate is still there, or committed, or rolled back by
\* another operation; a commit comes after the load and activates what is there.
LoadThenCommit(o) ==
    LET load   == <<o, "load">>
        commit == <<o, "commit">>
    IN  Kind(o) = "configure" =>
          /\ operation[o].device \in Device /\ configCall[<<o, "rollback">>] = "idle"
          /\ configCall[load] # "idle" => rpcTarget[load] = operation[o].device
          /\ configCall[commit] # "idle" => /\ rpcTarget[commit] = operation[o].device
                                            /\ configCall[load] = "complete" /\ success[load]
                                            /\ verdict[load] # "none"
          /\ verdict[load] = "taken" => o \in Holds(o)
          /\ verdict[commit] = "taken" => o \in Keeps(o) \/ Cut(load)
          /\ Contains(configHeard[o], TRUE) => /\ configCall[commit] = "complete"
                                               /\ success[commit] /\ verdict[commit] # "none"

\* The user of a pane waits for one operation at most, and its button with him.
OneWaits(o) ==
    Pasted(o) /\ configHeard[o] = <<>> =>
        /\ operation[o].device \notin buttons
        /\ \A p \in Op \ {o} : Pasted(p) /\ operation[p].device = operation[o].device
                                => configHeard[p] # <<>>

ConfigInv == ConfigTypes /\ \A o \in Op : OneStep(o) /\ LoadThenCommit(o) /\ OneWaits(o)

LEMMA ConfigInvSuffices == ConfigInv => TrueIsCommitted /\ ConfigEndsAreHeard
<1> SUFFICES ASSUME ConfigInv PROVE TrueIsCommitted /\ ConfigEndsAreHeard
  OBVIOUS
<1>1. TrueIsCommitted
  <2> SUFFICES ASSUME NEW o \in Op, Kind(o) = "configure", Contains(configHeard[o], TRUE)
               PROVE  \/ o \in active[operation[o].device] \cup undone
                      \/ \E s \in Step : Cut(<<o, s>>)
    BY DEF TrueIsCommitted
  <2>1. /\ success[<<o, "commit">>] /\ verdict[<<o, "commit">>] # "none"
        /\ verdict[<<o, "commit">>] = "taken" => o \in Keeps(o) \/ Cut(<<o, "load">>)
    BY DEF ConfigInv, LoadThenCommit
  <2>2. <<o, "commit">> \in Op \X Step /\ "load" \in Step /\ "commit" \in Step
    BY DEF Step
  <2>3. CASE verdict[<<o, "commit">>] = "taken"
    BY <2>1, <2>2, <2>3 DEF Keeps
  <2>4. CASE verdict[<<o, "commit">>] # "taken"
    <3>1. Cut(<<o, "commit">>)
      BY <2>1, <2>2, <2>4 DEF Cut, ConfigInv, ConfigTypes
    <3> QED BY <2>2, <3>1
  <2> QED BY <2>3, <2>4
<1>2. ConfigEndsAreHeard
  BY DEF ConfigInv, OneStep, OneWaits, ConfigEndsAreHeard, OpOver, OpSilent
<1> QED BY <1>1, <1>2

LEMMA ConfigStart == ConfigureInit => ConfigInv
<1> SUFFICES ASSUME ConfigureInit PROVE ConfigInv
  OBVIOUS
<1>1. \A o \in Op : /\ Kind(o) = "none" /\ configHeard[o] = <<>> /\ Len(configHeard[o]) = 0
                    /\ \A s \in Step : configCall[<<o, s>>] = "idle" /\ verdict[<<o, s>>] = "none"
  BY DEF ConfigureInit, Kind
<1>2. ConfigTypes
  <2>1. configHeard \in [Op -> Seq(BOOLEAN)]
    BY EmptySeq DEF ConfigureInit
  <2>2. success \in [Op \X Step -> BOOLEAN] /\ configFull \in [Op \X Step -> BOOLEAN]
    BY DEF ConfigureInit
  <2> QED BY <2>1, <2>2 DEF ConfigureInit, ConfigTypes
<1>3. \A o \in Op : OneStep(o) /\ LoadThenCommit(o) /\ OneWaits(o)
  BY <1>1 DEF OneStep, OpOver, LoadThenCommit, OneWaits, Pasted
<1> QED BY <1>2, <1>3 DEF ConfigInv

\* Nothing of an operation has changed but what the device has of it, and that is kept.
LEMMA UntouchedKeeps ==
    ASSUME NEW o \in Op, OneStep(o), LoadThenCommit(o), UNCHANGED <<operation[o], configHeard[o]>>,
           \A s \in Step : UNCHANGED <<configCall[<<o, s>>], rpcTarget[<<o, s>>], verdict[<<o, s>>],
                                       success[<<o, s>>], configFull[<<o, s>>]>>,
           Kind(o) = "configure" => /\ o \in Holds(o) => o \in Holds(o)'
                                    /\ o \in Keeps(o) => o \in Keeps(o)'
    PROVE  OneStep(o)' /\ LoadThenCommit(o)'
<1>1. OneStep(o)'
  BY DEF OneStep, OpOver, OpSilent, Unparsable, Pasted, Kind
<1>2. LoadThenCommit(o)'
  BY DEF LoadThenCommit, Kind, Cut, Step
<1> QED BY <1>1, <1>2

LEMMA BeginsKeeps ==
    ASSUME ConfigInv, NEW o \in Op, NEW kind \in Kinds, NEW d \in Device, NEW target,
           Begins(o, kind, d, target), kind = "configure" => target = d,
           IF kind \in {"paste", "pastecheck"} THEN d \in buttons /\ buttons' = buttons \ {d}
                                               ELSE buttons' = buttons
    PROVE  ConfigInv'
<1> DEFINE first == FirstStep(kind)
<1>1. /\ first \in Step /\ kind # "none" /\ Kind(o) = "none"
      /\ kind = "configure" => first = "load"
  BY DEF FirstStep, Step, Kinds, Begins
<1>2. /\ configHeard[o] = <<>>
      /\ \A s \in Step : configCall[<<o, s>>] = "idle" /\ verdict[<<o, s>>] = "none"
  BY <1>1 DEF ConfigInv, OneStep
<1>3. /\ configCall' = [configCall EXCEPT ![<<o, first>>] = "asked"]
      /\ rpcTarget' = [rpcTarget EXCEPT ![<<o, first>>] = target]
      /\ operation' = [operation EXCEPT ![o] = [kind |-> kind, device |-> d]]
      /\ UNCHANGED <<verdict, success, configFull, candidate, active, undone, configHeard>>
  BY DEF Begins, ConfigService!Ask
<1> HIDE DEF first
<1>4. /\ \A p \in Op \ {o} : operation'[p] = operation[p]
      /\ operation'[o] = [kind |-> kind, device |-> d]
      /\ Kind(o)' = kind /\ \A p \in Op \ {o} : Kind(p)' = Kind(p)
  BY <1>3 DEF ConfigInv, ConfigTypes, Kind
<1>5. \A p \in Op, s \in Step :
          /\ configCall'[<<p, s>>] = IF p = o /\ s = first THEN "asked" ELSE configCall[<<p, s>>]
          /\ rpcTarget'[<<p, s>>] = IF p = o /\ s = first THEN target ELSE rpcTarget[<<p, s>>]
  BY <1>3 DEF ConfigInv, ConfigTypes
<1>6. ConfigTypes'
  BY <1>1, <1>3 DEF ConfigInv, ConfigTypes
<1>7. ASSUME NEW p \in Op PROVE OneStep(p)' /\ LoadThenCommit(p)'
  <2>1. CASE p # o
    <3>1. OneStep(p) /\ LoadThenCommit(p)
      BY DEF ConfigInv
    <3>2. (Holds(p))' = Holds(p) /\ (Keeps(p))' = Keeps(p)
      BY <1>3, <1>4, <2>1 DEF Holds, Keeps
    <3> QED BY <1>3, <1>4, <1>5, <2>1, <3>1, <3>2, UntouchedKeeps
  <2>2. CASE p = o
    <3>1. OneStep(o)'
      <4>1. configCall'[<<o, first>>] = "asked" /\ configHeard'[o] = <<>> /\ Len(configHeard'[o]) = 0
        BY <1>1, <1>2, <1>3, <1>5
      <4>2. ~ OpOver(o)'
        BY <1>1, <4>1 DEF OpOver
      <4>3. \A s \in Step \ {first} : configCall'[<<o, s>>] = "idle"
        BY <1>2, <1>5
      <4> QED BY <1>1, <1>2, <1>3, <1>4, <4>1, <4>2, <4>3 DEF OneStep
    <3>2. LoadThenCommit(o)'
      <4> SUFFICES ASSUME kind = "configure" PROVE LoadThenCommit(o)'
        BY <1>4 DEF LoadThenCommit
      <4>1. /\ configCall'[<<o, "rollback">>] = "idle" /\ configCall'[<<o, "commit">>] = "idle"
            /\ rpcTarget'[<<o, "load">>] = d /\ operation'[o].device = d
            /\ verdict'[<<o, "load">>] = "none" /\ verdict'[<<o, "commit">>] = "none"
        BY <1>1, <1>2, <1>3, <1>4, <1>5 DEF Step
      <4>2. ~ Contains(configHeard'[o], TRUE)
        BY <1>2, <1>3 DEF Contains
      <4> QED BY <4>1, <4>2 DEF LoadThenCommit
    <3> QED BY <2>2, <3>1, <3>2
  <2> QED BY <2>1, <2>2
<1>8. ASSUME NEW p \in Op PROVE OneWaits(p)'
  <2> SUFFICES ASSUME Pasted(p)', configHeard'[p] = <<>>
               PROVE  /\ operation'[p].device \notin buttons'
                      /\ \A q \in Op \ {p} :
                            Pasted(q)' /\ operation'[q].device = operation'[p].device
                               => configHeard'[q] # <<>>
    BY DEF OneWaits
  <2>1. /\ \A q \in Op \ {o} : Pasted(q)' = Pasted(q)
        /\ Pasted(o)' = (kind \in {"paste", "pastecheck"})
    BY <1>4 DEF Pasted
  <2>2. ConfigInv /\ \A q \in Op : OneWaits(q)
    BY DEF ConfigInv
  <2>3. CASE p = o
    <3>1. d \in buttons /\ buttons' = buttons \ {d} /\ operation'[p].device = d
      <4>1. kind \in {"paste", "pastecheck"}
        BY <1>4, <2>3 DEF Pasted, Kind
      <4> QED BY <1>4, <2>3, <4>1
    <3>2. ASSUME NEW q \in Op \ {p}, Pasted(q)', operation'[q].device = d PROVE configHeard'[q] # <<>>
      <4>1. Pasted(q) /\ operation[q].device = d
        BY <1>4, <2>1, <2>3, <3>2
      <4> QED BY <1>3, <2>2, <3>1, <4>1 DEF OneWaits
    <3> QED BY <3>1, <3>2
  <2>4. CASE p # o
    <3>1. /\ Pasted(p) /\ configHeard[p] = <<>> /\ operation[p].device \notin buttons
          /\ operation'[p] = operation[p]
      BY <1>3, <1>4, <2>1, <2>2, <2>4 DEF OneWaits
    <3>2. ASSUME NEW q \in Op \ {p}, Pasted(q)', operation'[q].device = operation[p].device
          PROVE  configHeard'[q] # <<>>
      <4>1. CASE q = o
        <5>1. kind \in {"paste", "pastecheck"} /\ operation'[o].device = operation[p].device
          BY <1>4, <3>2, <4>1 DEF Pasted, Kind
        <5> QED BY <1>4, <3>1, <5>1
      <4>2. CASE q # o
        BY <1>3, <1>4, <2>1, <2>2, <3>1, <3>2, <4>2 DEF OneWaits
      <4> QED BY <4>1, <4>2
    <3> QED BY <3>1, <3>2
  <2> QED BY <2>3, <2>4
<1> QED BY <1>6, <1>7, <1>8 DEF ConfigInv

LEMMA OpenPaneKeeps == ASSUME ConfigInv, NEW d \in Device, OpenPane(d) PROVE ConfigInv'
<1>1. UNCHANGED <<configCall, operation, rpcTarget, verdict, success, configFull, candidate, active,
                  undone, configHeard>>
  BY DEF OpenPane
<1>2. ConfigTypes'
  BY <1>1 DEF ConfigInv, ConfigTypes
<1>3. ASSUME NEW o \in Op PROVE OneStep(o)' /\ LoadThenCommit(o)'
  BY <1>1, UntouchedKeeps DEF ConfigInv, Holds, Keeps
<1>4. ASSUME NEW o \in Op PROVE OneWaits(o)'
  BY <1>1 DEF ConfigInv, OneWaits, OpenPane, Pasted, Kind
<1> QED BY <1>2, <1>3, <1>4 DEF ConfigInv

LEMMA DeviceTakesKeeps == ASSUME ConfigInv, NEW r \in Op \X Step, DeviceTakes(r) PROVE ConfigInv'
<1>1. PICK q \in Op, s \in Step : r = <<q, s>>
  OBVIOUS
<1> DEFINE d == rpcTarget[r]
           checks == Kind(q) \in {"check", "pastecheck"}
<1>2. /\ configCall[r] = "asked" /\ verdict[r] = "none" /\ verdict' = [verdict EXCEPT ![r] = "taken"]
      /\ UNCHANGED <<configCall, operation, rpcTarget, success, configFull, configHeard, buttons>>
  BY DEF DeviceTakes
<1>3. /\ candidate' = [candidate EXCEPT ![d] = CASE s = "load"     -> @ \cup {q}
                                                 [] s = "rollback" -> {}
                                                 [] s = "commit"   -> IF checks THEN @ ELSE {}]
      /\ active' = IF s = "commit" /\ ~ checks THEN [active EXCEPT ![d] = @ \cup candidate[d]]
                                              ELSE active
      /\ undone' = IF s = "rollback" THEN undone \cup (candidate[d] \ {q}) ELSE undone
  <2>1. r[1] = q /\ r[2] = s
    BY <1>1
  <2> QED BY <2>1 DEF DeviceTakes
<1> HIDE DEF d, checks
<1>4. \A p \in Op, t \in Step :
          verdict'[<<p, t>>] = IF p = q /\ t = s THEN "taken" ELSE verdict[<<p, t>>]
  BY <1>1, <1>2 DEF ConfigInv, ConfigTypes
<1>5. ConfigTypes'
  <2>1. candidate' = [e \in Device |-> candidate'[e]]
    <3>1. \E C : candidate' = [candidate EXCEPT ![d] = C]
      BY <1>3, Zenon
    <3>2. candidate = [e \in Device |-> candidate[e]]
      BY DEF ConfigInv, ConfigTypes
    <3> QED BY <3>1, <3>2
  <2>2. active' = [e \in Device |-> active'[e]]
    BY <1>3 DEF ConfigInv, ConfigTypes
  <2>3. verdict' \in [Op \X Step -> {"none", "taken", "refused"}]
    BY <1>2 DEF ConfigInv, ConfigTypes
  <2> QED BY <1>2, <2>1, <2>2, <2>3 DEF ConfigInv, ConfigTypes
<1>6. \A e \in Device : /\ active[e] \subseteq active'[e]
                        /\ active'[e] = IF s = "commit" /\ ~ checks /\ e = d
                                        THEN active[e] \cup candidate[e] ELSE active[e]
  BY <1>3 DEF ConfigInv, ConfigTypes
<1>7. \A e \in Device :
          /\ s = "load" /\ e = d => candidate'[e] = candidate[e] \cup {q}
          /\ s = "rollback" \/ (s = "commit" /\ ~ checks) \/ (s = "load" /\ e = d)
                \/ candidate'[e] = candidate[e]
          /\ e # d => candidate'[e] = candidate[e]
  BY <1>3 DEF ConfigInv, ConfigTypes, Step
<1>8. undone \subseteq undone' /\ (s = "rollback" => undone' = undone \cup (candidate[d] \ {q}))
  BY <1>3
<1>9. ASSUME NEW p \in Op, Kind(p) = "configure"
      PROVE  /\ p \in Holds(p) => p \in Holds(p)'
             /\ p \in Keeps(p) => p \in Keeps(p)'
  <2>1. operation[p].device \in Device /\ operation'[p].device = operation[p].device
    BY <1>2, <1>9 DEF ConfigInv, LoadThenCommit
  <2>2. p = q => s # "rollback"
    BY <1>1, <1>2, <1>9 DEF ConfigInv, LoadThenCommit
  <2>3. p \in Keeps(p) => p \in Keeps(p)'
    BY <1>6, <1>8, <2>1 DEF Keeps
  <2>4. ASSUME p \in candidate[operation[p].device] PROVE p \in Holds(p)'
    <3> DEFINE e == operation[p].device
    <3> HIDE DEF e
    <3>1. p \in candidate'[e] \cup active'[e] \cup undone'
      <4>1. e \in Device /\ p \in candidate[e]
        BY <2>1, <2>4 DEF e
      <4>2. CASE s = "rollback"
        BY <1>7, <1>8, <2>2, <4>1, <4>2
      <4>3. CASE s = "commit" /\ ~ checks
        BY <1>6, <1>7, <4>1, <4>3
      <4>4. CASE s # "rollback" /\ ~ (s = "commit" /\ ~ checks)
        BY <1>7, <4>1, <4>4
      <4> QED BY <4>2, <4>3, <4>4
    <3> QED BY <2>1, <3>1 DEF Holds, e
  <2>5. p \in active[operation[p].device] \cup undone => p \in Holds(p)'
    BY <1>6, <1>8, <2>1 DEF Holds
  <2> QED BY <2>3, <2>4, <2>5 DEF Holds
<1>10. ASSUME NEW p \in Op PROVE OneStep(p)' /\ LoadThenCommit(p)'
  <2>1. OneStep(p) /\ LoadThenCommit(p)
    BY DEF ConfigInv
  <2>2. CASE p # q
    BY <1>2, <1>4, <1>9, <2>1, <2>2, UntouchedKeeps
  <2>3. CASE p = q
    <3>1. OneStep(q)'
      <4>1. OpOver(q)' = OpOver(q) /\ OpSilent(q)' = OpSilent(q) /\ Kind(q)' = Kind(q)
        BY <1>2 DEF OpOver, OpSilent, Unparsable, Pasted, Kind
      <4>2. configCall[<<q, s>>] # "idle"
        BY <1>1, <1>2
      <4> QED BY <1>2, <1>4, <2>1, <2>3, <4>1, <4>2 DEF OneStep
    <3>2. LoadThenCommit(q)'
      <4> SUFFICES ASSUME Kind(q) = "configure" PROVE LoadThenCommit(q)'
        BY <1>2 DEF LoadThenCommit, Kind
      <4>1. /\ operation[q].device \in Device /\ s # "rollback" /\ ~ checks
            /\ d = operation[q].device
        BY <1>1, <1>2, <2>1, <2>3 DEF LoadThenCommit, Step, d, checks
      <4>2. verdict'[<<q, "load">>] = "taken" => q \in Holds(q)'
        <5>1. CASE s = "load"
          BY <1>2, <1>7, <4>1, <5>1 DEF Holds
        <5>2. CASE s # "load"
          BY <1>4, <1>9, <2>1, <2>3, <5>2 DEF LoadThenCommit, Step
        <5> QED BY <5>1, <5>2
      <4>3. verdict'[<<q, "commit">>] = "taken" => q \in Keeps(q)' \/ Cut(<<q, "load">>)'
        <5>1. CASE s = "commit"
          <6>1. /\ success[<<q, "load">>] /\ verdict[<<q, "load">>] \in {"taken", "refused"}
                /\ verdict[<<q, "load">>] = "taken" => q \in Holds(q)
            BY <1>1, <1>2, <2>1, <2>3, <5>1 DEF LoadThenCommit, ConfigInv, ConfigTypes, Step
          <6>2. CASE verdict[<<q, "load">>] = "taken"
            BY <1>2, <1>6, <1>8, <4>1, <5>1, <6>1, <6>2 DEF Holds, Keeps
          <6>3. CASE verdict[<<q, "load">>] = "refused"
            BY <1>2, <1>4, <5>1, <6>1, <6>3 DEF Cut, Step
          <6> QED BY <6>1, <6>2, <6>3
        <5>2. CASE s # "commit"
          <6>1. Cut(<<q, "load">>) => Cut(<<q, "load">>)'
            BY <1>1, <1>2, <1>4 DEF Cut, Step
          <6> QED BY <1>4, <1>9, <2>1, <2>3, <5>2, <6>1 DEF LoadThenCommit, Step
        <5> QED BY <5>1, <5>2
      <4>4. \A t \in Step : verdict[<<q, t>>] # "none" => verdict'[<<q, t>>] # "none"
        BY <1>4
      <4> QED BY <1>2, <2>1, <2>3, <4>2, <4>3, <4>4 DEF LoadThenCommit, Kind, Step
    <3> QED BY <2>3, <3>1, <3>2
  <2> QED BY <2>2, <2>3
<1>11. ASSUME NEW p \in Op PROVE OneWaits(p)'
  BY <1>2 DEF ConfigInv, OneWaits, Pasted, Kind
<1> QED BY <1>5, <1>10, <1>11 DEF ConfigInv

LEMMA DeviceRefusesKeeps ==
    ASSUME ConfigInv, NEW r \in Op \X Step, DeviceRefuses(r) PROVE ConfigInv'
<1>1. PICK q \in Op, s \in Step : r = <<q, s>>
  OBVIOUS
<1>2. /\ configCall[r] = "asked" /\ verdict[r] = "none" /\ verdict' = [verdict EXCEPT ![r] = "refused"]
      /\ UNCHANGED <<configCall, operation, rpcTarget, success, configFull, configHeard, buttons,
                     candidate, active, undone>>
  BY DEF DeviceRefuses
<1>3. \A p \in Op, t \in Step :
          verdict'[<<p, t>>] = IF p = q /\ t = s THEN "refused" ELSE verdict[<<p, t>>]
  BY <1>1, <1>2 DEF ConfigInv, ConfigTypes
<1>4. ConfigTypes'
  BY <1>2 DEF ConfigInv, ConfigTypes
<1>5. ASSUME NEW p \in Op PROVE OneStep(p)' /\ LoadThenCommit(p)'
  <2>1. OneStep(p) /\ LoadThenCommit(p)
    BY DEF ConfigInv
  <2>2. /\ OpOver(p)' = OpOver(p) /\ OpSilent(p)' = OpSilent(p) /\ Kind(p)' = Kind(p)
        /\ Holds(p)' = Holds(p) /\ Keeps(p)' = Keeps(p)
    BY <1>2 DEF OpOver, OpSilent, Unparsable, Pasted, Kind, Holds, Keeps
  <2>3. \A t \in Step : /\ configCall[<<p, t>>] = "idle" => verdict'[<<p, t>>] = verdict[<<p, t>>]
                        /\ verdict'[<<p, t>>] = "taken" => verdict[<<p, t>>] = "taken"
                        /\ verdict[<<p, t>>] # "none" => verdict'[<<p, t>>] = verdict[<<p, t>>]
    BY <1>1, <1>2, <1>3
  <2>4. OneStep(p)'
    BY <1>2, <2>1, <2>2, <2>3 DEF OneStep
  <2>5. LoadThenCommit(p)'
    BY <1>2, <2>1, <2>2, <2>3 DEF LoadThenCommit, Cut, Step
  <2> QED BY <2>4, <2>5
<1>6. ASSUME NEW p \in Op PROVE OneWaits(p)'
  BY <1>2 DEF ConfigInv, OneWaits, Pasted, Kind
<1> QED BY <1>4, <1>5, <1>6 DEF ConfigInv

LEMMA ConfigRepliedKeeps ==
    ASSUME ConfigInv, NEW r \in Op \X Step, NEW marked \in BOOLEAN, ConfigReplied(r, marked)
    PROVE  ConfigInv'
<1>1. PICK q \in Op, s \in Step : r = <<q, s>>
  OBVIOUS
<1>2. /\ configCall[r] = "asked"
      /\ configFull' = [configFull EXCEPT ![r] = TRUE]
      /\ success' = [success EXCEPT ![r] = @ /\ ~ marked]
      /\ UNCHANGED <<configCall, operation, rpcTarget, verdict, configHeard, buttons, candidate,
                     active, undone>>
  BY DEF ConfigReplied, ConfigService!Replies
<1>3. \A p \in Op, t \in Step : configCall[<<p, t>>] # "asked" =>
          UNCHANGED <<configFull[<<p, t>>], success[<<p, t>>]>>
  BY <1>1, <1>2 DEF ConfigInv, ConfigTypes
<1>4. ConfigTypes'
  <2>1. success' \in [Op \X Step -> BOOLEAN]
    BY <1>2 DEF ConfigInv, ConfigTypes
  <2>2. configFull' \in [Op \X Step -> BOOLEAN]
    BY <1>2 DEF ConfigInv, ConfigTypes
  <2> QED BY <1>2, <2>1, <2>2 DEF ConfigInv, ConfigTypes
<1>5. ASSUME NEW p \in Op PROVE OneStep(p)' /\ LoadThenCommit(p)'
  <2>1. OneStep(p) /\ LoadThenCommit(p)
    BY DEF ConfigInv
  <2>2. /\ OpOver(p)' = OpOver(p) /\ Kind(p)' = Kind(p)
        /\ Holds(p)' = Holds(p) /\ Keeps(p)' = Keeps(p)
    BY <1>2 DEF OpOver, Pasted, Kind, Holds, Keeps
  <2>3. OpSilent(p)' = OpSilent(p)
    BY <1>2, <1>3 DEF OpSilent, Unparsable, Pasted, Kind
  <2>4. OneStep(p)'
    BY <1>2, <2>1, <2>2, <2>3 DEF OneStep
  <2>5. LoadThenCommit(p)'
    <3> SUFFICES ASSUME Kind(p) = "configure" PROVE LoadThenCommit(p)'
      BY <2>2 DEF LoadThenCommit
    <3>1. configCall[<<p, "commit">>] # "idle" => UNCHANGED success[<<p, "load">>]
      BY <1>3, <2>1 DEF LoadThenCommit, Step
    <3>2. configCall[<<p, "commit">>] = "complete" => UNCHANGED success[<<p, "commit">>]
      BY <1>3 DEF Step
    <3>3. verdict[<<p, "commit">>] = "taken" => configCall[<<p, "commit">>] # "idle"
      BY <2>1 DEF OneStep, Step
    <3> QED BY <1>2, <2>1, <2>2, <3>1, <3>2, <3>3 DEF LoadThenCommit, Cut
  <2> QED BY <2>4, <2>5
<1>6. ASSUME NEW p \in Op PROVE OneWaits(p)'
  BY <1>2 DEF ConfigInv, OneWaits, Pasted, Kind
<1> QED BY <1>4, <1>5, <1>6 DEF ConfigInv

\* The RPC of an operation ends, and with it the operation: its caller hears `status`, or
\* nothing of a partial reply that could not be parsed.
LEMMA OperationEnds ==
    ASSUME ConfigInv, NEW r \in Op \X Step, NEW how \in {"complete", "error"},
           NEW status \in BOOLEAN, configCall[r] = "asked",
           configCall' = [configCall EXCEPT ![r] = how],
           UNCHANGED <<operation, rpcTarget, verdict, success, configFull, candidate, active, undone>>,
           IF how = "error" /\ Unparsable(r) THEN UNCHANGED <<configHeard, buttons>>
                                             ELSE EndsOperation(r[1], status),
           status => /\ how = "complete" /\ success[r] /\ verdict[r] # "none"
                     /\ Kind(r[1]) = "configure" => r[2] = "commit"
    PROVE  ConfigInv'
<1>1. PICK q \in Op, s \in Step : r = <<q, s>>
  OBVIOUS
<1>2. r[1] = q /\ r[2] = s
  BY <1>1
<1> DEFINE silent == how = "error" /\ Unparsable(r)
<1>3. /\ configHeard' = IF silent THEN configHeard
                                 ELSE [configHeard EXCEPT ![q] = Append(@, status)]
      /\ buttons' = IF ~ silent /\ Pasted(q) THEN buttons \cup {operation[q].device} ELSE buttons
  BY <1>2 DEF EndsOperation, Hears
<1> HIDE DEF silent
<1>4. /\ OneStep(q) /\ configHeard[q] = <<>> /\ Kind(q) # "none"
      /\ \A t \in Step \ {s} : configCall[<<q, t>>] \in {"idle", "complete"}
  BY <1>1 DEF ConfigInv, OneStep
<1>5. /\ \A p \in Op \ {q} : configHeard'[p] = configHeard[p]
      /\ configHeard'[q] = IF silent THEN <<>> ELSE <<status>>
  <2>1. Append(<<>>, status) = <<status>>
    OBVIOUS
  <2> QED BY <1>3, <1>4, <2>1 DEF ConfigInv, ConfigTypes
<1>6. \A p \in Op, t \in Step :
          configCall'[<<p, t>>] = IF p = q /\ t = s THEN how ELSE configCall[<<p, t>>]
  BY <1>1 DEF ConfigInv, ConfigTypes
<1>7. ConfigTypes'
  <2>1. configCall' \in [Op \X Step -> {"idle", "asked"} \cup ConfigService!Endings]
    BY DEF ConfigInv, ConfigTypes, ConfigService!Endings
  <2>2. configHeard' \in [Op -> Seq(BOOLEAN)]
    <3>1. Append(configHeard[q], status) \in Seq(BOOLEAN)
      BY AppendProperties DEF ConfigInv, ConfigTypes
    <3> QED BY <1>3, <3>1 DEF ConfigInv, ConfigTypes
  <2> QED BY <2>1, <2>2 DEF ConfigInv, ConfigTypes
<1>8. /\ \A p \in Op : Kind(p)' = Kind(p) /\ Pasted(p)' = Pasted(p)
      /\ \A p \in Op : Holds(p)' = Holds(p) /\ Keeps(p)' = Keeps(p)
  BY DEF Kind, Pasted, Holds, Keeps
<1>9. ASSUME NEW p \in Op PROVE OneStep(p)' /\ LoadThenCommit(p)'
  <2>1. OneStep(p) /\ LoadThenCommit(p)
    BY DEF ConfigInv
  <2>2. CASE p # q
    BY <1>5, <1>6, <1>8, <2>1, <2>2, UntouchedKeeps
  <2>3. CASE p = q
    <3>1. OneStep(q)'
      <4>1. /\ \A t \in Step : configCall'[<<q, t>>] # "asked"
            /\ \A t \in Step : configCall'[<<q, t>>] = "idle" => configCall[<<q, t>>] = "idle"
        BY <1>4, <1>6
      <4>2. OpOver(q)'
        BY <1>4, <1>8, <4>1 DEF OpOver
      <4>3. OpSilent(q)' <=> silent
        <5>1. Unparsable(r)' = Unparsable(r)
          BY <1>2, <1>8 DEF Unparsable
        <5>2. \A t \in Step \ {s} : configCall'[<<q, t>>] \notin {"close", "error"}
          BY <1>4, <1>6
        <5>3. configCall'[<<q, s>>] = how
          BY <1>6
        <5> QED BY <1>1, <5>1, <5>2, <5>3 DEF OpSilent, silent
      <4>4. Len(<<status>>) = 1 /\ Len(<< >>) = 0
        OBVIOUS
      <4> QED BY <1>4, <1>5, <1>8, <4>1, <4>2, <4>3, <4>4 DEF OneStep
    <3>2. LoadThenCommit(q)'
      <4> SUFFICES ASSUME Kind(q) = "configure" PROVE LoadThenCommit(q)'
        BY <1>8 DEF LoadThenCommit
      <4>1. LoadThenCommit(q)
        BY DEF ConfigInv
      <4>2. s # "rollback" /\ (s = "load" => configCall[<<q, "commit">>] = "idle")
        BY <1>1, <4>1 DEF LoadThenCommit, Step
      <4>3. Contains(configHeard'[q], TRUE) => /\ configCall'[<<q, "commit">>] = "complete"
                                               /\ success[<<q, "commit">>]
                                               /\ verdict[<<q, "commit">>] # "none"
        <5>1. Contains(configHeard'[q], TRUE) => status
          BY <1>5 DEF Contains
        <5>2. status => s = "commit" /\ how = "complete" /\ success[<<q, s>>] /\ verdict[<<q, s>>] # "none"
          BY <1>1, <1>2
        <5> QED BY <1>6, <5>1, <5>2
      <4>4. /\ configCall'[<<q, "rollback">>] = "idle"
            /\ configCall'[<<q, "load">>] # "idle" => configCall[<<q, "load">>] # "idle"
            /\ configCall'[<<q, "commit">>] # "idle" => /\ configCall[<<q, "commit">>] # "idle"
                                                       /\ configCall'[<<q, "load">>] = "complete"
        BY <1>1, <1>6, <4>1, <4>2 DEF LoadThenCommit, Step
      <4> QED BY <1>8, <4>1, <4>3, <4>4 DEF LoadThenCommit, Cut
    <3> QED BY <2>3, <3>1, <3>2
  <2> QED BY <2>2, <2>3
<1>10. ASSUME NEW p \in Op PROVE OneWaits(p)'
  <2>1. \A o \in Op : OneWaits(o)
    BY DEF ConfigInv
  <2>2. \A o \in Op : configHeard'[o] = <<>> => configHeard[o] = <<>> /\ (o = q => silent)
    BY <1>4, <1>5
  <2> SUFFICES ASSUME Pasted(p), configHeard'[p] = <<>>
               PROVE  /\ operation[p].device \notin buttons'
                      /\ \A o \in Op \ {p} : Pasted(o) /\ operation[o].device = operation[p].device
                                              => configHeard'[o] # <<>>
    BY <1>8 DEF OneWaits
  <2>3. /\ configHeard[p] = <<>> /\ operation[p].device \notin buttons
        /\ \A o \in Op \ {p} : Pasted(o) /\ operation[o].device = operation[p].device
                                => configHeard[o] # <<>>
    BY <2>1, <2>2 DEF OneWaits
  <2>4. p # q /\ Pasted(q) => operation[q].device # operation[p].device
    BY <1>4, <2>3
  <2>5. operation[p].device \notin buttons'
    BY <1>3, <2>2, <2>3, <2>4
  <2> QED BY <2>2, <2>3, <2>5
<1> QED BY <1>7, <1>9, <1>10 DEF ConfigInv

\* The callback of an RPC that succeeded asks for the next one.
LEMMA NextStepKeeps ==
    ASSUME ConfigInv, NEW r \in Op \X Step, ConfigCompleted(r), Status(r), NextStep(r) # "none"
    PROVE  ConfigInv'
<1>1. PICK q \in Op, s \in Step : r = <<q, s>>
  OBVIOUS
<1>2. r[1] = q /\ r[2] = s
  BY <1>1
<1> DEFINE n == NextStep(r)
           target == IF Pasted(q) THEN confTarget ELSE operation[q].device
<1>3. /\ n \in Step \ {s} /\ (Kind(q) = "configure" => s = "load" /\ n = "commit")
      /\ Kind(q) = "configure" => target = operation[q].device
  BY <1>2 DEF NextStep, Step, Pasted
<1>4. /\ configCall[r] = "asked" /\ verdict[r] # "none" /\ success[r]
      /\ configCall' = [configCall EXCEPT ![r] = "complete", ![<<q, n>>] = "asked"]
      /\ rpcTarget' = [rpcTarget EXCEPT ![<<q, n>>] = target]
      /\ UNCHANGED <<operation, verdict, success, configFull, candidate, active, undone, configHeard,
                     buttons>>
  BY <1>2 DEF ConfigCompleted, Status
<1> HIDE DEF n, target
<1>5. /\ OneStep(q) /\ configHeard[q] = <<>> /\ Kind(q) # "none" /\ Len(configHeard[q]) = 0
      /\ \A t \in Step \ {s} : configCall[<<q, t>>] \in {"idle", "complete"}
  BY <1>1, <1>4 DEF ConfigInv, OneStep
<1>6. \A p \in Op, t \in Step :
          /\ configCall'[<<p, t>>] = IF p = q /\ t = s THEN "complete"
                                     ELSE IF p = q /\ t = n THEN "asked" ELSE configCall[<<p, t>>]
          /\ rpcTarget'[<<p, t>>] = IF p = q /\ t = n THEN target ELSE rpcTarget[<<p, t>>]
  BY <1>1, <1>3, <1>4 DEF ConfigInv, ConfigTypes
<1>7. ConfigTypes'
  <2>1. configCall' \in [Op \X Step -> {"idle", "asked"} \cup ConfigService!Endings]
    BY <1>3, <1>4 DEF ConfigInv, ConfigTypes, ConfigService!Endings
  <2>2. rpcTarget' = [x \in Op \X Step |-> rpcTarget'[x]]
    BY <1>4 DEF ConfigInv, ConfigTypes
  <2> QED BY <1>4, <2>1, <2>2 DEF ConfigInv, ConfigTypes
<1>8. /\ \A p \in Op : Kind(p)' = Kind(p) /\ Pasted(p)' = Pasted(p)
      /\ \A p \in Op : Holds(p)' = Holds(p) /\ Keeps(p)' = Keeps(p)
  BY <1>4 DEF Kind, Pasted, Holds, Keeps
<1>9. ASSUME NEW p \in Op PROVE OneStep(p)' /\ LoadThenCommit(p)'
  <2>1. OneStep(p) /\ LoadThenCommit(p)
    BY DEF ConfigInv
  <2>2. CASE p # q
    <3>1. UNCHANGED <<operation[p], configHeard[p]>>
      BY <1>4
    <3>2. \A t \in Step : UNCHANGED <<configCall[<<p, t>>], rpcTarget[<<p, t>>], verdict[<<p, t>>],
                                      success[<<p, t>>], configFull[<<p, t>>]>>
      <4>1. \A t \in Step : UNCHANGED <<configCall[<<p, t>>], rpcTarget[<<p, t>>]>>
        BY <1>6, <2>2
      <4>2. \A t \in Step : UNCHANGED <<verdict[<<p, t>>], success[<<p, t>>], configFull[<<p, t>>]>>
        BY <1>4
      <4> QED BY <4>1, <4>2
    <3>3. Kind(p) = "configure" => /\ p \in Holds(p) => p \in Holds(p)'
                                   /\ p \in Keeps(p) => p \in Keeps(p)'
      BY <1>8
    <3> QED BY <2>1, <3>1, <3>2, <3>3, UntouchedKeeps
  <2>3. CASE p = q
    <3>1. OneStep(q)'
      <4>1. /\ configCall'[<<q, n>>] = "asked" /\ n \in Step
            /\ \A t \in Step \ {n} : configCall'[<<q, t>>] \in {"idle", "complete"}
            /\ \A t \in Step : configCall'[<<q, t>>] = "idle" => configCall[<<q, t>>] = "idle"
        BY <1>3, <1>5, <1>6
      <4>2. ~ OpOver(q)'
        BY <4>1 DEF OpOver
      <4>3. \A t \in Step : configCall'[<<q, t>>] = "idle" => verdict'[<<q, t>>] = "none"
        BY <1>4, <1>5, <4>1 DEF OneStep
      <4>4. \A t \in Step : configCall'[<<q, t>>] = "asked" => t = n
        BY <4>1
      <4>5. configHeard'[q] = <<>> /\ Len(configHeard'[q]) = 0 /\ Kind(q)' # "none"
        BY <1>4, <1>5, <1>8
      <4> QED BY <4>1, <4>2, <4>3, <4>4, <4>5 DEF OneStep
    <3>2. LoadThenCommit(q)'
      <4> SUFFICES ASSUME Kind(q) = "configure" PROVE LoadThenCommit(q)'
        BY <1>8 DEF LoadThenCommit
      <4>1. /\ LoadThenCommit(q) /\ s = "load" /\ n = "commit" /\ target = operation[q].device
        BY <1>3 DEF ConfigInv
      <4>2. /\ configCall'[<<q, "load">>] = "complete" /\ configCall'[<<q, "rollback">>] = "idle"
            /\ rpcTarget'[<<q, "load">>] = operation[q].device
            /\ rpcTarget'[<<q, "commit">>] = operation[q].device
            /\ success[<<q, "load">>] /\ verdict[<<q, "load">>] # "none"
        BY <1>1, <1>4, <1>6, <4>1 DEF LoadThenCommit, Step
      <4>3. ~ Contains(configHeard'[q], TRUE)
        BY <1>4, <1>5 DEF Contains
      <4> QED BY <1>4, <1>8, <4>1, <4>2, <4>3 DEF LoadThenCommit, Cut
    <3> QED BY <2>3, <3>1, <3>2
  <2> QED BY <2>2, <2>3
<1>10. ASSUME NEW p \in Op PROVE OneWaits(p)'
  BY <1>4 DEF ConfigInv, OneWaits, Pasted, Kind
<1> QED BY <1>7, <1>9, <1>10 DEF ConfigInv

LEMMA ConfigCompletedKeeps ==
    ASSUME ConfigInv, NEW r \in Op \X Step, ConfigCompleted(r) PROVE ConfigInv'
<1>1. CASE Status(r) /\ NextStep(r) # "none"
  BY <1>1, NextStepKeeps
<1>2. CASE ~ (Status(r) /\ NextStep(r) # "none")
  <2>1. /\ configCall[r] = "asked" /\ verdict[r] # "none" /\ EndsOperation(r[1], success[r])
        /\ configCall' = [configCall EXCEPT ![r] = "complete"]
        /\ UNCHANGED <<operation, rpcTarget, verdict, success, configFull, candidate, active, undone>>
    BY <1>2 DEF ConfigCompleted, Status, ConfigService!Ends
  <2>2. success[r] \in BOOLEAN
    BY DEF ConfigInv, ConfigTypes
  <2>3. ASSUME success[r], Kind(r[1]) = "configure" PROVE r[2] = "commit"
    <3>1. r[2] # "load" /\ r[2] \in Step
      BY <1>2, <2>3 DEF NextStep, Status
    <3>2. r[1] \in Op /\ r = <<r[1], r[2]>>
      OBVIOUS
    <3>3. configCall[<<r[1], "rollback">>] = "idle"
      BY <2>3, <3>2 DEF ConfigInv, LoadThenCommit
    <3> QED BY <2>1, <3>1, <3>2, <3>3 DEF Step
  <2> QED BY <2>1, <2>2, <2>3, OperationEnds
<1> QED BY <1>1, <1>2

LEMMA ConfigFailedKeeps ==
    ASSUME ConfigInv, NEW r \in Op \X Step, ConfigFailed(r) PROVE ConfigInv'
<1>1. /\ configCall[r] = "asked" /\ configCall' = [configCall EXCEPT ![r] = "error"]
      /\ IF Unparsable(r) THEN UNCHANGED <<configHeard, buttons>> ELSE EndsOperation(r[1], FALSE)
      /\ UNCHANGED <<operation, rpcTarget, verdict, success, configFull, candidate, active, undone>>
  BY DEF ConfigFailed, ConfigService!Ends
<1> QED BY <1>1, OperationEnds

LEMMA ConfigClosesKeeps == ASSUME ConfigInv, ConfigCloses PROVE ConfigInv'
<1>1. /\ configCall' = [r \in Op \X Step |-> IF configCall[r] = "asked" THEN "close" ELSE configCall[r]]
      /\ UNCHANGED <<operation, rpcTarget, verdict, success, configFull, candidate, active, undone,
                     configHeard, buttons>>
  BY DEF ConfigCloses, ConfigInv, ConfigTypes
<1>2. \A p \in Op, t \in Step :
          configCall'[<<p, t>>] = IF configCall[<<p, t>>] = "asked" THEN "close" ELSE configCall[<<p, t>>]
  BY <1>1
<1>3. ConfigTypes'
  <2>1. configCall' \in [Op \X Step -> {"idle", "asked"} \cup ConfigService!Endings]
    BY <1>1 DEF ConfigInv, ConfigTypes, ConfigService!Endings
  <2> QED BY <1>1, <2>1 DEF ConfigInv, ConfigTypes
<1>4. ASSUME NEW p \in Op PROVE OneStep(p)' /\ LoadThenCommit(p)'
  <2>1. OneStep(p) /\ LoadThenCommit(p)
    BY DEF ConfigInv
  <2>2. /\ Kind(p)' = Kind(p) /\ Pasted(p)' = Pasted(p)
        /\ Holds(p)' = Holds(p) /\ Keeps(p)' = Keeps(p)
    BY <1>1 DEF Kind, Pasted, Holds, Keeps
  <2>3. \A t \in Step : /\ configCall'[<<p, t>>] # "asked"
                        /\ \A x \in {"idle", "complete"} : configCall'[<<p, t>>] = x
                                                            <=> configCall[<<p, t>>] = x
    BY <1>2
  <2>4. OneStep(p)'
    <3>1. Len(configHeard[p]) = IF OpOver(p)' /\ ~ OpSilent(p)' THEN 1 ELSE 0
      <4>1. CASE \E s \in Step : configCall[<<p, s>>] = "asked"
        <5>1. configHeard[p] = <<>> /\ OpSilent(p)'
          BY <1>2, <2>1, <4>1 DEF OneStep, OpSilent
        <5> QED BY <5>1
      <4>2. CASE \A s \in Step : configCall[<<p, s>>] # "asked"
        <5>1. \A s \in Step : configCall'[<<p, s>>] = configCall[<<p, s>>]
          BY <1>2, <4>2
        <5>2. OpOver(p)' = OpOver(p) /\ OpSilent(p)' = OpSilent(p)
          BY <1>1, <2>2, <5>1 DEF OpOver, OpSilent, Unparsable
        <5> QED BY <2>1, <5>2 DEF OneStep
      <4> QED BY <4>1, <4>2
    <3> QED BY <1>1, <2>1, <2>2, <2>3, <3>1 DEF OneStep
  <2>5. LoadThenCommit(p)'
    BY <1>1, <2>1, <2>2, <2>3 DEF LoadThenCommit, Cut, Step
  <2> QED BY <2>4, <2>5
<1>5. ASSUME NEW p \in Op PROVE OneWaits(p)'
  BY <1>1 DEF ConfigInv, OneWaits, Pasted, Kind
<1> QED BY <1>3, <1>4, <1>5 DEF ConfigInv

LEMMA ConfigStep == ConfigInv /\ (ConfigureNext \/ UNCHANGED configureVars) => ConfigInv'
<1> SUFFICES ASSUME ConfigInv, ConfigureNext \/ UNCHANGED configureVars PROVE ConfigInv'
  OBVIOUS
<1>1. ASSUME NEW o \in Op, NEW kind \in ConfigKind, NEW d \in Device,
             \/ LoadConfig(o, kind, d) \/ RollbackConfig(o, kind, d) \/ CommitConfig(o, kind, d)
             \/ ClickCommit(o, kind, d)
      PROVE  ConfigInv'
  <2>1. kind \in Kinds
    BY ConfigureAssumption
  <2>2. CASE LoadConfig(o, kind, d) \/ RollbackConfig(o, kind, d) \/ CommitConfig(o, kind, d)
    <3>1. Begins(o, kind, d, d) /\ buttons' = buttons /\ kind \notin {"paste", "pastecheck"}
      BY <2>2 DEF LoadConfig, RollbackConfig, CommitConfig
    <3> QED BY <2>1, <3>1, BeginsKeeps
  <2>3. CASE ClickCommit(o, kind, d)
    <3>1. /\ Begins(o, kind, d, confTarget) /\ kind \in {"paste", "pastecheck"} /\ d \in buttons
          /\ buttons' = buttons \ {d}
      BY <2>3 DEF ClickCommit
    <3> QED BY <2>1, <3>1, BeginsKeeps
  <2> QED BY <1>1, <2>2, <2>3
<1>2. ASSUME NEW d \in Device, OpenPane(d) PROVE ConfigInv'
  BY <1>2, OpenPaneKeeps
<1>3. ASSUME NEW r \in Op \X Step,
             \/ DeviceTakes(r) \/ DeviceRefuses(r)
             \/ \E marked \in BOOLEAN : ConfigReplied(r, marked)
             \/ ConfigCompleted(r) \/ ConfigFailed(r)
      PROVE  ConfigInv'
  BY <1>3, DeviceTakesKeeps, DeviceRefusesKeeps, ConfigRepliedKeeps, ConfigCompletedKeeps,
     ConfigFailedKeeps
<1>4. CASE ConfigCloses
  BY <1>4, ConfigClosesKeeps
<1>5. CASE UNCHANGED configureVars
  <2>1. ConfigTypes'
    BY <1>5 DEF configureVars, ConfigInv, ConfigTypes
  <2>2. ASSUME NEW o \in Op PROVE OneStep(o)' /\ LoadThenCommit(o)'
    BY <1>5, UntouchedKeeps DEF configureVars, ConfigInv, Holds, Keeps
  <2>3. ASSUME NEW o \in Op PROVE OneWaits(o)'
    BY <1>5 DEF configureVars, ConfigInv, OneWaits, Pasted, Kind
  <2> QED BY <2>1, <2>2, <2>3 DEF ConfigInv
<1> QED BY <1>1, <1>2, <1>3, <1>4, <1>5 DEF ConfigureNext

ConfigureTypes ==
    /\ operation \in [Op -> [kind : ConfigKind \cup {"none"}, device : Device \cup {NoDevice}]]
    /\ \A o \in Op : Kind(o) # "none" => operation[o].device \in Device
    /\ rpcTarget \in [Op \X Step -> Device \cup {NoDevice}]
    /\ \A r \in Op \X Step : configCall[r] = "asked" => rpcTarget[r] \in Device /\ Kind(r[1]) # "none"
    /\ candidate \in [Device -> SUBSET Op] /\ active \in [Device -> SUBSET Op] /\ undone \subseteq Op
    /\ confTarget \in Device \cup {NoDevice} /\ buttons \subseteq Device
    /\ (buttons # {} \/ \E o \in Op : Pasted(o)) => confTarget # NoDevice

LEMMA ConfigureTyped == ConfigInv /\ ConfigureTypes => ConfigureTypeOK
BY DEF ConfigInv, ConfigTypes, ConfigureTypes, ConfigureTypeOK, ConfigService!RpcTypeOK

LEMMA ConfigureTypesStart == ConfigureInit => ConfigureTypes
<1> SUFFICES ASSUME ConfigureInit PROVE ConfigureTypes
  OBVIOUS
<1>1. \A o \in Op : Kind(o) = "none" /\ ~ Pasted(o)
  BY DEF ConfigureInit, Kind, Pasted
<1> QED BY <1>1 DEF ConfigureInit, ConfigureTypes

LEMMA BeginsTyped ==
    ASSUME ConfigInv, ConfigureTypes, NEW o \in Op, NEW kind \in ConfigKind, NEW own \in Device,
           NEW target \in Device, Begins(o, kind, own, target), buttons' \subseteq buttons,
           kind \in {"paste", "pastecheck"} => confTarget # NoDevice
    PROVE  ConfigureTypes'
<1> DEFINE r == <<o, FirstStep(kind)>>
<1>1. /\ operation' = [operation EXCEPT ![o] = [kind |-> kind, device |-> own]]
      /\ rpcTarget' = [rpcTarget EXCEPT ![r] = target]
      /\ configCall' = [configCall EXCEPT ![r] = "asked"]
      /\ UNCHANGED <<verdict, success, configFull, candidate, active, undone, configHeard, confTarget>>
  BY DEF Begins, ConfigService!Ask
<1>2. r \in Op \X Step
  BY DEF FirstStep, Step
<1>3. kind # "none"
  BY ConfigureAssumption DEF Kinds
<1> HIDE DEF r
<1>4. operation' \in [Op -> [kind : ConfigKind \cup {"none"}, device : Device \cup {NoDevice}]]
  BY <1>1 DEF ConfigureTypes
<1>5. \A p \in Op : operation'[p] = IF p = o THEN [kind |-> kind, device |-> own] ELSE operation[p]
  BY <1>1 DEF ConfigureTypes
<1>6. \A p \in Op : Kind(p)' # "none" => operation'[p].device \in Device
  BY <1>3, <1>5 DEF ConfigureTypes, Kind
<1>7. rpcTarget' \in [Op \X Step -> Device \cup {NoDevice}]
  BY <1>1 DEF ConfigureTypes
<1>8. ASSUME NEW s \in Op \X Step, configCall'[s] = "asked"
      PROVE  rpcTarget'[s] \in Device /\ Kind(s[1])' # "none"
  <2>1. CASE s = r
    <3>1. s[1] = o
      BY <2>1 DEF r
    <3> QED BY <1>1, <1>2, <1>3, <1>5, <2>1, <3>1 DEF ConfigureTypes, Kind
  <2>2. CASE s # r
    <3>1. configCall[s] = "asked" /\ rpcTarget'[s] = rpcTarget[s] /\ s[1] \in Op
      BY <1>1, <1>8, <2>2 DEF ConfigInv, ConfigTypes, ConfigureTypes
    <3> QED BY <1>3, <1>5, <3>1 DEF ConfigureTypes, Kind
  <2> QED BY <2>1, <2>2
<1>9. (\E p \in Op : Pasted(p)') => confTarget # NoDevice
  BY <1>5 DEF ConfigureTypes, Pasted, Kind
<1> QED BY <1>1, <1>4, <1>6, <1>7, <1>8, <1>9 DEF ConfigureTypes

LEMMA ConfigureTypesStep ==
    ConfigInv /\ ConfigureTypes /\ (ConfigureNext \/ UNCHANGED configureVars) => ConfigureTypes'
<1> SUFFICES ASSUME ConfigInv, ConfigureTypes, ConfigureNext \/ UNCHANGED configureVars
             PROVE  ConfigureTypes'
  OBVIOUS
<1>1. ASSUME UNCHANGED <<operation, rpcTarget, candidate, active, undone, confTarget>>,
             buttons' \subseteq buttons \cup {operation[o].device : o \in {p \in Op : Pasted(p)}},
             \A r \in Op \X Step : configCall'[r] = "asked" => configCall[r] = "asked"
      PROVE  ConfigureTypes'
  <2>1. \A o \in Op : Kind(o)' = Kind(o) /\ Pasted(o)' = Pasted(o)
    BY <1>1 DEF Kind, Pasted
  <2>2. \A r \in Op \X Step : r[1] \in Op
    OBVIOUS
  <2>3. \A o \in Op : Pasted(o) => Kind(o) # "none" /\ operation[o].device \in Device
    BY DEF Pasted, ConfigureTypes
  <2>4. buttons' \subseteq Device
    BY <1>1, <2>3 DEF ConfigureTypes
  <2>5. (buttons' # {} \/ \E o \in Op : Pasted(o)) => confTarget # NoDevice
    BY <1>1 DEF ConfigureTypes
  <2> QED BY <1>1, <2>1, <2>2, <2>4, <2>5 DEF ConfigureTypes
<1>2. CASE UNCHANGED configureVars
  BY <1>1, <1>2 DEF configureVars
<1>3. ASSUME NEW o \in Op, NEW kind \in ConfigKind, NEW d \in Device,
             LoadConfig(o, kind, d) \/ RollbackConfig(o, kind, d) \/ CommitConfig(o, kind, d)
      PROVE  ConfigureTypes'
  BY <1>3, BeginsTyped DEF LoadConfig, RollbackConfig, CommitConfig
<1>4. ASSUME NEW o \in Op, NEW kind \in ConfigKind, NEW d \in Device, ClickCommit(o, kind, d)
      PROVE  ConfigureTypes'
  <2>1. /\ buttons' \subseteq buttons /\ Begins(o, kind, d, confTarget)
        /\ confTarget # NoDevice /\ confTarget \in Device
    BY <1>4 DEF ClickCommit, ConfigureTypes
  <2> QED BY <2>1, BeginsTyped
<1>5. ASSUME NEW d \in Device, OpenPane(d) PROVE ConfigureTypes'
  <2>1. d # NoDevice
    BY ConfigureAssumption
  <2> QED BY <1>5, <2>1 DEF OpenPane, ConfigureTypes, Kind, Pasted
<1>6. ASSUME NEW r \in Op \X Step, DeviceTakes(r) PROVE ConfigureTypes'
  <2> DEFINE d == rpcTarget[r]
  <2>1. d \in Device /\ r[1] \in Op
    BY <1>6 DEF DeviceTakes, ConfigureTypes
  <2>2. candidate' \in [Device -> SUBSET Op]
    <3>1. \E C \in SUBSET Op : candidate' = [candidate EXCEPT ![d] = C]
      <4>1. candidate[d] \in SUBSET Op
        BY <2>1 DEF ConfigureTypes
      <4>2. r[2] \in {"load", "rollback", "commit"}
        BY DEF Step
      <4> QED BY <1>6, <2>1, <4>1, <4>2 DEF DeviceTakes
    <3> QED BY <2>1, <3>1 DEF ConfigureTypes
  <2>3. active' \in [Device -> SUBSET Op] /\ undone' \subseteq Op
    BY <1>6, <2>1 DEF DeviceTakes, ConfigureTypes
  <2> QED BY <1>6, <2>2, <2>3 DEF DeviceTakes, ConfigureTypes, Kind, Pasted
<1>7. ASSUME NEW r \in Op \X Step, NEW marked \in BOOLEAN, DeviceRefuses(r) \/ ConfigReplied(r, marked)
      PROVE  ConfigureTypes'
  BY <1>1, <1>7 DEF DeviceRefuses, ConfigReplied, ConfigService!Replies
<1>8. ASSUME NEW r \in Op \X Step, NEW status \in BOOLEAN, configCall' = [configCall EXCEPT ![r] = "error"]
                                   \/ configCall' = [configCall EXCEPT ![r] = "complete"],
             UNCHANGED <<operation, rpcTarget, candidate, active, undone, confTarget>>,
             UNCHANGED buttons \/ EndsOperation(r[1], status)
      PROVE  ConfigureTypes'
  <2>1. \A s \in Op \X Step : configCall'[s] = "asked" => configCall[s] = "asked"
    BY <1>8 DEF ConfigInv, ConfigTypes
  <2>2. r[1] \in Op
    OBVIOUS
  <2>3. buttons' \subseteq buttons \cup {operation[o].device : o \in {p \in Op : Pasted(p)}}
    BY <1>8, <2>2 DEF EndsOperation
  <2> QED BY <1>1, <1>8, <2>1, <2>3
<1>9. ASSUME NEW r \in Op \X Step, ConfigFailed(r) PROVE ConfigureTypes'
  BY <1>8, <1>9 DEF ConfigFailed, ConfigService!Ends
<1>10. ASSUME NEW r \in Op \X Step, ConfigCompleted(r) PROVE ConfigureTypes'
  <2>1. Status(r) \in BOOLEAN
    BY DEF Status, ConfigInv, ConfigTypes
  <2>2. CASE ~ (Status(r) /\ NextStep(r) # "none")
    BY <1>8, <1>10, <2>1, <2>2 DEF ConfigCompleted, ConfigService!Ends
  <2>3. CASE Status(r) /\ NextStep(r) # "none"
    <3> DEFINE next == <<r[1], NextStep(r)>>
               d == IF Pasted(r[1]) THEN confTarget ELSE operation[r[1]].device
    <3>1. /\ configCall' = [configCall EXCEPT ![r] = "complete", ![next] = "asked"]
          /\ rpcTarget'  = [rpcTarget EXCEPT ![next] = d]
          /\ UNCHANGED <<configHeard, buttons, operation, candidate, active, undone, confTarget>>
          /\ configCall[r] = "asked"
      BY <1>10, <2>3 DEF ConfigCompleted
    <3>2. next \in Op \X Step /\ r[1] \in Op
      BY <2>3 DEF NextStep, Step
    <3>3. Kind(r[1]) # "none" /\ d \in Device
      BY <3>1, <3>2 DEF ConfigureTypes
    <3>4. next[1] = r[1]
      OBVIOUS
    <3> HIDE DEF next, d
    <3>5. ASSUME NEW s \in Op \X Step, configCall'[s] = "asked"
          PROVE  rpcTarget'[s] \in Device /\ Kind(s[1]) # "none"
      <4>1. CASE s = next
        BY <3>1, <3>2, <3>3, <3>4, <4>1 DEF ConfigureTypes
      <4>2. CASE s # next
        BY <3>1, <3>5, <4>2 DEF ConfigureTypes, ConfigInv, ConfigTypes
      <4> QED BY <4>1, <4>2
    <3>6. rpcTarget' \in [Op \X Step -> Device \cup {NoDevice}]
      BY <3>1, <3>3 DEF ConfigureTypes
    <3>7. \A o : Kind(o)' = Kind(o) /\ Pasted(o)' = Pasted(o)
      BY <3>1 DEF Kind, Pasted
    <3> QED BY <3>1, <3>5, <3>6, <3>7 DEF ConfigureTypes
  <2> QED BY <2>2, <2>3
<1>11. CASE ConfigCloses
  <2>1. \A r \in Op \X Step : configCall'[r] # "asked"
    BY <1>11 DEF ConfigCloses, ConfigInv, ConfigTypes
  <2> QED BY <1>1, <1>11, <2>1 DEF ConfigCloses
<1> QED BY <1>2, <1>3, <1>4, <1>5, <1>6, <1>7, <1>9, <1>10, <1>11 DEF ConfigureNext

-----------------------------------------------------------------------------
(* The page: a step is one of a single part, and leaves the others alone *)

PageInv ==
    /\ ParserTypes
    /\ OutputsInv /\ HistoryInv /\ OutputsBounds
    /\ CommandsInv /\ CommandShapes
    /\ ConfigInv /\ ConfigureTypes
    /\ FormInv /\ FormCounts
    /\ PrefsInv /\ PrefsTypes
    /\ scene \in Scene

LEMMA PageStart == PageInit => PageInv
BY ParserTypesInit, OutputsStart, HistoryStart, OutputsBoundsStart, CommandsStart,
   CommandShapesStart, ConfigStart, ConfigureTypesStart, FormStart, FormCountsStart, PrefsStart,
   PrefsTypesStart DEF PageInit, PageInv

LEMMA PageStep == PageInv /\ [PageNext]_pageVars => PageInv'
<1> SUFFICES ASSUME PageInv, [PageNext]_pageVars PROVE PageInv'
  OBVIOUS
<1>1. /\ ParserNext \/ UNCHANGED parserVars
      /\ OutputsNext \/ UNCHANGED outputsVars
      /\ CommandsNext \/ UNCHANGED commandVars
      /\ ConfigureNext \/ UNCHANGED configureVars
      /\ FormNext \/ UNCHANGED formVars
      /\ PrefsNext \/ UNCHANGED prefsVars
      /\ UNCHANGED scene
  BY DEF PageNext, pageVars
<1>2. ParserTypes'
  BY <1>1, ParserTypesNext, ParserTypesStays DEF PageInv
<1>3. OutputsInv' /\ HistoryInv' /\ OutputsBounds'
  BY <1>1, OutputsStep, HistoryStep, OutputsBoundsStep DEF PageInv
<1>4. CommandsInv' /\ CommandShapes'
  BY <1>1, CommandsStep, CommandShapesStep DEF PageInv
<1>5. ConfigInv' /\ ConfigureTypes'
  BY <1>1, ConfigStep, ConfigureTypesStep DEF PageInv
<1>6. FormInv' /\ FormCounts'
  BY <1>1, FormStep, FormCountsStep DEF PageInv
<1>7. PrefsInv' /\ PrefsTypes'
  BY <1>1, PrefsStep, PrefsTypesStep DEF PageInv
<1> QED BY <1>1, <1>2, <1>3, <1>4, <1>5, <1>6, <1>7 DEF PageInv

LEMMA PageIsKept == Spec => []PageInv
BY PageStart, PageStep, PTL DEF Spec

\* What every part of the page keeps has its type, however many commands, devices and fields
\* there are: the counts of containers, views and errors stay numbers within their bounds and
\* nobody's view shows more of a reply than has come.
THEOREM PageIsTyped == Spec => []PageTypeOK
<1>1. PageInv => PageTypeOK
  <2> SUFFICES ASSUME PageInv PROVE PageTypeOK
    OBVIOUS
  <2>1. ParserTypeOK
    BY ParserTypesTypeOK DEF PageInv
  <2>2. OutputsTypeOK
    BY OutputsTyped DEF PageInv
  <2>3. CommandsTypeOK
    BY CommandsTyped DEF PageInv
  <2>4. ConfigureTypeOK /\ FormTypeOK /\ PrefsTypeOK
    BY ConfigureTyped, FormTyped, PrefsTyped DEF PageInv
  <2> QED BY <2>1, <2>2, <2>3, <2>4 DEF PageTypeOK, PageInv
<1> QED BY <1>1, PageIsKept, PTL

\* The page runs on the preferences that are saved, and each of them is one that a user
\* entered, whichever of the two forms was saved from whichever's values (clira.prefs).
THEOREM PreferencesAreStored == Spec => []PrefsAreStored
<1>1. PageInv => PrefsAreStored
  BY PrefsInvSuffices DEF PageInv
<1> QED BY <1>1, PageIsKept, PTL

\* Whatever was typed and in whatever order choices arrived, a field counts the errors it
\* keeps, is marked exactly when it has some, and has those its value has (yform.js).
THEOREM FieldsTellTheirErrors == Spec => []FieldTellsErrors
<1>1. PageInv => FieldTellsErrors
  BY DEF PageInv, FormInv
<1> QED BY <1>1, PageIsKept, PTL

\* Of the views in a container the one pushed last is visible and no other, whatever icons
\* the user presses while forms come and go (views.js, toggleChildVisibility).
THEOREM TopFormsAreVisible == Spec => []TopFormIsVisible
<1>1. PageInv => TopFormIsVisible
  BY DEF PageInv, OutputsInv
<1> QED BY <1>1, PageIsKept, PTL

\* Recent commands are those of the history, each once, and one that was run again since
\* another comes before it, although the list that is saved keeps every run and clearing the
\* history leaves the list on the screen (controllers.js, MruController).
THEOREM RecentIsRecency == Spec => []MruIsRecency
<1>1. PageInv => MruIsRecency
  BY HistoryInvSuffices DEF PageInv
<1> QED BY <1>1, PageIsKept, PTL

\* Whoever is told that a command succeeded has its whole reply, and so has the view, although
\* pieces after the second were held back while they came (runCommandInternal).
THEOREM SuccessIsWhole == Spec => []TrueIsWhole
<1>1. PageInv => TrueIsWhole
  BY CommandsInvSuffices DEF PageInv
<1> QED BY <1>1, PageIsKept, PTL

\* Whoever runs a command is told once how it ended, by one of three callbacks, with the
\* exceptions the property names; a closed connection forgets only what it never sent or
\* what came after a command whose onclose throws (clira.muxer.js, forceClose).
THEOREM CommandEndsAreHeard == Spec => []EndsAreHeard
<1>1. PageInv => EndsAreHeard
  BY CommandsInvSuffices DEF PageInv
<1> QED BY <1>1, PageIsKept, PTL

\* Whoever is told that configure succeeded has his configuration active, however the load
\* and the commit of it interleave with those of others on the same candidate, unless it was
\* rolled back there or a refusal was cut in two (configure, loadConfig, commitConfig).
THEOREM SuccessIsCommitted == Spec => []TrueIsCommitted
<1>1. PageInv => TrueIsCommitted
  BY ConfigInvSuffices DEF PageInv
<1> QED BY <1>1, PageIsKept, PTL

\* An operation of up to three RPCs tells its caller once, whichever is the last; it stays
\* silent only when the connection ended under it or a partial reply could not be parsed,
\* and only then its pane never has its button back (configuration.js).
THEOREM ConfigurationEndsAreHeard == Spec => []ConfigEndsAreHeard
<1>1. PageInv => ConfigEndsAreHeard
  BY ConfigInvSuffices DEF PageInv
<1> QED BY <1>1, PageIsKept, PTL

=============================================================================
