-------------------------------- MODULE Form --------------------------------
(***************************************************************************)
(* Forms (web/core/views.js: DynFormView, DynTextField, DynAutoComplete,   *)
(* DynButton; clira.js: buildAutoForm, buildForm; on-device.js: buildForm). *)
(*                                                                         *)
(* A field keeps its errors by kind and counts them; the form keeps one    *)
(* count for all fields, of which every view has a copy that Ember brings  *)
(* up to date after the handlers of an event.  The form's Execute button   *)
(* is disabled while the count is positive.                                *)
(***************************************************************************)
EXTENDS Integers, FiniteSets, FiniteSetsExt, Folds, Functions, SequencesExt

CONSTANTS
    Field,       \* fields a form may have
    Described,   \* what the device says of each: a record as FieldSpec
    MaxEvents    \* bound: events after the form is shown

\* What the device tells of a field.  match is that it has a pattern, range that it has a
\* least value or length, data that its choices are asked for with an RPC.
FieldSpec == [mandatory : BOOLEAN, help : BOOLEAN, match : BOOLEAN, range : BOOLEAN,
              numeric : BOOLEAN, data : BOOLEAN]

ASSUME FormAssumption ==
    MaxEvents \in Nat /\ IsFiniteSet(Field) /\ Described \in [Field -> FieldSpec]

\* What a value is to the checks: missing, right, a number or text below the range, text
\* where a number or a match is wanted, a number below the range that does not match
FieldValue == {"none", "right", "short", "wrong", "bad"}

ErrorKind == {"mandatory", "match", "type", "rangeMin"}

VARIABLES
    fields,        \* the fields of the form
    fieldValue,    \* the value of each
    fieldNumeric,  \* it is still to be a number: field.fieldType
    fieldErrors,   \* its errors: field.errors
    fieldCount,    \* field.errorCount
    isError,       \* its box is marked
    errorCount,    \* the form's
    dataRpc,       \* RpcService: the RPC for each field's choices
    formPhase,     \* "none", "shown" or "executed"
    formEvents     \* changes made to it

formVars == <<fields, fieldValue, fieldNumeric, fieldErrors, fieldCount, isError, errorCount,
              dataRpc, formPhase, formEvents>>

DataService == INSTANCE RpcService WITH Rpc <- Field, call <- dataRpc

-----------------------------------------------------------------------------
(* Checking a value *)

\* checkErrors: the errors it looks for in a field, and those it finds.  The length of a
\* text is read as .len, which no string has.
Checked(f) ==
    (IF Described[f].mandatory THEN {"mandatory"} ELSE {})
      \cup (IF Described[f].match THEN {"match"} ELSE {})
      \cup (IF fieldNumeric[f] THEN {"type"} ELSE {})
      \cup (IF Described[f].range THEN {"rangeMin"} ELSE {})

Finds(f, v) ==
    {e \in Checked(f) :
        CASE e = "mandatory" -> v = "none"
          [] e = "match"     -> v \in {"wrong", "bad"}
          [] e = "type"      -> v = "wrong"
          [] e = "rangeMin"  -> v \in {"short", "bad"} /\ fieldNumeric[f]}

\* processError of each: the errors after it.  What it does not look for stays.
ErrorsAfter(f, v) == (fieldErrors[f] \ Checked(f)) \cup Finds(f, v)

\* A mutant of Counted: an error that is found again is counted again
CountedAgain(f, v) == Cardinality(Finds(f, v)) - Cardinality(fieldErrors[f] \ ErrorsAfter(f, v))

\* By how much processError changes the counts
Counted(f, v) == Cardinality(ErrorsAfter(f, v)) - Cardinality(fieldErrors[f])

\* Handlers of one event that start from the same count: the binding passes on the
\* last, or brings each up to date before the next
CountsAfter(value, S) ==
    {errorCount + Counted(f, value[f]) : f \in {g \in S : Counted(g, value[g]) # 0}}
      \cup {errorCount + SumFunction([f \in S |-> Counted(f, value[f])])}

\* checkErrors of the fields of S, in one event
CheckErrors(value, S) ==
    /\ fieldErrors' = [f \in Field |-> IF f \in S THEN ErrorsAfter(f, value[f]) ELSE fieldErrors[f]]
    /\ fieldCount'  = [f \in Field |-> IF f \in S THEN fieldCount[f] + Counted(f, value[f])
                                       ELSE fieldCount[f]]
    /\ isError'     = [f \in Field |-> IF f \in S THEN fieldCount'[f] > 0 ELSE isError[f]]
    /\ errorCount' \in CountsAfter(value, S)

-----------------------------------------------------------------------------
(* The form *)

\* buildAutoForm and buildForm, DynFormView.willInsertElement and didInsertElement of the
\* fields: the errors buildAutoForm gave them are lost in buildForm, the form counts the
\* mandatory fields, and then those with a help text check themselves.
InsertForm(S) ==
    /\ formPhase = "none" /\ S # {}
    /\ formPhase' = "shown" /\ fields' = S
    /\ LET mandatory == Cardinality({f \in S : Described[f].mandatory})
           checks    == {f \in S : Described[f].help}
           found     == [f \in Field |-> IF f \in checks THEN Finds(f, "none") ELSE {}]
           most      == Max({0} \cup {Cardinality(found[f]) : f \in Field})
       IN /\ fieldErrors' = found
          /\ fieldCount'  = [f \in Field |-> Cardinality(found[f])]
          /\ isError'     = [f \in Field |-> found[f] # {}]
          /\ errorCount'  \in {mandatory + most,
                               mandatory + SumFunction([f \in Field |-> Cardinality(found[f])])}
    /\ dataRpc' = [f \in Field |-> IF f \in S /\ Described[f].data THEN "asked" ELSE dataRpc[f]]
    /\ UNCHANGED <<fieldValue, fieldNumeric, formEvents>>

Event == formPhase = "shown" /\ formEvents < MaxEvents /\ formEvents' = formEvents + 1

\* valueChange
ValueChange(f, v) ==
    /\ Event /\ f \in fields /\ v # fieldValue[f]
    /\ fieldValue' = [fieldValue EXCEPT ![f] = v]
    /\ CheckErrors(fieldValue', {f})
    /\ UNCHANGED <<fields, fieldNumeric, dataRpc, formPhase>>

\* The Reset button
Reset ==
    /\ Event
    /\ fieldValue' = [f \in Field |-> "none"]
    /\ CheckErrors(fieldValue', {f \in fields : fieldValue[f] # "none"})
    /\ UNCHANGED <<fields, fieldNumeric, dataRpc, formPhase>>

\* oncomplete of a field's RPC: from now on it is a string
ChoicesArrive(f) ==
    /\ formPhase = "shown" /\ DataService!Ends(f, "complete")
    /\ fieldNumeric' = [fieldNumeric EXCEPT ![f] = FALSE]
    /\ UNCHANGED <<fields, fieldValue, fieldErrors, fieldCount, isError, errorCount, formPhase,
                   formEvents>>

\* The RPC has no onerror and no onclose: the field stays as it is
ChoicesFail(f) ==
    /\ formPhase = "shown" /\ (DataService!Ends(f, "error") \/ DataService!Ends(f, "close"))
    /\ UNCHANGED <<fields, fieldValue, fieldNumeric, fieldErrors, fieldCount, isError,
                   errorCount, formPhase, formEvents>>

\* DynButton, when it appears and whenever the count changes
Enabled == errorCount <= 0

\* The Execute button: the form is destroyed and its command run
Execute ==
    /\ formPhase = "shown" /\ Enabled
    /\ formPhase' = "executed"
    /\ UNCHANGED <<fields, fieldValue, fieldNumeric, fieldErrors, fieldCount, isError,
                   errorCount, dataRpc, formEvents>>

-----------------------------------------------------------------------------
FormInit ==
    /\ fields = {} /\ formPhase = "none" /\ formEvents = 0 /\ errorCount = 0
    /\ fieldValue = [f \in Field |-> "none"]
    /\ fieldNumeric = [f \in Field |-> Described[f].numeric]
    /\ fieldErrors = [f \in Field |-> {}] /\ fieldCount = [f \in Field |-> 0]
    /\ isError = [f \in Field |-> FALSE] /\ dataRpc = [f \in Field |-> "idle"]

FormNext ==
    \/ \E S \in SUBSET Field : InsertForm(S)
    \/ \E f \in Field : \/ \E v \in FieldValue : ValueChange(f, v)
                       \/ ChoicesArrive(f) \/ ChoicesFail(f)
    \/ Reset
    \/ Execute

-----------------------------------------------------------------------------
(* What a form shows *)

FormTypeOK ==
    /\ fields \subseteq Field /\ formPhase \in {"none", "shown", "executed"}
    /\ fieldValue \in [Field -> FieldValue] /\ fieldNumeric \in [Field -> BOOLEAN]
    /\ fieldErrors \in [Field -> SUBSET ErrorKind] /\ isError \in [Field -> BOOLEAN]
    /\ fieldCount \in [Field -> Int] /\ errorCount \in Int
    /\ DataService!RpcTypeOK /\ formEvents \in 0..MaxEvents

\* What a field shows is true of the value it has, whatever was typed before: it keeps each
\* error once and counts what it keeps, and has the errors its value has.  Only when its
\* choices arrive may an error stay that nothing looks for any more.
FieldTellsErrors ==
    \A f \in fields :
        /\ fieldCount[f] = Cardinality(fieldErrors[f])
        /\ Described[f].help => (isError[f] <=> fieldErrors[f] # {})
        /\ Described[f].help /\ dataRpc[f] # "complete" =>
              fieldErrors[f] = Finds(f, fieldValue[f])

=============================================================================
