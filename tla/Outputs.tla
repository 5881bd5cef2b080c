------------------------------ MODULE Outputs ------------------------------
(***************************************************************************)
(* The page: the command input, the containers of outputs and the list of  *)
(* recent commands (web/core/controllers.js, views.js, app.js;             *)
(* clira.js: executeCommand; the app of the command history, history.js).  *)
(*                                                                         *)
(* Every command gets a number and a container.  The views of a container  *)
(* are stacked: the output first, forms and prompts above it.  A click on  *)
(* one of its icons starts an animation, whose end does the work.          *)
(***************************************************************************)
EXTENDS Naturals, Sequences, FiniteSets, FiniteSetsExt, SequencesExt, Functions

CONSTANTS
    Input,      \* what the user may enter
    SavedAs,    \* the text each is saved as once the command files are loaded: the command's
                \* own if that is longer; inputs outside its domain are unknown
    Clear,      \* the text of the command that clears the history
    MaxOutput,  \* bound: containers
    MaxForm,    \* bound: forms stacked in one container
    MaxTouch    \* bound: clicks on icons and changes to stacks

ASSUME OutputsAssumption ==
    /\ {MaxOutput, MaxForm, MaxTouch} \subseteq Nat
    /\ DOMAIN SavedAs \subseteq Input /\ "" \notin Input

VARIABLES
    loaded,        \* the command files are loaded: Loader's first load is done
    commandCount,  \* $.clira.commandCount
    outputs,       \* the content of OutputsController, latest first
    closed,        \* numbers of the containers whose view is destroyed
    toggled,       \* numbers of containers closed without a view, each with the number of
                   \* the one whose element was toggled
    history,       \* CommandHistory, in localStorage
    mruContent,    \* what MruPulldownController has read of it
    pulldown,      \* the list is visible
    commandInput,  \* the text in the input field, "" if none
    touches        \* clicks on icons and changes to stacks

outputsVars == <<loaded, commandCount, outputs, closed, toggled, history, mruContent, pulldown,
                 commandInput, touches>>

\* A container: its number, the id of its element, its command (for what did not parse, the
\* input), the number of views in its stack, which of them are visible, and the animations
\* that are queued.  What did not parse has no output view.
Container(number, element, text, views) ==
    [number |-> number, element |-> element, text |-> text, views |-> views,
     isVisible |-> {views} \ {0}, sticky |-> FALSE, slides |-> <<>>]

Output(i) == outputs[i]
IsOpen(i) == Output(i).number \notin closed

-----------------------------------------------------------------------------
(* Running commands *)

\* mru: every command once, the last that was run first
Mru(content) ==
    FoldLeft(LAMBDA ru, c : <<c>> \o RemoveFirst(ru, c), <<>>, content)

\* OutputContainerView's init takes the id from the count, not from the controller
ElementId == commandCount'

Known == loaded /\ commandInput \in DOMAIN SavedAs

Saved == IF Known THEN Append(history, SavedAs[commandInput]) ELSE history

\* A mutant of ReadsHistory: the number changes before the command is saved
ReadsHistoryBefore == history

\* updateMru, an observer of commandNumber
ReadsHistory == Saved

\* CommandInputController.executeCommand: the command is saved, the number set, a container
\* inserted; then the execute function of "clear command history" empties the history
ExecuteInput ==
    /\ commandInput # "" /\ Len(outputs) < MaxOutput
    /\ commandCount' = commandCount + 1
    /\ outputs' = IF Known
                  THEN <<Container(commandCount', ElementId, SavedAs[commandInput], 1)>> \o outputs
                  ELSE <<Container(commandCount', ElementId, commandInput, 0)>> \o outputs
    /\ history' = IF Known /\ SavedAs[commandInput] = Clear THEN <<>> ELSE Saved
    /\ mruContent' = ReadsHistory
    /\ commandInput' = ""
    /\ UNCHANGED <<loaded, closed, toggled, pulldown, touches>>

\* The done() callback of app.js, by executeCommand of clira.js.  The welcome screen
\* brings its number with it, 0, and leaves the count alone.
ShowWelcome(hideWelcome) ==
    /\ ~ loaded /\ Len(outputs) < MaxOutput
    /\ loaded' = TRUE
    /\ UNCHANGED commandCount
    /\ outputs' = IF hideWelcome THEN outputs
                  ELSE <<Container(0, ElementId, "welcome", 1)>> \o outputs
    /\ UNCHANGED <<closed, toggled, history, mruContent, pulldown, commandInput,
                   touches>>

\* PrefsButtonView.click: a command that is not the user's
EditPreferences ==
    /\ loaded /\ Len(outputs) < MaxOutput
    /\ commandCount' = commandCount + 1
    /\ outputs' = <<Container(commandCount', ElementId, "preferences", 1)>> \o outputs
    /\ UNCHANGED <<loaded, closed, toggled, history, mruContent, pulldown, commandInput,
                   touches>>

-----------------------------------------------------------------------------
(* The input field and the list of recent commands *)

Fills(text) ==
    /\ commandInput' = text
    /\ UNCHANGED <<loaded, commandCount, outputs, closed, toggled, history, mruContent,
                   touches>>

UserTypes(text) == Fills(text) /\ UNCHANGED pulldown

\* commandClick: the header of an output
HeaderClick(i) ==
    Output(i).text \in Input /\ IsOpen(i) /\ Fills(Output(i).text) /\ UNCHANGED pulldown

\* MruItemView.click
MruClick(text) ==
    pulldown /\ text \in Range(Mru(mruContent)) /\ Fills(text) /\ pulldown' = FALSE

\* The icon, or the mouse leaves the list
TogglePulldown ==
    /\ pulldown' = ~ pulldown
    /\ UNCHANGED <<loaded, commandCount, outputs, closed, toggled, history, mruContent,
                   commandInput, touches>>

-----------------------------------------------------------------------------
(* The stack of views of a container *)

\* A mutant of TopOf: the view below
TopOfBelow(views) == {views - 1} \ {0}

TopOf(views) == {views} \ {0}

Touches == touches < MaxTouch /\ touches' = touches + 1

\* pushObject, or destroy() of the view on top; toggleChildVisibility
Restack(i, views) ==
    /\ IsOpen(i) /\ Output(i).views > 0 /\ Touches
    /\ outputs' = [outputs EXCEPT ![i].views = views,
                                  ![i].isVisible = TopOf(views)]
    /\ UNCHANGED <<loaded, commandCount, closed, toggled, history, mruContent, pulldown,
                   commandInput>>

PushView(i)   == Output(i).views <= MaxForm /\ Restack(i, Output(i).views + 1)
DestroyTop(i) == Output(i).views > 1 /\ Restack(i, Output(i).views - 1)

-----------------------------------------------------------------------------
(* The icons of a container *)

\* close of what has no view: the element with that id is toggled, the first there is
CloseFailed(i) ==
    /\ Output(i).views = 0 /\ IsOpen(i) /\ Touches
    /\ LET found == {j \in DOMAIN outputs : IsOpen(j) /\ Output(j).element = Output(i).number}
           first == CHOOSE j \in found : \A k \in found : j <= k
       IN toggled' = toggled \cup (IF found = {} THEN {}
                                   ELSE {<<Output(i).number, Output(first).number>>})
    /\ UNCHANGED <<loaded, commandCount, outputs, closed, history, mruContent, pulldown,
                   commandInput>>

\* close, collapse and stick of the others; without a view the last two throw
IconClick(i, what) ==
    /\ Output(i).views > 0 /\ IsOpen(i) /\ Touches
    /\ outputs' = [outputs EXCEPT ![i].slides = Append(@, what)]
    /\ UNCHANGED <<loaded, commandCount, closed, toggled, history, mruContent, pulldown,
                   commandInput>>

\* An animation has ended: the output is hidden or shown, is sticky or not, or the whole
\* container is destroyed
SlideEnds(i) ==
    /\ IsOpen(i) /\ Output(i).slides # <<>>
    /\ LET what == Head(Output(i).slides)
           o    == [Output(i) EXCEPT !.slides = Tail(@)]
       IN /\ closed' = IF what = "close" THEN closed \cup {o.number} ELSE closed
          /\ outputs' = [outputs EXCEPT ![i] =
                CASE what = "close"    -> o
                  [] what = "collapse" -> [o EXCEPT !.isVisible = SymDiff(@, {1})]
                  [] what = "stick"    -> [o EXCEPT !.sticky = ~ @]]
    /\ UNCHANGED <<loaded, commandCount, toggled, history, mruContent, pulldown, commandInput,
                   touches>>

-----------------------------------------------------------------------------
OutputsInit ==
    /\ loaded = FALSE /\ commandCount = 0 /\ outputs = <<>> /\ closed = {} /\ toggled = {}
    /\ history \in {<<>>} \cup {<<c>> : c \in Range(SavedAs)}
    /\ mruContent = history /\ pulldown = FALSE /\ commandInput = "" /\ touches = 0

OutputsNext ==
    \/ ExecuteInput \/ EditPreferences \/ TogglePulldown
    \/ \E hideWelcome \in BOOLEAN : ShowWelcome(hideWelcome)
    \/ \E text \in Input : UserTypes(text) \/ MruClick(text)
    \/ \E i \in DOMAIN outputs :
          \/ HeaderClick(i) \/ PushView(i) \/ DestroyTop(i) \/ CloseFailed(i) \/ SlideEnds(i)
          \/ \E what \in {"close", "collapse", "stick"} : IconClick(i, what)

-----------------------------------------------------------------------------
(* What the page shows *)

OutputsTypeOK ==
    /\ loaded \in BOOLEAN /\ pulldown \in BOOLEAN /\ commandCount \in 0..MaxOutput
    /\ commandInput \in Input \cup Range(SavedAs) \cup {""}
    /\ {history, mruContent} \subseteq Seq(Range(SavedAs))
    /\ \A i \in DOMAIN outputs :
          /\ Output(i).number \in 0..commandCount /\ Output(i).element \in 0..commandCount
          /\ Output(i).views \in 0..(MaxForm + 1)
          /\ Output(i).isVisible \subseteq 1..(MaxForm + 1) /\ Output(i).sticky \in BOOLEAN
          /\ Output(i).slides \in Seq({"close", "collapse", "stick"})
    /\ closed \subseteq 0..commandCount /\ toggled \subseteq (0..commandCount) \X (0..commandCount)

\* The list offers every command of the history once, the latest first, although it is a
\* copy read when the number of the last command changed; it lags behind only while the
\* history is empty because it has been cleared.
MruIsRecency ==
    history # <<>> =>
        /\ IsInjective(Mru(mruContent)) /\ Range(Mru(mruContent)) = Range(history)
        /\ \A j, k \in DOMAIN Mru(mruContent) : j < k =>
              \E n \in DOMAIN history : /\ history[n] = Mru(mruContent)[j]
                                        /\ \A m \in n..Len(history) : history[m] # Mru(mruContent)[k]

\* Of the forms in a container the one on top is visible and no other, so whoever is asked
\* sees the question last asked; collapsing the output in the meantime changes nothing.
TopFormIsVisible ==
    \A i \in DOMAIN outputs : Output(i).isVisible \ {1} = TopOf(Output(i).views) \ {1}

=============================================================================
