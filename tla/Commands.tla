------------------------------ MODULE Commands ------------------------------
(***************************************************************************)
(* Running commands on devices (web/core/clira.js: openMuxer,              *)
(* runCommandInternal, the prompts; controllers.js:                        *)
(* RecentDevicesController).                                               *)
(*                                                                         *)
(* A command is an RPC whose callbacks close over the view it shows its    *)
(* output in.  The page has one muxer at a time, the module variable that  *)
(* the prompts answer through; the views keep the one they were given.     *)
(* A reply is pieces 1, 2, ...; what a view shows is an interval of them.  *)
(***************************************************************************)
EXTENDS Naturals, Sequences, FiniteSets, SequencesExt, Functions

CONSTANTS
    Target,       \* devices
    CommandKind,  \* of "view" (runCommand), "stream", "silent" (without a view)
    MaxCommand,   \* bound: commands
    MaxMuxer,     \* bound: muxers ever opened
    MaxPieces     \* bound: pieces of a reply

ASSUME CommandsAssumption ==
    /\ {MaxCommand, MaxMuxer, MaxPieces} \subseteq Nat
    /\ CommandKind \subseteq {"view", "stream", "silent"}

Cmd     == 1..MaxCommand
NoMuxer == 0

VARIABLES
    muxer,       \* the page's muxer, by its number
    lastMuxer,   \* muxers opened
    link,        \* websocket of each muxer: "none", "opening" until the mixer has answered
                 \* its authinit, "ready", "refused" if it ended before that, "closed"
    cmdCall,     \* RpcService: the RPC of each command
    command,     \* kind, target and muxer of each command
    full,        \* pieces of reply it has had
    shown,       \* what its view shows
    heard,       \* the statuses its onComplete was called with
    cmdPrompt,   \* "none", or the question its user sees
    waits,       \* the mixer waits for an answer to go on with it
    recent       \* recently used devices, latest first

commandVars == <<muxer, lastMuxer, link, cmdCall, command, full, shown, heard, cmdPrompt,
                 waits, recent>>

Service == INSTANCE RpcService WITH Rpc <- Cmd, call <- cmdCall

Shows(what, from, to) == [what |-> what, from |-> from, to |-> to]
Nothing == Shows("nothing", 1, 0)
Loading == Shows("loading", 1, 0)
Alert   == Shows("alert", 1, 0)

HasView(c) == command[c].kind # "silent"
Stream(c)  == command[c].kind = "stream"

-----------------------------------------------------------------------------
(* Asking *)

\* runCommandInternal, and openMuxer if the page has none
RunCommand(c, kind, target) ==
    /\ Service!Ask(c)
    /\ c > 1 => cmdCall[c - 1] # "idle"
    /\ IF muxer = NoMuxer
       THEN /\ lastMuxer < MaxMuxer
            /\ lastMuxer' = lastMuxer + 1 /\ muxer' = lastMuxer'
            /\ link' = [link EXCEPT ![lastMuxer'] = "opening"]
       ELSE UNCHANGED <<muxer, lastMuxer, link>>
    /\ command' = [command EXCEPT ![c] = [kind |-> kind, target |-> target, via |-> muxer']]
    /\ shown' = [shown EXCEPT ![c] = IF kind = "silent" THEN Nothing ELSE Loading]
    /\ UNCHANGED <<full, heard, cmdPrompt, waits, recent>>

\* The mixer answers authinit: the commands in the queue are sent
MuxerReady(m) ==
    /\ link[m] = "opening"
    /\ link' = [link EXCEPT ![m] = "ready"]
    /\ UNCHANGED <<muxer, lastMuxer, cmdCall, command, full, shown, heard, cmdPrompt, waits,
                   recent>>

\* The command's RPC is with the mixer, which can tell the page about it
Sent(c) == cmdCall[c] = "asked" /\ link[command[c].via] = "ready"

\* onreply: the first two pieces are shown, or the last five of a stream
Replied(c) ==
    /\ Service!Replies(c) /\ Sent(c)
    /\ ~ waits[c] /\ full[c] < MaxPieces
    /\ full' = [full EXCEPT ![c] = @ + 1]
    /\ shown' = IF ~ HasView(c) THEN shown
                ELSE IF Stream(c)
                THEN [shown EXCEPT ![c] = Shows("output", IF full'[c] > 5 THEN full'[c] - 4 ELSE 1,
                                                full'[c])]
                ELSE IF full'[c] <= 2 THEN [shown EXCEPT ![c] = Shows("output", 1, full'[c])]
                ELSE shown
    /\ UNCHANGED <<muxer, lastMuxer, link, command, heard, cmdPrompt, waits, recent>>

\* addDevice: to the front, from where it was
AddDevice(devices, target) == <<target>> \o RemoveFirst(devices, target)

\* A mutant of WhatComplete: what was shown last stays
WhatCompleteAsIs(c) == shown[c]

\* oncomplete: everything is shown
WhatComplete(c) == IF HasView(c) THEN Shows("output", 1, full[c]) ELSE shown[c]

Completed(c) ==
    /\ Service!Ends(c, "complete") /\ Sent(c)
    /\ ~ waits[c]
    /\ shown'  = [shown EXCEPT ![c] = WhatComplete(c)]
    /\ recent' = IF HasView(c) THEN AddDevice(recent, command[c].target) ELSE recent
    /\ heard'  = [heard EXCEPT ![c] = Append(@, TRUE)]
    /\ UNCHANGED <<muxer, lastMuxer, link, command, full, cmdPrompt, waits>>

\* A mutant of HearsFailure: the caller is told in any case
HearsFailureAlways(c) == TRUE

\* Whether onerror and onclose tell anybody
HearsFailure(c) == full[c] = 0

\* onerror, also of a command whose user is being asked
Failed(c) ==
    /\ Service!Ends(c, "error") /\ Sent(c)
    /\ waits' = [waits EXCEPT ![c] = FALSE]
    /\ IF HearsFailure(c)
       THEN /\ heard' = [heard EXCEPT ![c] = Append(@, FALSE)]
            /\ shown' = IF HasView(c) THEN [shown EXCEPT ![c] = Alert] ELSE shown
       ELSE UNCHANGED <<heard, shown>>
    /\ UNCHANGED <<muxer, lastMuxer, link, command, full, cmdPrompt, recent>>

-----------------------------------------------------------------------------
(* The end of a connection *)

\* onclose of a command without a view has no view to put its alert in, and throws
Throws(c) == HearsFailure(c) /\ ~ HasView(c)

\* What onComplete hears of the end of a connection
HearsClose(c) == (IF Stream(c) THEN <<TRUE>> ELSE <<>>)
                    \o (IF HearsFailure(c) /\ ~ Throws(c) THEN <<FALSE>> ELSE <<>>)

\* The devices after the streams of S are treated as complete
AddStreams(S, devices) ==
    FoldLeft(LAMBDA all, c : IF c \in S /\ Stream(c) THEN AddDevice(all, command[c].target) ELSE all,
             devices, [c \in Cmd |-> c])

\* forceClose: the page forgets its muxer, whichever that is by now; then the commands
\* in the muxMap are told in turn, up to the first that throws.  A stream is first
\* treated as complete.  Commands that are still queued are not in the muxMap.
ConnectionEnds(m) ==
    /\ link[m] \in {"opening", "ready"}
    /\ link'  = [link EXCEPT ![m] = IF @ = "ready" THEN "closed" ELSE "refused"]
    /\ muxer' = NoMuxer
    /\ LET mine    == {c \in Cmd : Sent(c) /\ command[c].via = m}
           reached == {c \in mine : \A d \in mine : d < c => ~ Throws(d)}
       IN /\ cmdCall' = [c \in Cmd |-> IF c \in reached THEN "close" ELSE cmdCall[c]]
          /\ heard'   = [c \in Cmd |-> heard[c] \o IF c \in reached THEN HearsClose(c) ELSE <<>>]
          /\ shown'   = [c \in Cmd |-> IF c \notin reached \/ ~ HasView(c) THEN shown[c]
                                      ELSE IF HearsFailure(c) THEN Alert
                                      ELSE IF Stream(c) THEN WhatComplete(c) ELSE shown[c]]
          /\ recent'  = AddStreams(reached, recent)
    /\ UNCHANGED <<lastMuxer, command, full, cmdPrompt, waits>>

-----------------------------------------------------------------------------
(* Prompts *)

\* onhostkey, onpsphrase, onpsword: only a command with a view can show the question
PromptFor(c, what) ==
    /\ Sent(c) /\ full[c] = 0 /\ ~ waits[c] /\ HasView(c)
    /\ cmdPrompt[c] = "none"
    /\ waits'     = [waits EXCEPT ![c] = TRUE]
    /\ cmdPrompt' = [cmdPrompt EXCEPT ![c] = what]
    /\ UNCHANGED <<muxer, lastMuxer, link, cmdCall, command, full, shown, heard, recent>>

\* The muxer that takes an answer: the one the page has at that time
AnswersThrough(c) == muxer

\* Accept, Decline and Enter.  Without a muxer the handler throws and the form stays.
UserAnswers(c) ==
    /\ cmdPrompt[c] # "none" /\ AnswersThrough(c) # NoMuxer
    /\ cmdPrompt' = [cmdPrompt EXCEPT ![c] = "none"]
    /\ waits'     = [waits EXCEPT ![c] = @ /\ AnswersThrough(c) # command[c].via]
    /\ UNCHANGED <<muxer, lastMuxer, link, cmdCall, command, full, shown, heard, recent>>

\* Cancel: an alert, and no word to the mixer
UserCancels(c) ==
    /\ cmdPrompt[c] = "secret"
    /\ cmdPrompt' = [cmdPrompt EXCEPT ![c] = "none"]
    /\ shown'     = [shown EXCEPT ![c] = Alert]
    /\ UNCHANGED <<muxer, lastMuxer, link, cmdCall, command, full, heard, waits, recent>>

-----------------------------------------------------------------------------
CommandsInit ==
    /\ muxer = NoMuxer /\ lastMuxer = 0 /\ link = [m \in 1..MaxMuxer |-> "none"]
    /\ cmdCall = [c \in Cmd |-> "idle"]
    /\ command = [c \in Cmd |-> [kind |-> "none", target |-> "none", via |-> NoMuxer]]
    /\ full = [c \in Cmd |-> 0] /\ shown = [c \in Cmd |-> Nothing]
    /\ heard = [c \in Cmd |-> <<>>]
    /\ cmdPrompt = [c \in Cmd |-> "none"] /\ waits = [c \in Cmd |-> FALSE]
    /\ recent = <<>>

CommandsNext ==
    \/ \E m \in 1..MaxMuxer : MuxerReady(m) \/ ConnectionEnds(m)
    \/ \E c \in Cmd :
          \/ \E kind \in CommandKind, target \in Target : RunCommand(c, kind, target)
          \/ Replied(c) \/ Completed(c) \/ Failed(c)
          \/ \E what \in {"hostkey", "secret"} : PromptFor(c, what)
          \/ UserAnswers(c) \/ UserCancels(c)

-----------------------------------------------------------------------------
(* What a command promises *)

CommandsTypeOK ==
    /\ muxer \in 0..lastMuxer /\ lastMuxer \in 0..MaxMuxer
    /\ link \in [1..MaxMuxer -> {"none", "opening", "ready", "refused", "closed"}]
    /\ Service!RpcTypeOK
    /\ full \in [Cmd -> 0..MaxPieces] /\ heard \in [Cmd -> Seq(BOOLEAN)]
    /\ \A c \in Cmd : /\ shown[c].what \in {"nothing", "loading", "alert", "output"}
                      /\ shown[c].to <= full[c]
                      /\ cmdPrompt[c] \in {"none", "hostkey", "secret"}
    /\ waits \in [Cmd -> BOOLEAN] /\ recent \in Seq(Target)

\* A caller that is told of success has the whole reply, and so has the view, although
\* pieces from the third on were held back while they came (runCommandInternal).
TrueIsWhole ==
    \A c \in Cmd : ~ Stream(c) /\ Contains(heard[c], TRUE) =>
        cmdCall[c] = "complete" /\ (HasView(c) => shown[c] = Shows("output", 1, full[c]))

\* Whoever runs a command, not a stream, is told once how it ended, by whichever of
\* three callbacks, and is left without a word only if part of the reply is there or
\* there is no view for an alert.  A command is forgotten by a connection that ends only
\* if it was never sent, or if an earlier one without a view made forceClose throw.
EndsAreHeard ==
    \A c \in Cmd : ~ Stream(c) =>
        /\ Len(heard[c]) = IF /\ cmdCall[c] \in Service!Endings
                              /\ \/ cmdCall[c] = "complete"
                                 \/ full[c] = 0 /\ (HasView(c) \/ cmdCall[c] = "error")
                           THEN 1 ELSE 0
        /\ cmdCall[c] = "asked" /\ link[command[c].via] = "closed" =>
              \E d \in 1..(c - 1) : /\ command[d].kind = "silent" /\ cmdCall[d] = "close"
                                    /\ command[d].via = command[c].via /\ full[d] = 0

=============================================================================
