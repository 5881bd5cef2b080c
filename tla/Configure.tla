------------------------------ MODULE Configure ------------------------------
(***************************************************************************)
(* Changing the configuration of devices (web/core/clira.js: configure,    *)
(* loadConfig, commitConfig, rollbackConfig; the app of "load              *)
(* configuration", configuration.js).                                      *)
(*                                                                         *)
(* An operation is up to three RPCs, each begun by the callback of the one *)
(* before.  Every device has one candidate configuration that all share; a *)
(* commit activates what is in it.  Whether a device refused is read off   *)
(* the pieces of its reply: one of them must hold the whole <rpc-error>.   *)
(* The app keeps the device of the pane opened last in a global.           *)
(***************************************************************************)
EXTENDS Naturals, Sequences, FiniteSets, SequencesExt

CONSTANTS
    Device,
    ConfigKind,  \* what operations may be: some of Kinds
    MaxOp,       \* bound: operations
    NoDevice

\* "configure" is a load and a commit, "paste" and "pastecheck" are what the Commit button
\* of a pane does, the others are one RPC
Kinds == {"configure", "load", "commit", "check", "rollback", "paste", "pastecheck"}

ASSUME ConfigureAssumption ==
    MaxOp \in Nat /\ ConfigKind \subseteq Kinds /\ NoDevice \notin Device

Op   == 1..MaxOp
Step == {"load", "commit", "rollback"}

VARIABLES
    configCall,   \* RpcService: the RPCs of each operation
    operation,    \* kind and device of each operation; a pane has the device it was opened for
    rpcTarget,    \* the device of each RPC
    verdict,      \* what that did with it: "none", "taken", "refused"
    success,      \* the variable of each RPC's closure
    configFull,   \* pieces of each RPC's reply have come
    candidate,    \* by device, the operations whose configuration is in its candidate
    active,       \* and those whose configuration it has committed
    undone,       \* operations whose configuration another one has rolled back
    configHeard,  \* the statuses each operation's caller, or user, was told
    confTarget,   \* Configuration.Target
    buttons       \* panes, by their device, whose Commit button is enabled

configureVars == <<configCall, operation, rpcTarget, verdict, success, configFull, candidate,
                   active, undone, configHeard, confTarget, buttons>>

ConfigService == INSTANCE RpcService WITH Rpc <- Op \X Step, call <- configCall

Kind(o)   == operation[o].kind
Pasted(o) == Kind(o) \in {"paste", "pastecheck"}

-----------------------------------------------------------------------------
(* The page asks *)

FirstStep(kind) == CASE kind \in {"commit", "check"} -> "commit"
                     [] kind = "rollback"            -> "rollback"
                     [] OTHER                        -> "load"

Begins(o, kind, own, target) ==
    /\ Kind(o) = "none" /\ (o > 1 => Kind(o - 1) # "none")
    /\ operation' = [operation EXCEPT ![o] = [kind |-> kind, device |-> own]]
    /\ rpcTarget' = [rpcTarget EXCEPT ![<<o, FirstStep(kind)>>] = target]
    /\ ConfigService!Ask(<<o, FirstStep(kind)>>)
    /\ UNCHANGED <<verdict, success, configFull, candidate, active, undone, configHeard,
                   confTarget>>

\* loadConfig, by itself or as the first half of configure
LoadConfig(o, kind, d) ==
    kind \in {"configure", "load"} /\ Begins(o, kind, d, d) /\ UNCHANGED buttons

CommitConfig(o, kind, d) ==
    kind \in {"commit", "check"} /\ Begins(o, kind, d, d) /\ UNCHANGED buttons

RollbackConfig(o, kind, d) ==
    kind = "rollback" /\ Begins(o, kind, d, d) /\ UNCHANGED buttons

\* loadConfiguration: the command "load configuration" opens a pane for a device
OpenPane(d) ==
    /\ ConfigKind \cap {"paste", "pastecheck"} # {} /\ confTarget # d
    /\ confTarget' = d
    /\ buttons' = IF \E o \in Op : Pasted(o) /\ operation[o].device = d
                  THEN buttons ELSE buttons \cup {d}
    /\ UNCHANGED <<configCall, operation, rpcTarget, verdict, success, configFull, candidate,
                   active, undone, configHeard>>

\* The Commit button of the pane of d
ClickCommit(o, kind, d) ==
    /\ kind \in {"paste", "pastecheck"} /\ d \in buttons
    /\ buttons' = buttons \ {d}
    /\ Begins(o, kind, d, confTarget)

-----------------------------------------------------------------------------
(* The device *)

\* A rollback replaces the candidate; a commit activates all of it, a check nothing
DeviceTakes(r) ==
    LET o == r[1]
        d == rpcTarget[r]
    IN  /\ configCall[r] = "asked" /\ verdict[r] = "none"
        /\ verdict' = [verdict EXCEPT ![r] = "taken"]
        /\ candidate' = [candidate EXCEPT ![d] =
                            CASE r[2] = "load"     -> @ \cup {o}
                              [] r[2] = "rollback" -> {}
                              [] r[2] = "commit"   -> IF Kind(o) \in {"check", "pastecheck"}
                                                      THEN @ ELSE {}]
        /\ active' = IF r[2] = "commit" /\ Kind(o) \notin {"check", "pastecheck"}
                     THEN [active EXCEPT ![d] = @ \cup candidate[d]] ELSE active
        /\ undone' = IF r[2] = "rollback" THEN undone \cup (candidate[d] \ {o}) ELSE undone
        /\ UNCHANGED <<configCall, operation, rpcTarget, success, configFull, configHeard,
                       confTarget, buttons>>

DeviceRefuses(r) ==
    /\ configCall[r] = "asked" /\ verdict[r] = "none"
    /\ verdict' = [verdict EXCEPT ![r] = "refused"]
    /\ UNCHANGED <<configCall, operation, rpcTarget, success, configFull, candidate, active,
                   undone, configHeard, confTarget, buttons>>

-----------------------------------------------------------------------------
(* The callbacks *)

\* onreply of a piece that holds an <rpc-error>, or does not
ConfigReplied(r, marked) ==
    /\ ConfigService!Replies(r)
    /\ verdict[r] # "none"
    /\ marked => verdict[r] = "refused"
    /\ configFull' = [configFull EXCEPT ![r] = TRUE]
    /\ success'    = [success EXCEPT ![r] = @ /\ ~ marked]
    /\ UNCHANGED <<operation, rpcTarget, verdict, candidate, active, undone, configHeard,
                   confTarget, buttons>>

\* A refusal that no piece holds as a whole: it is cut in two
Cut(r) == verdict[r] = "refused" /\ success[r]

\* A mutant of Status: the reply is not looked at
StatusOfCall(r) == TRUE

\* The first argument of onComplete
Status(r) == success[r]

\* A mutant of Hears: nobody is told of a failure
HearsSuccess(o, status) ==
    configHeard' = IF status THEN [configHeard EXCEPT ![o] = Append(@, TRUE)] ELSE configHeard

Hears(o, status) == configHeard' = [configHeard EXCEPT ![o] = Append(@, status)]

\* The caller is told; if that is a pane, its button is enabled again
EndsOperation(o, status) ==
    /\ Hears(o, status)
    /\ buttons' = IF Pasted(o) THEN buttons \cup {operation[o].device} ELSE buttons

\* What the callback of an RPC that succeeded does next: configure has its device in a
\* closure, the app has it in the global
NextStep(r) ==
    CASE Kind(r[1]) \in {"configure", "paste", "pastecheck"} /\ r[2] = "load" -> "commit"
      [] Kind(r[1]) = "pastecheck" /\ r[2] = "commit"                         -> "rollback"
      [] OTHER                                                                -> "none"

\* oncomplete
ConfigCompleted(r) ==
    /\ configCall[r] = "asked" /\ verdict[r] # "none"
    /\ Cut(r) => configFull[r]
    /\ IF Status(r) /\ NextStep(r) # "none"
       THEN LET next == <<r[1], NextStep(r)>>
            IN  /\ configCall' = [configCall EXCEPT ![r] = "complete", ![next] = "asked"]
                /\ rpcTarget'  = [rpcTarget EXCEPT ![next] = IF Pasted(r[1]) THEN confTarget
                                                             ELSE operation[r[1]].device]
                /\ UNCHANGED <<configHeard, buttons>>
       ELSE /\ ConfigService!Ends(r, "complete")
            /\ EndsOperation(r[1], Status(r))
            /\ UNCHANGED rpcTarget
    /\ UNCHANGED <<operation, verdict, success, configFull, candidate, active, undone,
                   confTarget>>

\* The app parses what a load has answered, as XML; part of a reply is none, and throws
Unparsable(r) == Pasted(r[1]) /\ r[2] = "load" /\ configFull[r]

\* onerror: whatever the device did is a failure
ConfigFailed(r) ==
    /\ ConfigService!Ends(r, "error")
    /\ IF Unparsable(r) THEN UNCHANGED <<configHeard, buttons>> ELSE EndsOperation(r[1], FALSE)
    /\ UNCHANGED <<operation, rpcTarget, verdict, success, configFull, candidate, active,
                   undone, confTarget>>

\* The connection ends.  onclose calls nobody: after a first piece it need not, before it
\* reads a variable that is not declared and throws.  (After one that throws the others
\* are not called at all, which is the same to their callers.)
ConfigCloses ==
    /\ \E r \in DOMAIN configCall : configCall[r] = "asked"
    /\ configCall' = [r \in DOMAIN configCall |->
                         IF configCall[r] = "asked" THEN "close" ELSE configCall[r]]
    /\ UNCHANGED <<operation, rpcTarget, verdict, success, configFull, candidate, active,
                   undone, configHeard, confTarget, buttons>>

-----------------------------------------------------------------------------
ConfigureInit ==
    /\ configCall = [r \in Op \X Step |-> "idle"]
    /\ operation = [o \in Op |-> [kind |-> "none", device |-> NoDevice]]
    /\ rpcTarget = [r \in Op \X Step |-> NoDevice]
    /\ verdict = [r \in Op \X Step |-> "none"]
    /\ success = [r \in Op \X Step |-> TRUE]
    /\ configFull = [r \in Op \X Step |-> FALSE]
    /\ candidate = [d \in Device |-> {}] /\ active = [d \in Device |-> {}] /\ undone = {}
    /\ configHeard = [o \in Op |-> <<>>]
    /\ confTarget = NoDevice /\ buttons = {}

ConfigureNext ==
    \/ \E o \in Op, kind \in ConfigKind, d \in Device :
          \/ LoadConfig(o, kind, d) \/ RollbackConfig(o, kind, d) \/ CommitConfig(o, kind, d)
          \/ ClickCommit(o, kind, d)
    \/ \E d \in Device : OpenPane(d)
    \/ \E r \in Op \X Step :
          \/ DeviceTakes(r) \/ DeviceRefuses(r)
          \/ \E marked \in BOOLEAN : ConfigReplied(r, marked)
          \/ ConfigCompleted(r) \/ ConfigFailed(r)
    \/ ConfigCloses

-----------------------------------------------------------------------------
(* What callers and users are told *)

ConfigureTypeOK ==
    /\ ConfigService!RpcTypeOK
    /\ operation \in [Op -> [kind : ConfigKind \cup {"none"}, device : Device \cup {NoDevice}]]
    /\ rpcTarget \in [Op \X Step -> Device \cup {NoDevice}]
    /\ verdict \in [Op \X Step -> {"none", "taken", "refused"}]
    /\ {success, configFull} \subseteq [Op \X Step -> BOOLEAN]
    /\ {candidate, active} \subseteq [Device -> SUBSET Op] /\ undone \subseteq Op
    /\ configHeard \in [Op -> Seq(BOOLEAN)]
    /\ confTarget \in Device \cup {NoDevice} /\ buttons \subseteq Device

\* Whoever is told that configure succeeded has his configuration active on his device:
\* committed by this operation or by another one that came between its two steps, unless
\* another one rolled it back there, or a refusal was cut in two.
TrueIsCommitted ==
    \A o \in Op :
        Kind(o) = "configure" /\ Contains(configHeard[o], TRUE) =>
            \/ o \in active[operation[o].device] \cup undone
            \/ \E s \in Step : Cut(<<o, s>>)

\* Each operation tells its caller once, whichever of its RPCs is the last; it stays silent
\* only when the connection ended under it or a partial reply could not be parsed.  Then
\* and only then its pane never has its button back.
ConfigEndsAreHeard ==
    \A o \in Op :
        LET ends   == {configCall[<<o, s>>] : s \in Step}
            over   == Kind(o) # "none" /\ "asked" \notin ends
            silent == "close" \in ends \/ \E s \in Step : /\ Unparsable(<<o, s>>)
                                                          /\ configCall[<<o, s>>] = "error"
        IN  /\ Len(configHeard[o]) = IF over /\ ~ silent THEN 1 ELSE 0
            /\ Pasted(o) /\ configHeard[o] = <<>> => operation[o].device \notin buttons

=============================================================================
