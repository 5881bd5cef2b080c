--------------------------- MODULE MixerRequests ---------------------------
(***************************************************************************)
(* mx_websocket_handle_request: what the mixer does with each message of a *)
(* client, down to opening and authenticating a session and sending an RPC *)
(* on one of its channels.  One action is one message.                     *)
(***************************************************************************)
EXTENDS MixerState

-----------------------------------------------------------------------------
(* What opening and authenticating a session may come to *)

Outcome == [state: {"HOSTKEY", "PASSPHRASE", "PASSWORD", "FAILED", "ESTABLISHED"},
            trust: BOOLEAN, auth: BOOLEAN, pwfail: Nat, save: BOOLEAN, crash: BOOLEAN]

Result(st, trust, pf, save) ==
    [state |-> st, trust |-> trust, auth |-> TRUE, pwfail |-> pf, save |-> save,
     crash |-> FALSE]

\* mx_password_save goes by the name of the device (mr_target), mx_password by
\* the full target user@name:port (mss_target)
DeviceName(t) == <<"name of", t>>

\* A mutant of PasswordOutcomes: failures are compared before they are counted
PasswordOutcomesLate(pf, password, t, trust) ==
    IF password = "text"
    THEN {Result("ESTABLISHED", trust, pf, TRUE),
          Result(IF pf > MaxPwfail THEN "FAILED" ELSE "PASSWORD", trust, pf + 1, FALSE)}
    ELSE {Result("PASSWORD", trust, pf, FALSE)}

\* mx_session_check_password, pf failures so far; saving goes wrong without a name
PasswordOutcomes(pf, password, t, trust) ==
    IF password = "text" \/ (password = "null" /\ t \in cached)
    THEN {[Result("ESTABLISHED", trust, pf, TRUE) EXCEPT !.crash = t = NoTarget],
          Result(IF pf + 1 > MaxPwfail THEN "FAILED" ELSE "PASSWORD",
                 trust, pf + 1, FALSE)}
    ELSE {Result("PASSWORD", trust, pf, FALSE)}

\* mx_session_check_auth: the agent, the key file, then the password.  An empty
\* passphrase is how the user skips the key file.
AuthOutcomes(pf, passphrase, password, t, trust) ==
    (IF "agent" \in AuthMethods THEN {Result("ESTABLISHED", trust, pf, FALSE)} ELSE {})
    \cup
    (IF "keyfile" \in AuthMethods /\ passphrase # "empty"
     THEN {Result(st, trust, pf, FALSE) : st \in {"ESTABLISHED", "PASSPHRASE"}}
     ELSE IF "password" \in AuthMethods
     THEN PasswordOutcomes(pf, password, t, trust)
     ELSE {Result("FAILED", trust, pf, FALSE)})

\* Without a client, a prompt and the log message of a failed attempt both go
\* through a NULL mr_client
NullClient(O) == {[o EXCEPT !.crash = o.state # "ESTABLISHED"] : o \in O}

\* A mutant of OpenOutcomes: the host key is not asked about
OpenOutcomesUnchecked(r) ==
    AuthOutcomes(0, r.passphrase, r.password, r.target, r.target \in known)

\* mx_session_open once the ssh handshake is done: ask about an unknown host
\* key, but only when there is a client to ask; else go on to authenticate
OpenOutcomes(r) ==
    LET t       == r.target
        try     == AuthOutcomes(0, r.passphrase, r.password, t, t \in known)
    IN  IF r.client = None THEN NullClient(try)
        ELSE IF t \in known THEN try
        ELSE {[state |-> "HOSTKEY", trust |-> FALSE, auth |-> FALSE, pwfail |-> 0,
               save |-> FALSE, crash |-> FALSE]}

PromptFor == [HOSTKEY |-> "hostkey", PASSPHRASE |-> "psphrase", PASSWORD |-> "psword"]

\* A mutant of PromptsAfter: a wrong password is not asked for again
PromptsAfterOnce(id, r, o) ==
    IF o.crash \/ o.state \notin DOMAIN PromptFor \/ o.pwfail > 0 THEN prompts
    ELSE prompts \cup {[to |-> r.client, req |-> id, op |-> PromptFor[o.state]]}

\* mx_websocket_send_simple: prompts go to the auth websocket if it is there
PromptsAfter(id, r, o) ==
    IF o.crash \/ o.state \notin DOMAIN PromptFor THEN prompts
    ELSE prompts \cup {[to |-> IF r.authws \in socks THEN r.authws ELSE r.client,
                        req |-> id, op |-> PromptFor[o.state]]}

\* What an attempt on session s for request id leaves behind, besides states
RecordAttempt(id, r, s, o) ==
    /\ prompts'     = PromptsAfter(id, r, o)
    /\ saved'       = IF o.save THEN saved \cup ({r.target} \cap SavePassword) ELSE saved
    /\ cached'      = IF o.save THEN cached \cup {DeviceName(r.target)} ELSE cached
    /\ trusted'     = IF o.trust THEN trusted \cup {s} ELSE trusted
    /\ authStarted' = IF o.auth THEN authStarted \cup {s} ELSE authStarted
    /\ authed'      = IF o.state = "ESTABLISHED" THEN authed \cup {s} ELSE authed

NewSession(t, o) == [kind |-> "session", state |-> o.state, target |-> t,
                     pwfail |-> o.pwfail, made |-> 0, complete |-> 0]

-----------------------------------------------------------------------------
(* Running an RPC: mx_channel_netconf, then mx_request_rpc_send *)

\* A mutant of SendRpc: mc_request is not set
SendRpcUnnamed(id, c, s, w) ==
    /\ lastChannel' = IF c > lastChannel THEN c ELSE lastChannel
    /\ channel' = IF c = None THEN channel
                  ELSE [channel EXCEPT ![c].list = "inuse", ![c].session = s,
                                       ![c].client = w]
    /\ device' = IF c = None THEN device
                 ELSE [device EXCEPT ![c] = Append(@, [rpc |-> id, left |-> ReplyChunks])]

\* Channel c of session s now works for request id of websocket w; None means
\* that no channel could be had.  A failed or blocked write loses the RPC.
SendRpc(id, c, s, w) ==
    /\ lastChannel' = IF c > lastChannel THEN c ELSE lastChannel
    /\ channel' = IF c = None THEN channel
                  ELSE [channel EXCEPT ![c].list = "inuse", ![c].session = s,
                                       ![c].state = "RPC_INITIAL",
                                       ![c].client = w, ![c].request = id]
    /\ \/ /\ c # None /\ c \notin eof /\ s \notin down
          /\ device' = [device EXCEPT ![c] = Append(@, [rpc |-> id, left |-> ReplyChunks])]
       \/ /\ c = None \/ c \in eof \/ s \in down \/ "write" \in Faults
          /\ device' = device
-----------------------------------------------------------------------------
(* mx_websocket_handle_request: one message of the receive buffer *)

\* The message being handled, and the request id it is handled with: reqid is
\* set by a message that carries one and keeps its value for those that do not
Incoming == Head(rbuf)
ReqIdNow == IF Incoming.reqid # None THEN Incoming.reqid ELSE reqid
Addressed == RequestFind(Incoming.muxid, ReqIdNow)

Handling(w, ops) ==
    /\ pc = "handle" /\ cursor = w /\ rbuf # <<>>
    /\ Incoming.op \in ops

Consume == /\ rbuf'  = Tail(rbuf)
           /\ reqid' = ReqIdNow
           /\ pc'    = IF Len(rbuf) = 1 THEN "pass" ELSE "handle"
           /\ UNCHANGED <<cursor, shifted, todo>>

\* A return out of the loop: what is left in the buffer is never looked at, as
\* the next recv() writes over it
Abandon == /\ rbuf'  = <<>>
           /\ reqid' = None
           /\ pc'    = "pass"
           /\ UNCHANGED <<cursor, shifted, todo>>

Crash == pc' = "crashed" /\ UNCHANGED <<cursor, shifted, buffer, todo>>

\* mx_request_create
Created(w) ==
    [state |-> "NORMAL", client |-> w, session |-> None, channel |-> None,
     muxid |-> Incoming.muxid, target |-> Incoming.target,
     authws |-> Incoming.authws, nocreate |-> Incoming.arg = "nocreate",
     passphrase |-> "null",
     password |-> IF Incoming.target \in saved THEN "text" ELSE "null"]

\* A mutant of CreateRequest: the id is taken before it is counted up
CreateRequestEarly(r) ==
    /\ lastRequest < MaxRequest
    /\ lastRequest' = lastRequest
    /\ requests'    = requests \cup {lastRequest + 1}
    /\ request'     = [request EXCEPT ![lastRequest + 1] = r]

CreateRequest(r) ==
    /\ lastRequest < MaxRequest
    /\ lastRequest' = lastRequest + 1
    /\ requests'    = requests \cup {lastRequest + 1}
    /\ request'     = [request EXCEPT ![lastRequest + 1] = r]

\* A mutant of CountMade: the request is not counted
CountMadeNever(w, st) == [sock[w] EXCEPT !.state = st]

CountMade(w, st) == [sock[w] EXCEPT !.state = st, !.made = @ + 1]

\* rpc, when there is an established session to the target
HandleRpcReuse(w) ==
    LET id == lastRequest + 1
        s  == SessionFind(Incoming.target)
    IN  /\ Handling(w, {"rpc"})
        /\ s # None /\ sock[s].state = "ESTABLISHED"
        /\ \E c \in ChannelFor(s) :
              /\ CreateRequest([Created(w) EXCEPT !.channel = c])
              /\ SendRpc(id, c, s, w)
        /\ sock' = [sock EXCEPT ![w] = CountMade(w, @.state)]
        /\ Consume
        /\ UNCHANGED <<socks, lastSock, stores, clients, data, eof, down, history>>

\* rpc with create="no", when there is no session to the target
HandleRpcNoCreate(w) ==
    LET id == lastRequest + 1
    IN  /\ Handling(w, {"rpc"})
        /\ SessionFind(Incoming.target) = None /\ Incoming.arg = "nocreate"
        /\ CreateRequest([Created(w) EXCEPT !.state = "ERROR"])
        /\ sock'    = [sock EXCEPT ![w] = CountMade(w, "ERROR")]
        /\ answers' = Errors({id}, 1)
        /\ Consume
        /\ UNCHANGED <<socks, channel, lastSock, lastChannel, stores, clients, devices,
                       attempt, got, tainted>>

\* The conditions under which mx_session opens a session for request r
MustOpen(r) == LET s == SessionFind(r.target)
               IN  \/ s = None /\ ~ r.nocreate
                   \/ s # None /\ sock[s].state # "ESTABLISHED"

\* rpc, when the session cannot be opened: mx_session_open reports a name that
\* does not resolve and a refused connection (but not a failed handshake), and
\* mx_request_start_rpc reports "no session" after it
HandleRpcOpenFails(w) ==
    LET id == lastRequest + 1
    IN  /\ Handling(w, {"rpc"})
        /\ MustOpen(Created(w))
        /\ CreateRequest([Created(w) EXCEPT !.state = "ERROR"])
        /\ sock' = [sock EXCEPT ![w] = CountMade(w, "ERROR")]
        /\ \/ "connect"   \in Faults /\ answers' = Errors({id}, 2)
           \/ "handshake" \in Faults /\ answers' = Errors({id}, 1)
        /\ Consume
        /\ UNCHANGED <<socks, channel, lastSock, lastChannel, stores, clients, devices,
                       attempt, got, tainted>>

\* rpc, when a session is opened for it: the RPC runs if nothing needs asking
HandleRpcOpen(w) ==
    LET id == lastRequest + 1
        s  == lastSock + 1
        r  == Created(w)
    IN  /\ Handling(w, {"rpc"})
        /\ MustOpen(r)
        /\ lastSock < MaxSock
        /\ lastSock' = s
        /\ socks'    = socks \cup {s}
        /\ \E o \in OpenOutcomes(r) :
              \E c \in IF o.state = "ESTABLISHED" THEN ChannelFor(s) ELSE {None} :
                 /\ CreateRequest([r EXCEPT !.state = o.state, !.session = s,
                                            !.channel = c])
                 /\ sock' = [sock EXCEPT ![w] = CountMade(w, o.state),
                                         ![s] = NewSession(r.target, o)]
                 /\ RecordAttempt(id, r, s, o)
                 /\ SendRpc(id, c, s, w)
        /\ Consume
        /\ UNCHANGED <<known, inbox, peer, sent, extra, data, eof, down, got, answers,
                       tainted>>

\* authinit: the request is never answered and lives as long as its client; it
\* is what makes w a websocket that scripts may name for authentication
HandleAuthinit(w) ==
    /\ Handling(w, {"authinit"})
    /\ CreateRequest(Created(w))
    /\ Consume
    /\ UNCHANGED <<socks, sock, channel, lastSock, lastChannel, stores, clients,
                   devices, history>>

\* Request id is there, and in the state in which it waits for an op
Waits(id, op) == /\ id # None
                 /\ request[id].state \in DOMAIN PromptFor
                 /\ PromptFor[request[id].state] = op

Awaiting(w, op) == Handling(w, {op}) /\ Waits(Addressed, op)

\* An answer for a request that is gone, or that does not wait for it
HandleAnswerIgnored(w) ==
    /\ Handling(w, PromptOp)
    /\ ~ Waits(Addressed, Incoming.op)
    /\ Consume
    /\ UNCHANGED <<memory, clients, devices, history>>

\* mx_session_check_auth with what the user said, then mx_request_restart_rpc.
\* r is the request with the answer in it, trust whether the answer gave trust.
Authenticate(id, r, trust) ==
    LET s == r.session
    IN  \E o \in AuthOutcomes(sock[s].pwfail, r.passphrase, r.password, r.target, trust) :
        \E c \in IF o.state = "ESTABLISHED" THEN ChannelFor(s) ELSE {None} :
           /\ request' = [request EXCEPT ![id] = [r EXCEPT !.state = o.state,
                                                !.channel = IF c = None THEN @ ELSE c]]
           /\ sock' = [SetState({r.client, s}, o.state) EXCEPT ![s].pwfail = o.pwfail]
           /\ RecordAttempt(id, r, s, o)
           /\ SendRpc(id, c, s, r.client)
           /\ IF o.crash THEN Crash ELSE Consume

HandleHostkeyAccepted(w) ==
    LET r == request[Addressed]
    IN  /\ Awaiting(w, "hostkey")
        /\ Incoming.arg = "yes"
        /\ known' = known \cup {r.target}
        /\ Authenticate(Addressed, r, TRUE)
        /\ UNCHANGED <<socks, requests, lastSock, lastRequest, inbox, peer, sent, extra,
                       data, eof, down, got, answers, tainted>>

HandlePassphrase(w) ==
    /\ Awaiting(w, "psphrase")
    /\ Authenticate(Addressed, [request[Addressed] EXCEPT !.passphrase = Incoming.arg], FALSE)
    /\ UNCHANGED <<socks, requests, lastSock, lastRequest, known, inbox, peer, sent,
                   extra, data, eof, down, got, answers, tainted>>

HandlePassword(w) ==
    /\ Awaiting(w, "psword")
    /\ Authenticate(Addressed, [request[Addressed] EXCEPT !.password = Incoming.arg], FALSE)
    /\ UNCHANGED <<socks, requests, lastSock, lastRequest, known, inbox, peer, sent,
                   extra, data, eof, down, got, answers, tainted>>

\* A close of a session in the middle of a pass moves what is further down the
\* list one position up
ConsumeAndShift(s) ==
    /\ rbuf'    = Tail(rbuf)
    /\ reqid'   = ReqIdNow
    /\ pc'      = IF Len(rbuf) = 1 THEN "pass" ELSE "handle"
    /\ shifted' = (shifted \/ (s \in socks /\ s < cursor))
    /\ UNCHANGED <<cursor, todo>>

\* The host key is declined: an error, mx_request_release, and the session goes
HandleHostkeyDeclined(w) ==
    LET r == request[Addressed]
    IN  /\ Awaiting(w, "hostkey")
        /\ Incoming.arg # "yes"
        /\ CloseSession(r.session, Freed({Addressed}),
                        SetState({r.client, r.session}, "NORMAL"), {Addressed})
        /\ ConsumeAndShift(r.session)

\* error: the request is released with the state mx_request_release gives it and
\* its session, if it has one, is closed
HandleError(w) ==
    LET r  == request[Addressed]
        st == IF r.state \in {"ESTABLISHED", "READ_EOF"} THEN "ESTABLISHED" ELSE "NORMAL"
    IN  /\ Handling(w, {"error"})
        /\ \/ /\ Addressed = None
              /\ Consume
              /\ UNCHANGED <<memory, clients, devices, history>>
           \/ /\ Addressed # None
              /\ CloseSession(r.session, Freed({Addressed}),
                              SetState({r.client, r.session}, st), {})
              /\ ConsumeAndShift(r.session)

\* data for a request that does not exist is fatal for the websocket
HandleDataUnknown(w) ==
    /\ Handling(w, {"data"})
    /\ Addressed = None
    /\ sock' = [sock EXCEPT ![w].state = "FAILED"]
    /\ Abandon
    /\ UNCHANGED <<socks, requests, request, channel, lasts, stores, clients, devices,
                   history>>

\* data ends in n errors, for a client that is still there, and a return
DataFails(id, n) ==
    LET r == request[id]
    IN  /\ IF r.client = None
           THEN UNCHANGED <<sock, request, answers>>
           ELSE /\ sock'    = SetState({r.client, r.session}, "ERROR")
                /\ request' = [request EXCEPT ![id].state = "ERROR"]
                /\ answers' = Errors({id}, n)
        /\ Abandon
        /\ UNCHANGED <<socks, requests, channel, lasts, stores, clients, devices,
                       attempt, got, tainted>>

\* data, when mx_session cannot give a session, and "no previous rpc channel"
HandleDataFails(w) ==
    LET r == request[Addressed]
        s == SessionFind(r.target)
    IN  /\ Handling(w, {"data"})
        /\ Addressed # None
        /\ \/ s = None /\ r.nocreate /\ DataFails(Addressed, 1)
           \/ MustOpen(r) /\ "connect"   \in Faults /\ DataFails(Addressed, 2)
           \/ MustOpen(r) /\ "handshake" \in Faults /\ DataFails(Addressed, 1)
           \/ /\ s # None /\ sock[s].state = "ESTABLISHED" /\ r.channel = None
              /\ DataFails(Addressed, 1)

\* data for the channel of the request.  What the device makes of more input is
\* its own business; a channel whose memory is freed is not to be written to.
HandleDataSent(w) ==
    LET r == request[Addressed]
        s == SessionFind(r.target)
    IN  /\ Handling(w, {"data"})
        /\ Addressed # None
        /\ s # None /\ sock[s].state = "ESTABLISHED" /\ r.channel # None
        /\ IF channel[r.channel].list = "none" THEN Crash ELSE Consume
        /\ UNCHANGED <<memory, clients, devices, history>>

\* data, when mx_session opens one more session for the request: it becomes the
\* session of the request whatever comes of it, and the code goes on
HandleDataOpens(w) ==
    LET id    == Addressed
        r     == request[id]
        s     == lastSock + 1
        fails == r.channel = None /\ r.client # None
    IN  /\ Handling(w, {"data"})
        /\ id # None
        /\ MustOpen(r)
        /\ lastSock < MaxSock
        /\ lastSock' = s
        /\ socks'    = socks \cup {s}
        /\ \E o \in OpenOutcomes(r) :
              LET st == IF fails THEN "ERROR" ELSE o.state
              IN  /\ request' = [request EXCEPT ![id].state = st, ![id].session = s]
                  /\ sock'    = [SetState({r.client}, st) EXCEPT
                                    ![s] = [NewSession(r.target, o) EXCEPT !.state = st]]
                  /\ RecordAttempt(id, r, s, o)
                  /\ IF o.crash \/ (r.channel # None /\ channel[r.channel].list = "none")
                     THEN Crash ELSE IF r.channel = None THEN Abandon ELSE Consume
        /\ answers' = IF fails THEN Errors({id}, 1) ELSE answers
        /\ UNCHANGED <<requests, channel, lastRequest, lastChannel, known, inbox, peer,
                       sent, extra, devices, got, tainted>>

HandleRequest(w) ==
    \/ HandleRpcReuse(w)     \/ HandleRpcNoCreate(w)     \/ HandleRpcOpenFails(w)
    \/ HandleRpcOpen(w)      \/ HandleAuthinit(w)        \/ HandleAnswerIgnored(w)
    \/ HandleHostkeyAccepted(w) \/ HandleHostkeyDeclined(w)
    \/ HandlePassphrase(w)   \/ HandlePassword(w)        \/ HandleError(w)
    \/ HandleDataUnknown(w)  \/ HandleDataFails(w)       \/ HandleDataSent(w)
    \/ HandleDataOpens(w)
=============================================================================
