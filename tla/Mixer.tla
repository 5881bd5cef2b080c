------------------------------- MODULE Mixer -------------------------------
(***************************************************************************)
(* The mixer between its clients and its devices: the specification, and   *)
(* the properties it is checked for.                                       *)
(***************************************************************************)
EXTENDS MixerRequests, MixerLoop

-----------------------------------------------------------------------------
(* Clients and devices *)

Sends(w, m) ==
    /\ w \in Websockets /\ peer[w] = "open" /\ Len(inbox[w]) < MaxBatch
    /\ m.op \in Ops
    /\ inbox' = [inbox EXCEPT ![w] = Append(@, m)]

ClientUnchanged == UNCHANGED <<memory, loop, peer, devices, history>>

\* The websockets a script may name for authentication: they sent an authinit
AuthWebsockets == {w \in Websockets : \E r \in requests : /\ request[r].client = w
                                                          /\ request[r].target = NoTarget}

ClientRequests(w) ==
    /\ sent < MaxRequest
    /\ sent' = sent + 1
    /\ \E m \in Muxid :
         \/ Sends(w, [op |-> "authinit", muxid |-> m, reqid |-> None, target |-> NoTarget,
                      authws |-> None, arg |-> "text"])
         \/ \E t \in Target, a \in AuthWebsockets \cup {None},
               arg \in {"text"} \cup ({"nocreate"} \cap Ops) :
              Sends(w, [op |-> "rpc", muxid |-> m, reqid |-> None, target |-> t,
                        authws |-> a, arg |-> arg])
    /\ UNCHANGED <<prompts, extra>> /\ ClientUnchanged

\* What the user may say to a prompt
Says(op) == CASE op = "hostkey" -> {"yes"} \cup (IF "decline" \in Ops THEN {"text"} ELSE {})
              [] OTHER -> {"text"} \cup ({"empty"} \cap Ops)

ClientAnswers(p) ==
    /\ p \in prompts
    /\ \E arg \in Says(p.op) :
          Sends(p.to, [op |-> p.op, muxid |-> request[p.req].muxid, reqid |-> p.req,
                       target |-> NoTarget, authws |-> None, arg |-> arg])
    /\ prompts' = prompts \ {p}
    /\ UNCHANGED <<sent, extra>> /\ ClientUnchanged

\* data and error messages name a muxid only
ClientFollowsUp(w) ==
    /\ extra < MaxExtra
    /\ extra' = extra + 1
    /\ \E m \in Muxid, op \in {"data", "error"} :
          Sends(w, [op |-> op, muxid |-> m, reqid |-> None, target |-> NoTarget,
                    authws |-> None, arg |-> "text"])
    /\ UNCHANGED <<prompts, sent>> /\ ClientUnchanged

\* The client closes its end, or its host does
ClientLeaves(w) ==
    /\ w \in Websockets /\ peer[w] = "open"
    /\ peer' \in {[peer EXCEPT ![w] = how] : how \in {IF f = "close" THEN "closed" ELSE "reset" :
                                                       f \in {"close", "reset"} \cap Faults}}
    /\ prompts' = {p \in prompts : p.to # w}
    /\ UNCHANGED <<memory, loop, inbox, sent, extra, devices, history>>

DeviceReplies(c) ==
    /\ device[c] # <<>> /\ c \notin eof /\ channel[c].session \notin down
    /\ LET d == Head(device[c])
       IN  /\ data'   = [data EXCEPT ![c] = Append(@, [rpc |-> d.rpc, last |-> d.left = 1])]
           /\ device' = [device EXCEPT ![c] =
                 IF d.left = 1 THEN Tail(@) ELSE [@ EXCEPT ![1].left = d.left - 1]]
    /\ UNCHANGED <<memory, loop, clients, eof, down, history>>

DeviceEndsChannel(c) ==
    /\ "eof" \in Faults
    /\ channel[c].list # "none" /\ c \notin eof
    /\ eof' = eof \cup {c}
    /\ UNCHANGED <<memory, loop, clients, device, data, down, history>>

DeviceGoes(s) ==
    /\ "down" \in Faults
    /\ s \in Sessions \ down
    /\ down' = down \cup {s}
    /\ UNCHANGED <<memory, loop, clients, device, data, eof, history>>

Environment == \/ \E w \in SockId : ClientRequests(w) \/ ClientFollowsUp(w) \/ ClientLeaves(w)
               \/ \E p \in prompts : ClientAnswers(p)
               \/ \E c \in ChannelId : DeviceReplies(c) \/ DeviceEndsChannel(c)
               \/ \E s \in SockId : DeviceGoes(s)

-----------------------------------------------------------------------------
Init ==
    /\ socks = {} /\ requests = {}
    /\ sock    = [s \in SockId |-> NewWebsocket]
    /\ request = [r \in RequestId |->
          [state |-> "NORMAL", client |-> None, session |-> None, channel |-> None,
           muxid |-> CHOOSE m \in Muxid : TRUE, target |-> NoTarget, authws |-> None,
           nocreate |-> FALSE, passphrase |-> "null", password |-> "null"]]
    /\ channel = [c \in ChannelId |-> NoChannel]
    /\ lastSock = 0 /\ lastRequest = 0 /\ lastChannel = 0
    /\ known = KnownHosts /\ saved = {} /\ cached = {}
    /\ pc = "prep" /\ cursor = None /\ shifted = FALSE
    /\ rbuf = <<>> /\ reqid = None /\ todo = {}
    /\ inbox = [s \in SockId |-> <<>>] /\ peer = [s \in SockId |-> "closed"]
    /\ prompts = {} /\ sent = 0 /\ extra = 0
    /\ device = [c \in ChannelId |-> <<>>] /\ data = [c \in ChannelId |-> <<>>]
    /\ eof = {} /\ down = {}
    /\ trusted = {} /\ authStarted = {} /\ authed = {} /\ tainted = {}
    /\ got = [r \in RequestId |-> {}] /\ answers = [r \in RequestId |-> <<>>]

Pass == \E s \in SockId : \/ WebsocketReceives(s) \/ WebsocketDisconnects(s)
                          \/ WebsocketReadError(s) \/ WebsocketMispolled(s)
                          \/ VisitFailed(s) \/ VisitSession(s) \/ SessionPoller(s)
                          \/ HandleRequest(s)

Daemon == \/ PrepFails \/ Poll \/ Pass \/ ClosesVisited \/ EndPassIdle \/ EndPassAccepts
          \/ \E c \in ChannelId : ChannelInput(c)

Next == Daemon \/ Environment

Spec == Init /\ [][Next]_vars

\* The loop runs on its own; devices answer what they were asked; users answer
\* what they are asked.  Nobody has to connect, to send a request or to leave.
FairSpec == /\ Spec
            /\ WF_vars(Daemon)
            /\ \A c \in ChannelId : WF_vars(DeviceReplies(c))
            /\ \A p \in Prompt : WF_vars(ClientAnswers(p))

-----------------------------------------------------------------------------
(* Types *)

SocksOK ==
    /\ lastSock \in 0..MaxSock /\ socks \subseteq 1..lastSock
    /\ sock \in [SockId -> Sock]

RequestsOK ==
    /\ lastRequest \in 0..MaxRequest /\ requests \subseteq 1..lastRequest
    /\ request \in [RequestId -> Request]

ChannelsOK ==
    /\ lastChannel \in 0..MaxChannel
    /\ channel \in [ChannelId -> Channel]

StoresOK ==
    /\ known \subseteq Target \cup {NoTarget} /\ saved \subseteq Target
    /\ cached \subseteq {DeviceName(t) : t \in Target \cup {NoTarget}}

LoopOK ==
    /\ pc \in {"prep", "pass", "handle", "input", "drain", "spinning", "crashed"}
    /\ cursor \in 0..(MaxSock + 1) /\ shifted \in BOOLEAN
    /\ rbuf \in Seq(Message) /\ reqid \in RequestId \cup {None}
    /\ todo \subseteq ChannelId

ClientsOK ==
    /\ inbox \in [SockId -> Seq(Message)]
    /\ peer \in [SockId -> {"open", "closed", "reset"}]
    /\ prompts \subseteq Prompt /\ sent \in Nat /\ extra \in Nat

DevicesOK ==
    /\ device \in [ChannelId -> Seq([rpc : RequestId, left : Nat \ {0}])]
    /\ data \in [ChannelId -> Seq(Chunk)]
    /\ eof \subseteq ChannelId /\ down \subseteq SockId

HistoryOK ==
    /\ trusted \subseteq SockId /\ authStarted \subseteq SockId /\ authed \subseteq SockId
    /\ got \in [RequestId -> SUBSET RequestId] /\ answers \in [RequestId -> Seq(Answer)]
    /\ tainted \subseteq ChannelId

\* Every variable has the type of the C object it stands for, and the lists
\* hold only ids that were given out.
TypeOK == /\ SocksOK /\ RequestsOK /\ ChannelsOK /\ StoresOK
          /\ LoopOK /\ ClientsOK /\ DevicesOK /\ HistoryOK

-----------------------------------------------------------------------------
(* Authentication *)

\* No credential of the user (agent identity, key or password) is offered to a
\* device before its host key matched or the user accepted it, however the
\* messages of several clients and requests interleave.
NoCredentialsBeforeTrust == authStarted \subseteq trusted

\* A session on which the mixer would run RPCs has been authenticated.  The state
\* of a session is written by whatever happens to a request that points to it.
EstablishedIsAuthenticated ==
    \A s \in Sessions : sock[s].state = "ESTABLISHED" => s \in authed

\* While a request waits for its user or runs, the session it opened is there
\* and in the same state, unless the connection is lost: nothing that happens to
\* another request of the same client changes it under the request.
StatesAgree ==
    \A r \in requests :
        request[r].state \in DOMAIN PromptFor \cup {"ESTABLISHED"}
            => /\ request[r].session \in Sessions
               /\ sock[request[r].session].state \in {request[r].state, "FAILED"}

\* A session accepts at most MAX_PWFAIL + 1 wrong passwords, over all requests.
PasswordAttemptsBounded == \A s \in Sessions : sock[s].pwfail <= MaxPwfail + 1

-----------------------------------------------------------------------------
(* Relaying *)

Chunks(c)  == {data[c][i].rpc : i \in DOMAIN data[c]}
Pending(c) == Chunks(c) \cup {device[c][i].rpc : i \in DOMAIN device[c]}

\* A channel that was never given up in the middle of an RPC carries the RPC of
\* its current request and no other, and is silent when it is released.
ChannelCarriesItsRequest ==
    \A c \in ChannelId \ tainted :
        /\ channel[c].list = "inuse" => Pending(c) \subseteq {channel[c].request}
        /\ channel[c].list # "inuse" => Pending(c) = {}

\* As long as no client leaves during its RPC, what is relayed under the name of
\* a request is the reply to that request, over all reuse of channels.
ReplyRouting == tainted = {} => \A r \in RequestId : got[r] \subseteq {r}

\* As long as no client leaves during its RPC, "complete" is said after the whole
\* reply was relayed and never before.
CompleteIsWhole ==
    tainted = {} => \A r \in RequestId :
        "complete" \in {answers[r][i] : i \in DOMAIN answers[r]}
            => /\ r \in got[r]
               /\ \A c \in ChannelId : r \notin Pending(c)

\* The request a channel in use works for exists, and is a request of the client
\* the channel relays to: its memory is not freed under the channel.
ChannelHasItsRequest ==
    \A c \in ChannelId :
        channel[c].list = "inuse" /\ channel[c].client # None
            => /\ channel[c].request \in requests
               /\ request[channel[c].request].client = channel[c].client
               /\ request[channel[c].request].channel = c

\* "complete" is the only answer to a request, and there is nothing after it.
CompleteIsFinal ==
    \A r \in RequestId :
        "complete" \in {answers[r][i] : i \in DOMAIN answers[r]} => answers[r] = <<"complete">>

\* A client is never told more completions than it made requests.
CompletedWereMade == \A w \in Websockets : sock[w].complete <= sock[w].made

-----------------------------------------------------------------------------
(* Progress *)

\* Every request for an RPC comes to an answer, or its client is gone.
EveryRequestAnswered ==
    \A r \in RequestId :
        (r \in requests /\ request[r].target # NoTarget)
            ~> (answers[r] # <<>> \/ request[r].client \notin Websockets)

=============================================================================
