----------------------------- MODULE MixerState -------------------------------
(***************************************************************************)
(* The mixer daemon (mixer/ in the repository): one thread, one poll loop, *)
(* which relays the RPCs of many clients over shared ssh sessions.         *)
(*                                                                         *)
(*   websocket -- a client connection: a browser page or a juise script    *)
(*   session   -- an ssh connection to a target device                     *)
(*   channel   -- a NETCONF channel of a session, reused from RPC to RPC   *)
(*   request   -- one "rpc" (or "authinit") message of a client            *)
(*                                                                         *)
(* The daemon is sequential: pc and cursor say where the poll loop stands. *)
(* A step of the daemon is one message, one chunk of reply, one socket     *)
(* visited or closed; clients and devices act between any two steps.       *)
(*                                                                         *)
(* Both lists of the daemon, mx_sock_list and mx_request_list, only ever   *)
(* grow at their head and ids only ever grow, so a list is the set of its  *)
(* members and its order is the descending order of ids.                   *)
(*                                                                         *)
(* This module: the parameters, the state and what reads it.  MixerRequests *)
(* handles the messages of clients, MixerLoop is the poll loop, and Mixer   *)
(* puts them together with clients and devices.                            *)
(***************************************************************************)
EXTENDS Integers, FiniteSets, Sequences

CONSTANTS
    Target,       \* devices, as user@host:port
    Muxid,        \* the muxer ids clients put in their messages
    MaxSock,      \* bound: sockets (clients and sessions) ever created
    MaxClient,    \* bound: client connections ever accepted
    MaxRequest,   \* bound: requests ever created
    MaxChannel,   \* bound: channels ever created
    MaxExtra,     \* bound: "data" and "error" messages ever sent
    MaxBatch,     \* bound: messages of a client waiting in its socket
    ReplyChunks,  \* reads it takes to get one RPC reply out of a channel
    MaxPwfail,    \* MAX_PWFAIL: failed passwords a session forgives
    Ops,          \* operations clients use
    Faults,       \* what goes wrong around the daemon
    AuthMethods,  \* ways to authenticate that devices and user offer
    KnownHosts,   \* targets whose host key is in the database at start
    SavePassword  \* targets whose row in the database says save_password

Operation  == {"rpc", "authinit", "hostkey", "psphrase", "psword", "data", "error"}
\* What clients may do besides: create="no", decline a host key, send nothing
\* as a passphrase or a password
AllOps     == Operation \cup {"nocreate", "decline", "empty"}
AllFaults  == {"connect", "handshake", "channel", "write", "close", "reset",
               "down", "eof"}
AllMethods == {"agent", "keyfile", "password"}

ASSUME ConstantsAssumption ==
    /\ {MaxSock, MaxClient, MaxRequest, MaxChannel, MaxExtra, MaxBatch} \subseteq Nat
    /\ ReplyChunks \in Nat \ {0}
    /\ MaxPwfail \in Nat
    /\ Ops \subseteq AllOps
    /\ Faults \subseteq AllFaults
    /\ AuthMethods \subseteq AllMethods
    /\ KnownHosts \subseteq Target
    /\ SavePassword \subseteq Target
    /\ "no target" \notin Target
    /\ Muxid # {}

SockId    == 1..MaxSock
RequestId == 1..MaxRequest
ChannelId == 1..MaxChannel
None      == 0                      \* the NULL of every pointer and id
NoTarget  == "no target"            \* an authinit names no device

SockState    == {"NORMAL", "FAILED", "ERROR", "HOSTKEY", "PASSPHRASE",
                 "PASSWORD", "ESTABLISHED", "READ_EOF"}
ChannelState == {"RPC_INITIAL", "RPC_IDLE", "RPC_COMPLETE"}
Credential   == {"null", "empty", "text"}
Answer       == {"complete", "error"}
PromptOp     == {"hostkey", "psphrase", "psword"}

Sock    == [kind: {"websocket", "session"}, state: SockState,
            target: Target \cup {NoTarget}, pwfail: Nat, made: Nat, complete: Nat]
Request == [state: SockState, client: SockId \cup {None},
            session: SockId \cup {None}, channel: ChannelId \cup {None},
            muxid: Muxid, target: Target \cup {NoTarget},
            authws: SockId \cup {None}, nocreate: BOOLEAN,
            passphrase: Credential, password: Credential]
Channel == [list: {"none", "inuse", "released"}, session: SockId \cup {None},
            state: ChannelState, client: SockId \cup {None},
            request: RequestId \cup {None}, eoframe: BOOLEAN]
Message == {m \in [op: Operation \cap Ops, muxid: Muxid, reqid: RequestId \cup {None},
                    target: Target \cup {NoTarget}, authws: SockId \cup {None},
                    arg: {"yes", "text", "empty", "nocreate"}] :
              m.op \in {"psphrase", "psword"} => m.arg \in Credential}
Chunk   == [rpc: RequestId, last: BOOLEAN]
Prompt  == [to: SockId, req: RequestId, op: PromptOp]

VARIABLES
    \* --- the memory of the daemon
    socks,        \* mx_sock_list
    sock,         \* the mx_sock_t of every id
    requests,     \* mx_request_list
    request,      \* the mx_request_t of every id
    channel,      \* the mx_channel_t of every id
    lastSock, lastRequest, lastChannel,    \* mx_sock_id, mx_request_id, mx_channel_id
    known,        \* the hostkey table of the database
    saved,        \* targets whose password is in the database
    cached,       \* names under which mx_saved_passwords holds a password
    \* --- where the poll loop stands
    pc,           \* prep | pass | handle | input | drain | spinning | crashed
    cursor,       \* the socket being visited
    shifted,      \* a socket left the list since poll(): mx_poll_owner, which
                  \* goes by position, is off by one further down the list
    rbuf,         \* messages received from the cursor, not yet handled
    reqid,        \* the local variable of mx_websocket_handle_request
    todo,         \* channels the session poller still looks at
    \* --- clients and devices
    inbox,        \* messages in flight to the daemon, by websocket
    peer,         \* open | closed | reset, by websocket
    prompts,      \* questions that clients see and have not answered
    sent,         \* messages sent that create a request
    extra,        \* "data" and "error" messages sent
    device,       \* RPCs written to a channel and not fully answered
    data,         \* reply data waiting in a channel
    eof,          \* channels the device has closed
    down,         \* sessions the device has closed
    \* --- history, read by the properties only
    trusted,      \* sessions whose host key matched or was accepted
    authStarted,  \* sessions on which user authentication was attempted
    authed,       \* sessions on which user authentication succeeded
    got,          \* RPCs whose data was relayed under a request's name
    answers,      \* the final messages sent for a request
    tainted       \* channels released while an RPC was running on them

lasts   == <<lastSock, lastRequest, lastChannel>>
stores  == <<known, saved, cached>>
memory  == <<socks, sock, requests, request, channel, lasts, stores>>
buffer  == <<rbuf, reqid>>
loop    == <<pc, cursor, shifted, buffer, todo>>
clients == <<inbox, peer, prompts, sent, extra>>
devices == <<device, data, eof, down>>
attempt == <<trusted, authStarted, authed>>
history == <<attempt, got, answers, tainted>>
vars    == <<memory, loop, clients, devices, history>>

-----------------------------------------------------------------------------
(* Reading the lists *)

Newest(S) == IF S = {} THEN None ELSE CHOOSE x \in S : \A y \in S : y <= x

Websockets == {s \in socks : sock[s].kind = "websocket"}
Sessions   == {s \in socks : sock[s].kind = "session"}

\* mx_session_find: the first, that is the newest, session to a target
SessionFind(t) == Newest({s \in Sessions : sock[s].target = t})

\* mx_request_find: by request id if there is one, else the newest with muxid
RequestFind(m, id) ==
    IF id # None THEN Newest(requests \cap {id})
                 ELSE Newest({r \in requests : request[r].muxid = m})

InUse(s)    == {c \in ChannelId : channel[c].list = "inuse" /\ channel[c].session = s}
Released(s) == {c \in ChannelId : channel[c].list = "released" /\ channel[c].session = s}

\* A mutant of ChannelFor: a channel in use counts as released
ChannelForAny(s) ==
    IF InUse(s) \cup Released(s) # {} THEN InUse(s) \cup Released(s)
    ELSE IF lastChannel < MaxChannel THEN {lastChannel + 1} ELSE {None}

\* The channels mx_channel_netconf may return for a session; None for NULL
ChannelFor(s) ==
    IF Released(s) # {} THEN Released(s)
    ELSE (IF lastChannel < MaxChannel /\ s \notin down THEN {lastChannel + 1} ELSE {})
         \cup (IF "channel" \in Faults \/ s \in down THEN {None} ELSE {})

\* A mutant of SetState: the session is forgotten
SetStateOfClient(S, st) ==
    [s \in SockId |-> IF s \in S /\ sock[s].kind = "websocket"
                      THEN [sock[s] EXCEPT !.state = st] ELSE sock[s]]

\* mx_request_set_state, on the sockets it reaches
SetState(S, st) == [s \in SockId |-> IF s \in S THEN [sock[s] EXCEPT !.state = st]
                                                ELSE sock[s]]

-----------------------------------------------------------------------------
(* mx_sock_close, the session's half *)

\* mx_request_error: the final word to a client, and no more than MSS_ERROR
Errors(R, n) == [r \in RequestId |->
                    answers[r] \o (IF r \in R THEN [i \in 1..n |-> "error"] ELSE <<>>)]

\* A mutant of Freed: the request stays on the list
FreedNever(F) == requests

\* mx_request_free: what is on the list without the requests F
Freed(F) == requests \ F

\* What mx_request_release_session and mx_request_release_client leave of a request
Failed(r) == [r EXCEPT !.state = "FAILED", !.client = None, !.session = None,
                       !.channel = None]

\* A channel whose memory is freed, or was never allocated
NoChannel == [list |-> "none", session |-> None, state |-> "RPC_INITIAL",
              client |-> None, request |-> None, eoframe |-> FALSE]

\* Close session s, when R are the requests on the list, sk the states of the
\* sockets and D the requests that are told of an error before.  Its requests
\* are told "session failure"; its channels, the released ones too, are gone.
CloseSession(s, R, sk, D) ==
    LET mine == {r \in R : s # None /\ request[r].session = s}
        told == {r \in mine : request[r].client # None}
        gone == InUse(s) \cup Released(s)
    IN  /\ socks'    = socks \ {s}
        /\ sock'     = [x \in SockId |-> IF \E r \in told : request[r].client = x
                                         THEN [sk[x] EXCEPT !.state = "ERROR"]
                                         ELSE sk[x]]
        /\ requests' = R
        /\ request'  = [r \in RequestId |-> IF r \in mine THEN Failed(request[r])
                                                         ELSE request[r]]
        /\ channel'  = [c \in ChannelId |-> IF c \in gone THEN NoChannel ELSE channel[c]]
        /\ answers'  = Errors(told \cup D, 1)
        /\ device'   = [c \in ChannelId |-> IF c \in gone THEN <<>> ELSE device[c]]
        /\ data'     = [c \in ChannelId |-> IF c \in gone THEN <<>> ELSE data[c]]
        /\ eof'      = eof \ gone
        /\ down'     = down \ {s}
        /\ UNCHANGED <<lasts, stores, clients, attempt, got, tainted>>
=============================================================================
