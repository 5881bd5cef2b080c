----------------------------- MODULE MixerLoop -----------------------------
(***************************************************************************)
(* main_loop: a pass over the sockets to prepare poll() and to close one   *)
(* that has failed, a pass that visits each socket, and the health check   *)
(* of the requests.  The poller of a session relays replies to clients.    *)
(***************************************************************************)
EXTENDS MixerState

-----------------------------------------------------------------------------
(* Sockets that are closed *)

\* mx_websocket_close: its requests are failed, and a channel on which one of
\* them has its RPC is released, whatever the device still has to say on it; the
\* other channels in use for w lose their client
CloseWebsocket(w) ==
    LET mine    == {r \in requests : request[r].client = w}
        running == {r \in mine : request[r].state = "ESTABLISHED" /\ request[r].channel # None}
        release == {request[r].channel : r \in running}
    IN  /\ socks'   = socks \ {w}
        /\ request' = [r \in RequestId |-> IF r \in mine THEN Failed(request[r])
                                                       ELSE request[r]]
        /\ channel' = [c \in ChannelId |->
              IF c \in release
              THEN [channel[c] EXCEPT !.list = IF @ = "none" THEN @ ELSE "released",
                                      !.client = None, !.request = None]
              ELSE IF channel[c].client = w THEN [channel[c] EXCEPT !.client = None]
              ELSE channel[c]]
        /\ tainted' = tainted \cup {c \in release : device[c] # <<>> \/ data[c] # <<>>}
        /\ inbox'   = [inbox EXCEPT ![w] = <<>>]
        /\ peer'    = [peer EXCEPT ![w] = "closed"]
        /\ prompts' = {p \in prompts : p.to # w}
        /\ pc'      = IF \E c \in release : channel[c].list = "none" THEN "crashed" ELSE "prep"
        /\ UNCHANGED <<sock, requests, lasts, stores, sent, extra, devices, attempt,
                       got, answers>>

\* The failure label of main_loop: one socket is closed, the loop starts over
Close(s) ==
    /\ \/ sock[s].kind = "websocket" /\ CloseWebsocket(s)
       \/ sock[s].kind = "session" /\ CloseSession(s, requests, sock, {}) /\ pc' = "prep"
    /\ cursor' = None /\ shifted' = FALSE /\ rbuf' = <<>> /\ reqid' = None /\ todo' = {}

FailedSocks == {s \in socks : sock[s].state = "FAILED"}

\* The first pass of main_loop, up to the first socket found to have failed
PrepFails == pc = "prep" /\ FailedSocks # {} /\ Close(Newest(FailedSocks))

\* poll() returns, with input or after POLL_TIMEOUT: the second pass begins
Poll == /\ pc = "prep" /\ FailedSocks = {}
        /\ pc' = "pass" /\ cursor' = MaxSock + 1
        /\ UNCHANGED <<memory, shifted, buffer, todo, clients, devices, history>>

-----------------------------------------------------------------------------
(* The second pass of main_loop: every socket that was there is visited once *)

Readable(s) == \E c \in InUse(s) \cup Released(s) : data[c] # <<>> \/ c \in eof

\* Sockets at which there is something to do.  Those in READ_EOF are not polled,
\* unless the poll owner that stands at their position is another socket's.
Busy(s) == \/ s \in FailedSocks
           \/ /\ sock[s].kind = "websocket"
              /\ IF sock[s].state = "READ_EOF" THEN shifted
                 ELSE inbox[s] # <<>> \/ peer[s] # "open"
           \/ sock[s].kind = "session" /\ (s \in down \/ Readable(s))

\* The pass comes to s; a socket that has failed by then ends the pass
Visiting(s) ==
    /\ pc = "pass" /\ cursor \notin FailedSocks
    /\ s = Newest({x \in socks : x < cursor /\ Busy(x)})
    /\ cursor' = s

ClosesVisited == pc = "pass" /\ cursor \in FailedSocks /\ Close(cursor)

\* mx_websocket_poller, with input: all there is goes into the buffer
WebsocketReceives(w) ==
    /\ Visiting(w)
    /\ sock[w].kind = "websocket" /\ sock[w].state # "READ_EOF" /\ inbox[w] # <<>>
    /\ rbuf'  = inbox[w]
    /\ inbox' = [inbox EXCEPT ![w] = <<>>]
    /\ pc'    = "handle"
    /\ UNCHANGED <<memory, shifted, reqid, todo, peer, prompts, sent, extra, devices,
                   history>>

\* mx_websocket_poller, when recv() returns zero: the websocket stays only if it
\* has completed more requests than it made
WebsocketDisconnects(w) ==
    /\ Visiting(w)
    /\ sock[w].kind = "websocket" /\ sock[w].state # "READ_EOF"
    /\ inbox[w] = <<>> /\ peer[w] = "closed"
    /\ sock' = [sock EXCEPT ![w].state = IF sock[w].made < sock[w].complete
                                         THEN "READ_EOF" ELSE "FAILED"]
    /\ UNCHANGED <<pc, socks, requests, request, channel, lasts, stores, shifted,
                   buffer, todo, clients, devices, history>>

\* mx_websocket_poller, when recv() fails: the error is reported once
WebsocketReadError(w) ==
    /\ Visiting(w)
    /\ sock[w].kind = "websocket" /\ sock[w].state # "READ_EOF"
    /\ inbox[w] = <<>> /\ peer[w] = "reset"
    /\ sock' = [sock EXCEPT ![w].state = "READ_EOF"]
    /\ peer' = [peer EXCEPT ![w] = "closed"]
    /\ UNCHANGED <<pc, socks, requests, request, channel, lasts, stores, shifted,
                   buffer, todo, inbox, prompts, sent, extra, devices, history>>

\* mx_websocket_poller for a READ_EOF websocket, with the POLLIN of another socket
WebsocketMispolled(w) ==
    /\ Visiting(w)
    /\ sock[w].kind = "websocket" /\ sock[w].state = "READ_EOF"
    /\ sock' = [sock EXCEPT ![w].state = "FAILED"]
    /\ UNCHANGED <<pc, socks, requests, request, channel, lasts, stores, shifted,
                   buffer, todo, clients, devices, history>>

\* A socket that failed since poll() and has nothing to read; the poller of a
\* session that has failed reads its channels first
VisitFailed(s) ==
    /\ Visiting(s)
    /\ sock[s].kind = "websocket" /\ sock[s].state = "FAILED"
    /\ inbox[s] = <<>> /\ peer[s] = "open"
    /\ UNCHANGED <<memory, pc, shifted, buffer, todo, clients, devices, history>>

VisitSession(s) ==
    /\ Visiting(s)
    /\ sock[s].kind = "session"
    /\ pc' = "input" /\ todo' = InUse(s)
    /\ UNCHANGED <<memory, shifted, buffer, clients, devices, history>>

-----------------------------------------------------------------------------
(* mx_session_poller *)

\* A mutant of AtEndOfFrame: the first chunk of a reply ends it
AtEndOfFrameAtOnce(c) == TRUE

\* mx_channel_handle_input sees the end of a frame
AtEndOfFrame(c) == channel[c].eoframe \/ Head(data[c]).last

\* The channel has work for the loop over the channels in use.  A read that
\* meets the end of the channel drops what it has read.
HasChunk(c) == Len(data[c]) > (IF c \in eof THEN 1 ELSE 0)

\* mx_channel_release; detached whatever it was doing
ReleasedFrom(ch) == [ch EXCEPT !.list = "released", !.client = None, !.request = None]

\* A mutant of Discard: without a client, the channel is released at once
DiscardEarly(ch, d) == ReleasedFrom([ch EXCEPT !.state = "RPC_COMPLETE"])

\* One chunk for a channel without a client: discarded, but the frame is watched
Discard(ch, d) ==
    LET ef   == ch.eoframe \/ d.last
        done == ef /\ ch.state \in {"RPC_INITIAL", "RPC_IDLE"}
    IN  IF done THEN ReleasedFrom([ch EXCEPT !.state = "RPC_COMPLETE", !.eoframe = FALSE])
        ELSE IF ch.state = "RPC_COMPLETE" THEN ReleasedFrom([ch EXCEPT !.eoframe = ef])
        ELSE [ch EXCEPT !.eoframe = ef]

\* The loop stays on a channel until there is nothing left in it, also when it
\* is released meanwhile; then TAILQ_NEXT leads it on into the released channels
TodoAfter(c) == IF channel[c].list = "inuse" /\ channel'[c].list = "released"
                THEN {c} \cup Released(cursor) ELSE todo

Reading(c) ==
    /\ pc = "input" /\ c \in todo /\ HasChunk(c)
    /\ data' = [data EXCEPT ![c] = Tail(@)]

InputDiscarded(c) ==
    /\ Reading(c)
    /\ channel[c].client = None
    /\ channel' = [channel EXCEPT ![c] = Discard(@, Head(data[c]))]
    /\ todo'    = TodoAfter(c)
    /\ UNCHANGED <<pc, socks, sock, requests, request, lasts, stores, cursor, shifted,
                   buffer, clients, device, eof, down, history>>

\* mx_websocket_write: the chunk goes to the client under the muxid of the
\* request of the channel.  A client that has closed its end makes the kernel
\* answer with a reset.  At the end of the frame of an RPC, the client is told
\* "complete" and the request and the channel are released.
InputRelayed(c) ==
    LET w    == channel[c].client
        id   == channel[c].request
        r    == request[id]
        done == AtEndOfFrame(c)
        st   == IF r.state = "ESTABLISHED" THEN "ESTABLISHED" ELSE "NORMAL"
        end  == [SetState({r.client, r.session}, st) EXCEPT ![w].complete = @ + 1]
    IN  /\ Reading(c)
        /\ w # None /\ id \in requests /\ peer[w] # "reset"
        /\ got'  = [got EXCEPT ![id] = @ \cup {Head(data[c]).rpc}]
        /\ peer' = [peer EXCEPT ![w] = IF @ = "closed" THEN "reset" ELSE @]
        /\ IF done
           THEN /\ channel'  = [channel EXCEPT ![c] =
                                  ReleasedFrom([@ EXCEPT !.state = "RPC_COMPLETE",
                                                         !.eoframe = FALSE])]
                /\ sock'     = IF sock[w].state = "READ_EOF"
                               THEN [end EXCEPT ![w].state = "FAILED"] ELSE end
                /\ requests' = Freed({id})
                /\ answers'  = [answers EXCEPT ![id] = Append(@, "complete")]
           ELSE /\ channel' = [channel EXCEPT ![c].state = "RPC_IDLE"]
                /\ UNCHANGED <<sock, requests, answers>>
        /\ todo' = TodoAfter(c)
        /\ UNCHANGED <<pc, socks, request, lasts, stores, cursor, shifted, buffer,
                       inbox, prompts, sent, extra, device, eof, down, attempt, tainted>>

\* A request that was freed while its channel was in use is used and freed again
InputForFreedRequest(c) ==
    /\ Reading(c)
    /\ channel[c].client # None /\ channel[c].request \notin requests
    /\ pc' = "crashed"
    /\ UNCHANGED <<memory, cursor, shifted, buffer, todo, clients, device, eof, down,
                   history>>

\* write() fails with EPIPE: mx_websocket_write moves the start of the buffer one
\* back, says it did not block, and is called again, and again
InputSpins(c) ==
    /\ Reading(c)
    /\ channel[c].client # None /\ channel[c].request \in requests
    /\ peer[channel[c].client] = "reset"
    /\ pc' = "spinning"
    /\ UNCHANGED <<memory, cursor, shifted, buffer, todo, clients, device, eof, down,
                   history>>

\* A channel the device has closed ends its session
InputAtEof(c) ==
    /\ pc = "input" /\ c \in todo /\ ~ HasChunk(c) /\ c \in eof
    /\ CloseSession(cursor, requests, sock, {})
    /\ pc' = "prep" /\ cursor' = None /\ shifted' = FALSE /\ todo' = {}
    /\ UNCHANGED <<buffer>>

\* All is read; reading from a connection that is gone fails the session
InputDone(s) ==
    /\ pc = "input" /\ cursor = s
    /\ \A c \in todo : ~ HasChunk(c) /\ c \notin eof
    /\ sock' = IF s \in down THEN [sock EXCEPT ![s].state = "FAILED"] ELSE sock
    /\ pc' = "drain" /\ todo' = {}
    /\ UNCHANGED <<socks, requests, request, channel, lasts, stores, cursor, shifted,
                   buffer, clients, devices, history>>

\* The loop over the released channels: each that has something to say is read
\* once, and the last of them is closed
Drain(s) ==
    LET noisy == {c \in Released(s) : data[c] # <<>> \/ c \in eof}
        heard == {c \in noisy : HasChunk(c)}
    IN  /\ pc = "drain" /\ cursor = s
        /\ pc' = "pass"
        /\ IF noisy = {} THEN UNCHANGED <<channel, device, data, eof>>
           ELSE \E dead \in noisy :
              /\ channel' = [c \in ChannelId |->
                    IF c = dead THEN NoChannel
                    ELSE IF c \in heard THEN Discard(channel[c], Head(data[c]))
                    ELSE channel[c]]
              /\ data'    = [c \in ChannelId |->
                    IF c = dead \/ (c \in noisy /\ c \notin heard) THEN <<>>
                    ELSE IF c \in heard THEN Tail(data[c]) ELSE data[c]]
              /\ device'  = [device EXCEPT ![dead] = <<>>]
              /\ eof'     = eof \ {dead}
        /\ UNCHANGED <<socks, sock, requests, request, lasts, stores, cursor, shifted,
                       buffer, todo, clients, down, history>>

SessionPoller(s) == InputDone(s) \/ Drain(s)
ChannelInput(c)  == \/ InputDiscarded(c) \/ InputRelayed(c) \/ InputForFreedRequest(c)
                    \/ InputSpins(c) \/ InputAtEof(c)

-----------------------------------------------------------------------------
(* The end of a pass: the listener, which is last in the list, and the requests *)

NewWebsocket == [kind |-> "websocket", state |-> "NORMAL", target |-> NoTarget,
                 pwfail |-> 0, made |-> 0, complete |-> 0]

Unhealthy == {r \in requests : request[r].state \in {"ERROR", "FAILED"}}

\* A mutant of HealthyState: what has failed counts as established, too
HealthyStateAlways(s) ==
    IF \E r \in Unhealthy : s \in {request[r].client, request[r].session}
    THEN "ESTABLISHED" ELSE sock[s].state

\* mx_request_check_health: the requests it releases, newest first, each leave
\* their mark on their client and session; the oldest has the last word
HealthyState(s) ==
    LET touching == {r \in Unhealthy : s \in {request[r].client, request[r].session}}
        oldest   == CHOOSE r \in touching : \A q \in touching : r <= q
    IN  IF touching = {} THEN sock[s].state
        ELSE IF request[oldest].state = "ERROR" THEN "ESTABLISHED" ELSE "NORMAL"

HealthySocks == [s \in SockId |-> [sock[s] EXCEPT !.state = HealthyState(s)]]

EndPass ==
    /\ pc = "pass" /\ cursor \notin FailedSocks
    /\ \A s \in socks : s < cursor => ~ Busy(s)
    /\ requests' = Freed(Unhealthy)
    /\ pc' = "prep" /\ cursor' = None /\ shifted' = FALSE
    /\ UNCHANGED <<request, channel, lastRequest, lastChannel, stores, buffer, todo,
                   inbox, prompts, sent, extra, devices, history>>

EndPassIdle == /\ EndPass
               /\ sock' = HealthySocks
               /\ UNCHANGED <<socks, lastSock, peer>>

EndPassAccepts ==
    LET w == lastSock + 1
    IN  /\ EndPass
        /\ lastSock < MaxSock
        /\ Cardinality({s \in SockId : s <= lastSock /\ sock[s].kind = "websocket"}) < MaxClient
        /\ lastSock' = w
        /\ socks'    = socks \cup {w}
        /\ sock'     = [HealthySocks EXCEPT ![w] = NewWebsocket]
        /\ peer'     = [peer EXCEPT ![w] = "open"]
=============================================================================
