------------------------------- MODULE Muxer -------------------------------
(***************************************************************************)
(* The muxer of CLIRA (web/core/clira.muxer.js): the object through which  *)
(* a page talks to the mixer over a websocket.  An action is one callback  *)
(* of the browser or one call of the page, which JavaScript runs to its    *)
(* end.                                                                    *)
(*                                                                         *)
(* A page has one muxer at a time (clira.js: openMuxer).  The model follows *)
(* one muxer object from openMuxer on; dropped says that the page has      *)
(* forgotten it.  Views remember the muxer of the RPC they show, and may   *)
(* still send data through it.                                             *)
(***************************************************************************)
EXTENDS Integers, Sequences, FiniteSets, SequencesExt

CONSTANTS
    MaxRpc,      \* bound: RPCs of the page
    MaxSocket,   \* bound: websockets ever opened
    MaxData,     \* bound: data messages of the page
    MaxReply,    \* bound: reply frames for one RPC
    FrameLen,    \* pieces into which a frame may be cut
    MaxPiece,    \* bound: pieces of frames in one websocket message
    Losses       \* whether connections get lost

ASSUME MuxerAssumption ==
    /\ {MaxRpc, MaxData, MaxReply} \subseteq Nat
    /\ {MaxSocket, MaxPiece} \subseteq Nat \ {0} /\ FrameLen \in Nat \ {0, 1}
    /\ Losses \in BOOLEAN

Rpc    == 1..MaxRpc        \* the muxids of RPCs, in the order of mx_muxid
Auth   == MaxRpc + 1       \* the muxid the muxer was created with
Socket == 1..MaxSocket
None   == 0                \* undefined, and the muxid and websocket id zero
Final  == {"complete", "error", "close"}

\* What goes up to the mixer, and the pieces of frames that come down.  The first
\* piece of a frame holds all of its header.
Message == [op : {"authinit", "rpc", "data"}, muxid : Rpc \cup {Auth, None}]
Piece   == [op : {"authinit", "reply", "complete", "error"},
            muxid : Rpc \cup {Auth, None}, head : BOOLEAN]

VARIABLES
    \* --- the muxer
    ws, opening, opened, pendingMessages, authmuxid, authwebsocketid, queue, muxMap,
    reading, data,
    \* --- the page
    lastRpc,     \* mx_muxid: RPCs asked for
    dropped,     \* the page has forgotten the muxer
    sentData,    \* data messages sent
    told,        \* the callbacks each RPC has had
    \* --- websockets
    lastSocket,  \* websockets opened
    ready,       \* readyState of each websocket
    up,          \* everything the mixer has received from each websocket
    served,      \* which of that, by position, the mixer is done with
    down,        \* pieces under way to the page
    replied      \* reply frames sent for each RPC

muxer  == <<ws, opening, opened, pendingMessages, authmuxid, authwebsocketid, queue,
            muxMap>>
stream == <<reading, data>>
page   == <<lastRpc, dropped, sentData, told>>
mixer  == <<served, down, replied>>
vars   == <<muxer, stream, page, lastSocket, ready, up, mixer>>

-----------------------------------------------------------------------------
(* Sending *)

IsOpen == ws # None /\ ready[ws] = "open"

Authinit(id) == [op |-> "authinit", muxid |-> id]

\* muxerSendMessage for each of ms, and muxerOpen if that needs a websocket.  map
\* is the muxMap by then; it gains the entry of authmuxid when a websocket opens.
SendMessages(ms, map) ==
    IF IsOpen
    THEN /\ up'     = [up EXCEPT ![ws] = @ \o ms]
         /\ muxMap' = map
         /\ UNCHANGED <<ws, opening, opened, pendingMessages, lastSocket, ready>>
    ELSE IF opening
    THEN /\ pendingMessages' = pendingMessages \o ms
         /\ muxMap' = map
         /\ UNCHANGED <<ws, opening, opened, lastSocket, ready, up>>
    ELSE /\ lastSocket < MaxSocket
         /\ lastSocket' = lastSocket + 1
         /\ ws'         = lastSocket'
         /\ ready'      = [ready EXCEPT ![ws'] = "connecting"]
         /\ opening'    = TRUE /\ opened' = FALSE
         /\ pendingMessages' = pendingMessages \o <<Authinit(authmuxid)>> \o ms
         /\ muxMap'     = map \cup {authmuxid}
         /\ UNCHANGED up

-----------------------------------------------------------------------------
(* The page *)

\* A mutant of MustQueue: only a muxer that is not open queues
MustQueueClosed == ~ opening

MustQueue == authwebsocketid = None

\* muxerRpc.  An RPC that has to wait for the answer to authinit is queued.
PageRpc ==
    /\ ~ dropped /\ lastRpc < MaxRpc
    /\ lastRpc' = lastRpc + 1
    /\ IF MustQueue
       THEN /\ queue' = Append(queue, lastRpc')
            /\ UNCHANGED <<ws, opening, opened, pendingMessages, muxMap, lastSocket,
                           ready, up>>
       ELSE /\ SendMessages(<<[op |-> "rpc", muxid |-> lastRpc']>>, muxMap \cup {lastRpc'})
            /\ UNCHANGED queue
    /\ UNCHANGED <<authmuxid, authwebsocketid, stream, dropped, sentData, told, mixer>>

\* muxerSendData, for an RPC whose muxid a view has been given
PageData ==
    /\ sentData < MaxData
    /\ sentData' = sentData + 1
    /\ \E r \in 1..lastRpc :
          /\ \A i \in DOMAIN queue : queue[i] # r
          /\ SendMessages(<<[op |-> "data", muxid |-> r]>>, muxMap)
    /\ UNCHANGED <<authmuxid, authwebsocketid, queue, stream, lastRpc, dropped, told,
                   mixer>>

\* muxerClose, when the user names another mixer; the page drops the muxer
PageCloses ==
    /\ ~ dropped
    /\ dropped' = TRUE
    /\ ready' = IF opening THEN [ready EXCEPT ![ws] = "closing"] ELSE ready
    /\ ws' = None /\ opening' = FALSE /\ opened' = FALSE
    /\ UNCHANGED <<pendingMessages, authmuxid, authwebsocketid, queue, muxMap, stream,
                   lastRpc, sentData, told, lastSocket, up, mixer>>

-----------------------------------------------------------------------------
(* Callbacks of a websocket *)

\* onopen.  What is pending goes to muxer.ws, whichever that is.  When that is
\* closing it is lost without a sound; when it is not open yet, or there is none,
\* send() throws after the first message has been taken out.
SocketOpens(w) ==
    /\ ready[w] = "connecting"
    /\ ready'  = [ready EXCEPT ![w] = "open"]
    /\ opened' = TRUE
    /\ LET state == IF ws = None THEN "none" ELSE ready'[ws]
       IN  /\ up' = IF state = "open" THEN [up EXCEPT ![ws] = @ \o pendingMessages] ELSE up
           /\ pendingMessages' = IF state \in {"open", "closing"} \/ pendingMessages = <<>>
                                 THEN <<>> ELSE Tail(pendingMessages)
    /\ UNCHANGED <<ws, opening, authmuxid, authwebsocketid, queue, muxMap, stream, page,
                   lastSocket, mixer>>

\* A mutant of Entries: the auth entry is not one of them
EntriesNone(ids) == {}

\* The RPCs among the entries of the muxMap
Entries(ids) == ids \cap Rpc

\* forceClose, for the muxer as it is now, whichever websocket it has; the onclose
\* of the page forgets the muxer, then the RPCs are told
ForceClose ==
    /\ dropped' = TRUE
    /\ told'    = [r \in Rpc |-> IF r \in Entries(muxMap) THEN Append(told[r], "close")
                                                         ELSE told[r]]
    /\ ws' = None /\ opening' = FALSE /\ opened' = FALSE
    /\ muxMap' = {} /\ authmuxid' = None /\ authwebsocketid' = None
    /\ UNCHANGED <<pendingMessages, queue, stream, lastRpc, sentData, lastSocket, up,
                   mixer>>

\* The close event of websocket w, and before it, if it comes of a failure, its
\* onerror, which closes the websocket that the muxer has
Closed(w) ==
    /\ \/ ready' = [ready EXCEPT ![w] = "closed"]
       \/ ready' = [x \in Socket |-> IF x = w THEN "closed"
                                     ELSE IF x = ws THEN "closing" ELSE ready[x]]
    /\ ForceClose

\* The page, a bad header or an onerror has closed the websocket
SocketCloses(w) == ready[w] = "closing" /\ Closed(w)

\* The connection is lost, or cannot be made
ConnectionLost(w) == Losses /\ ready[w] \in {"connecting", "open"} /\ Closed(w)

-----------------------------------------------------------------------------
(* onmessage and muxerMessage *)

\* Pieces come as they were sent: a header, then the rest of its frame
Aligned(s) == \A i \in DOMAIN s : s[i].head = (i % FrameLen = 1)

\* A mutant of WholeFrames: what is behind the first frame is ignored
WholeFramesFirst(s) == IF Aligned(s) /\ Len(s) >= FrameLen THEN <<s[1]>> ELSE <<>>

\* The frames that are all there, each as its header
WholeFrames(s) ==
    IF Aligned(s) THEN [i \in 1..(Len(s) \div FrameLen) |-> s[FrameLen * (i - 1) + 1]]
                  ELSE <<>>

\* A mutant of Missing: what is there is taken for what is missing
MissingSwapped(s) == IF Aligned(s) THEN Len(s) % FrameLen ELSE 0

\* What the last frame still lacks
Missing(s) == IF Aligned(s) THEN (FrameLen - (Len(s) % FrameLen)) % FrameLen ELSE 0

\* The frames of F, by position, whose callback RPC r gets: those up to its last
IsFinal(f) == f.op \in Final
Mine(F, r)  == {i \in DOMAIN F : r \in muxMap /\ F[i].muxid = r}
Heard(F, r) == {i \in Mine(F, r) : \A j \in Mine(F, r) : IsFinal(F[j]) => i <= j}

\* The member of the set of positions S that has k - 1 smaller ones
Nth(S, k) == CHOOSE i \in S : Cardinality({j \in S : j <= i}) = k

\* The callbacks that frames F bring RPC r, in their order
Callbacks(F, r) == [k \in 1..Cardinality(Heard(F, r)) |-> F[Nth(Heard(F, r), k)].op]

\* A mutant of Finished: an error is not the end
FinishedComplete(F) == {r \in Rpc : \E i \in Heard(F, r) : F[i].op = "complete"}

Finished(F) == {r \in Rpc : \E i \in Heard(F, r) : IsFinal(F[i])}

\* The callbacks of the frames in s, the queue being run by that of authinit.  A
\* frame that is not all there waits for the rest; a bad header closes the websocket.
Dispatch(w, s) ==
    LET F == WholeFrames(s)
    IN  /\ told' = [r \in Rpc |-> told[r] \o Callbacks(F, r)]
        /\ reading' = Missing(s)
        /\ data'    = IF Aligned(s) THEN SubSeq(s, FrameLen * Len(F) + 1, Len(s)) ELSE <<>>
        /\ IF \E i \in DOMAIN F : F[i].op = "authinit" /\ F[i].muxid \in muxMap
           THEN /\ authwebsocketid' = w
                /\ queue' = <<>>
                /\ IF queue = <<>>
                   THEN /\ muxMap' = muxMap \ Finished(F)
                        /\ UNCHANGED <<ws, opening, opened, pendingMessages, lastSocket,
                                       ready, up>>
                   ELSE SendMessages([i \in DOMAIN queue |-> [op |-> "rpc", muxid |-> queue[i]]],
                                     (muxMap \ Finished(F)) \cup ToSet(queue))
           ELSE /\ muxMap' = muxMap \ Finished(F)
                /\ ready'  = IF Aligned(s) \/ ws = None THEN ready
                             ELSE [ready EXCEPT ![ws] = "closing"]
                /\ UNCHANGED <<authwebsocketid, queue, ws, opening, opened,
                               pendingMessages, lastSocket, up>>

\* One websocket message, with the next n pieces
Receives(w, n) ==
    LET new == SubSeq(down[w], 1, n)
        all == IF reading > 0 THEN data \o new ELSE new
    IN  /\ ready[w] = "open" /\ n \in 1..Len(down[w])
        /\ down' = [down EXCEPT ![w] = SubSeq(@, n + 1, Len(@))]
        /\ IF reading > n
           THEN /\ data' = all /\ reading' = reading - n
                /\ UNCHANGED <<muxer, told, lastSocket, ready, up>>
           ELSE Dispatch(w, all)
        /\ UNCHANGED <<authmuxid, lastRpc, dropped, sentData, served, replied>>

SocketReceives(w) == \E n \in 1..MaxPiece : Receives(w, n)

-----------------------------------------------------------------------------
(* The mixer, as a page sees it: it answers an authinit at once, and an RPC with *)
(* pieces of a reply and "complete", or with "error", or twice with "error"      *)

Frame(op, id) == [i \in 1..FrameLen |-> [op |-> op, muxid |-> id, head |-> i = 1]]

MixerSends(w, i, frames, done) ==
    /\ ready[w] = "open"
    /\ i \in DOMAIN up[w] \ served[w]
    /\ down'   = [down EXCEPT ![w] = @ \o frames]
    /\ served' = IF done THEN [served EXCEPT ![w] = @ \cup {i}] ELSE served
    /\ UNCHANGED <<muxer, stream, page, lastSocket, ready, up>>

MixerAuthenticates(w, i) ==
    /\ MixerSends(w, i, Frame("authinit", up[w][i].muxid), TRUE)
    /\ up[w][i].op = "authinit"
    /\ UNCHANGED replied

MixerReplies(w, i) ==
    LET r == up[w][i].muxid
    IN  /\ MixerSends(w, i, Frame("reply", r), FALSE)
        /\ up[w][i].op = "rpc" /\ replied[r] < MaxReply
        /\ replied' = [replied EXCEPT ![r] = @ + 1]

MixerFinishes(w, i) ==
    LET r == up[w][i].muxid
    IN  /\ \E end \in {Frame("complete", r), Frame("error", r),
                       Frame("error", r) \o Frame("error", r)} : MixerSends(w, i, end, TRUE)
        /\ up[w][i].op = "rpc"
        /\ UNCHANGED replied

MixerAnswers(w) == \E i \in DOMAIN up[w] : MixerAuthenticates(w, i) \/ MixerFinishes(w, i)

-----------------------------------------------------------------------------
\* openMuxer has just created and opened the muxer
Init ==
    /\ ws = 1 /\ opening = TRUE /\ opened = FALSE
    /\ authmuxid = Auth /\ authwebsocketid = None
    /\ pendingMessages = <<Authinit(Auth)>>
    /\ queue = <<>> /\ muxMap = {Auth}
    /\ reading = 0 /\ data = <<>>
    /\ lastRpc = 0 /\ dropped = FALSE /\ sentData = 0
    /\ told = [r \in Rpc |-> <<>>]
    /\ lastSocket = 1
    /\ ready   = [w \in Socket |-> IF w = 1 THEN "connecting" ELSE "none"]
    /\ up      = [w \in Socket |-> <<>>]
    /\ served  = [w \in Socket |-> {}]
    /\ down    = [w \in Socket |-> <<>>]
    /\ replied = [r \in Rpc |-> 0]

Next == \/ PageRpc \/ PageData \/ PageCloses
        \/ \E w \in Socket : \/ SocketOpens(w) \/ SocketCloses(w) \/ ConnectionLost(w)
                             \/ SocketReceives(w)
                             \/ \E i \in DOMAIN up[w] : \/ MixerAuthenticates(w, i)
                                                        \/ MixerReplies(w, i)
                                                        \/ MixerFinishes(w, i)

Spec == Init /\ [][Next]_vars

\* The browser delivers what has happened, and the mixer answers; the page need
\* do nothing and connections need not be lost.
FairSpec == /\ Spec
            /\ \A w \in Socket : /\ WF_vars(SocketOpens(w)) /\ WF_vars(SocketCloses(w))
                                 /\ WF_vars(SocketReceives(w)) /\ WF_vars(MixerAnswers(w))

-----------------------------------------------------------------------------
\* The variables have the types of their JavaScript counterparts, and what is read
\* of a frame and what is missing make a frame.
TypeOK ==
    /\ ws \in Socket \cup {None} /\ {opening, opened, dropped} \subseteq BOOLEAN
    /\ pendingMessages \in Seq(Message)
    /\ authmuxid \in {Auth, None} /\ authwebsocketid \in Socket \cup {None}
    /\ queue \in Seq(Rpc) /\ muxMap \subseteq Rpc \cup {Auth, None}
    /\ data \in Seq(Piece)
    /\ reading = IF data = <<>> THEN 0 ELSE FrameLen - Len(data)
    /\ lastRpc \in 0..MaxRpc /\ sentData \in 0..MaxData
    /\ told \in [Rpc -> Seq(Final \cup {"reply"})]
    /\ lastSocket \in Socket
    /\ ready \in [Socket -> {"none", "connecting", "open", "closing", "closed"}]
    /\ up \in [Socket -> Seq(Message)] /\ served \in [Socket -> SUBSET Nat]
    /\ down \in [Socket -> Seq(Piece)] /\ replied \in [Rpc -> 0..MaxReply]

Ends(r) == {i \in DOMAIN told[r] : told[r][i] \in Final}

\* An RPC hears one of complete, error and close, once, and nothing after it,
\* whatever the mixer sends and whichever websockets close.
OneEnd == \A r \in Rpc : Ends(r) \subseteq {Len(told[r])}

\* By the time an RPC is complete it has had every piece of its reply, however
\* the stream of frames was cut into websocket messages.
WholeReplies ==
    \A r \in Rpc : Contains(told[r], "complete")
        => Cardinality({i \in DOMAIN told[r] : told[r][i] = "reply"}) = replied[r]

\* An RPC is sent on a websocket only after the mixer has answered the authinit
\* of that websocket: its authmuxid means something to the mixer.
AuthFirst ==
    \A w \in Socket : \A i \in DOMAIN up[w] : up[w][i].op = "rpc"
        => \E j \in 1..(i - 1) : up[w][j].op = "authinit" /\ j \in served[w]

\* Every RPC that was sent comes to an end for the page.
EverySentIsTold == \A r \in Rpc : r \in muxMap ~> Ends(r) # {}

\* The muxer implements the service the rest of the page relies on: what the callbacks
\* of an RPC have told so far is a state of RpcService, and each event of the browser
\* is a step of it, although one event may bring many frames, or the end of all RPCs.
Service ==
    INSTANCE RpcService WITH
        Rpc  <- Rpc,
        call <- [r \in Rpc |-> IF r > lastRpc THEN "idle"
                               ELSE IF Ends(r) = {} THEN "asked" ELSE Last(told[r])]

ImplementsService == Service!RpcSpec
=============================================================================
