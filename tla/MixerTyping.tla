---------------------------- MODULE MixerTyping -----------------------------
(***************************************************************************)
(* Type correctness of the mixer, for any number of clients, requests,     *)
(* sessions and channels: what the operators of the model return, what a   *)
(* message of a client may come to, and the theorem.                       *)
(***************************************************************************)
EXTENDS Mixer, TLAPS, WellFoundedInduction, SequenceTheorems

-----------------------------------------------------------------------------
(* Lemmas about the operators of the model *)

\* The newest of a set of ids is one of them: what a walk over a list of the
\* daemon finds first is on the list.
LEMMA NewestIsMember ==
    ASSUME NEW n \in Nat, NEW S \in SUBSET (1..n), S # {}
    PROVE  Newest(S) \in S /\ \A y \in S : y <= Newest(S)
<1> DEFINE T == {n - x : x \in S}
<1> DEFINE R == OpToRel(<, Nat)
<1>1. T \subseteq Nat /\ T # {}
  <2>1. PICK x \in S : TRUE
    OBVIOUS
  <2>2. n - x \in T
    BY <2>1
  <2>3. \A y \in S : n - y \in Nat
    OBVIOUS
  <2> QED BY <2>2, <2>3
<1>2. PICK m \in T : \A y \in T : ~ (<<y, m>> \in R)
  <2> HIDE DEF T
  <2> QED BY <1>1, NatLessThanWellFounded, WFMin
<1>3. ASSUME NEW y \in T PROVE m <= y
  <2>1. m \in Nat /\ y \in Nat
    BY <1>1
  <2>2. ~ (<<y, m>> \in {ss \in Nat \X Nat : ss[1] < ss[2]})
    BY <1>2 DEF OpToRel, R
  <2> QED BY <2>1, <2>2
<1>4. PICK x \in S : m = n - x
  BY DEF T
<1>5. ASSUME NEW y \in S PROVE y <= x
  <2>1. n - y \in T
    BY DEF T
  <2>2. m <= n - y
    BY <2>1, <1>3
  <2> QED BY <2>2, <1>4
<1> QED BY <1>4, <1>5 DEF Newest

\* The parts of the type invariant, by the variables they are about
LEMMA Frame ==
    /\ SocksOK /\ UNCHANGED <<socks, sock, lastSock>> => SocksOK'
    /\ RequestsOK /\ UNCHANGED <<requests, request, lastRequest>> => RequestsOK'
    /\ ChannelsOK /\ UNCHANGED <<channel, lastChannel>> => ChannelsOK'
    /\ StoresOK /\ UNCHANGED stores => StoresOK'
    /\ LoopOK /\ UNCHANGED loop => LoopOK'
    /\ ClientsOK /\ UNCHANGED clients => ClientsOK'
    /\ DevicesOK /\ UNCHANGED devices => DevicesOK'
    /\ HistoryOK /\ UNCHANGED history => HistoryOK'
BY DEF SocksOK, RequestsOK, ChannelsOK, StoresOK, LoopOK, ClientsOK, DevicesOK, HistoryOK,
       stores, loop, buffer, clients, devices, history, attempt

\* The bounds are natural numbers, and what is on a list is an id
LEMMA Bounds == /\ MaxSock \in Nat /\ MaxRequest \in Nat /\ MaxChannel \in Nat
                /\ ReplyChunks \in Nat \ {0} /\ MaxPwfail \in Nat
BY ConstantsAssumption

LEMMA SocksInRange == SocksOK => socks \subseteq SockId
BY Bounds DEF SocksOK, SockId

LEMMA RequestsInRange == RequestsOK => requests \subseteq RequestId
BY Bounds DEF RequestsOK, RequestId

LEMMA FrameMemory ==
    ASSUME SocksOK, RequestsOK, ChannelsOK, StoresOK, UNCHANGED memory
    PROVE  SocksOK' /\ RequestsOK' /\ ChannelsOK' /\ StoresOK'
BY Frame DEF memory, lasts, stores

-----------------------------------------------------------------------------
(* Clients and devices *)

LEMMA MessageIsTyped ==
    ASSUME NEW m \in [op: Operation, muxid: Muxid, reqid: RequestId \cup {None},
                      target: Target \cup {NoTarget}, authws: SockId \cup {None},
                      arg: {"yes", "text", "empty", "nocreate"}],
           m.op \in {"psphrase", "psword"} => m.arg \in Credential, m.op \in Ops
    PROVE  m \in Message
BY DEF Message

LEMMA SendsTypes ==
    ASSUME TypeOK, NEW w \in SockId, NEW m \in Message, Sends(w, m)
    PROVE  inbox' \in [SockId -> Seq(Message)]
BY DEF TypeOK, ClientsOK, Sends

LEMMA ClientRequestsTypes ==
    ASSUME TypeOK, NEW w \in SockId, ClientRequests(w)
    PROVE  TypeOK'
<1>1. inbox' \in [SockId -> Seq(Message)]
  <2>1. PICK m \in Muxid :
         \/ Sends(w, [op |-> "authinit", muxid |-> m, reqid |-> None, target |-> NoTarget,
                      authws |-> None, arg |-> "text"])
         \/ \E t \in Target, a \in AuthWebsockets \cup {None},
               arg \in {"text"} \cup ({"nocreate"} \cap Ops) :
              Sends(w, [op |-> "rpc", muxid |-> m, reqid |-> None, target |-> t,
                        authws |-> a, arg |-> arg])
    BY DEF ClientRequests
  <2>2. AuthWebsockets \subseteq SockId
    BY SocksInRange DEF TypeOK, AuthWebsockets, Websockets
  <2>3. CASE Sends(w, [op |-> "authinit", muxid |-> m, reqid |-> None, target |-> NoTarget,
                      authws |-> None, arg |-> "text"])
    <3> DEFINE a == [op |-> "authinit", muxid |-> m, reqid |-> None, target |-> NoTarget,
                      authws |-> None, arg |-> "text"]
    <3>1. a \in Message
      BY <2>3, MessageIsTyped DEF Sends, Operation
    <3> QED BY <2>3, <3>1, SendsTypes
  <2>4. ASSUME NEW t \in Target, NEW a \in AuthWebsockets \cup {None},
               NEW arg \in {"text"} \cup ({"nocreate"} \cap Ops),
              Sends(w, [op |-> "rpc", muxid |-> m, reqid |-> None, target |-> t,
                        authws |-> a, arg |-> arg])
        PROVE inbox' \in [SockId -> Seq(Message)]
    <3> DEFINE b == [op |-> "rpc", muxid |-> m, reqid |-> None, target |-> t,
                        authws |-> a, arg |-> arg]
    <3>1. b \in Message
      BY <2>2, <2>4, MessageIsTyped DEF Sends, Operation
    <3> QED BY <2>4, <3>1, SendsTypes
  <2> QED BY <2>1, <2>3, <2>4
<1>2. ClientsOK'
  BY <1>1 DEF TypeOK, ClientsOK, ClientRequests, ClientUnchanged
<1> QED BY <1>2, Frame, FrameMemory DEF TypeOK, ClientRequests, ClientUnchanged

LEMMA ClientAnswersTypes ==
    ASSUME TypeOK, NEW p \in prompts, ClientAnswers(p)
    PROVE  TypeOK'
<1>1. p \in Prompt /\ request[p.req] \in Request
  BY DEF TypeOK, ClientsOK, RequestsOK, Prompt
<1>2. PICK a \in Says(p.op) :
          Sends(p.to, [op |-> p.op, muxid |-> request[p.req].muxid, reqid |-> p.req,
                       target |-> NoTarget, authws |-> None, arg |-> a])
  BY DEF ClientAnswers
<1> DEFINE m == [op |-> p.op, muxid |-> request[p.req].muxid, reqid |-> p.req,
                 target |-> NoTarget, authws |-> None, arg |-> a]
<1>3. m \in Message
  <2>1. p.op \in PromptOp /\ p.req \in RequestId /\ request[p.req].muxid \in Muxid
    BY <1>1 DEF Prompt, Request
  <2>2. a \in {"yes", "text", "empty"} /\ (p.op # "hostkey" => a \in Credential)
    BY <2>1 DEF Says, PromptOp, Credential
  <2> QED BY <1>2, <2>1, <2>2, MessageIsTyped DEF Sends, Operation, PromptOp
<1>4. inbox' \in [SockId -> Seq(Message)]
  BY <1>1, <1>2, <1>3, SendsTypes DEF Prompt
<1>5. ClientsOK'
  BY <1>4 DEF TypeOK, ClientsOK, ClientAnswers, ClientUnchanged
<1> QED BY <1>5, Frame, FrameMemory DEF TypeOK, ClientAnswers, ClientUnchanged

LEMMA ClientFollowsUpTypes ==
    ASSUME TypeOK, NEW w \in SockId, ClientFollowsUp(w)
    PROVE  TypeOK'
<1>1. PICK m \in Muxid, op \in {"data", "error"} :
          Sends(w, [op |-> op, muxid |-> m, reqid |-> None, target |-> NoTarget,
                    authws |-> None, arg |-> "text"])
  BY DEF ClientFollowsUp
<1> DEFINE f == [op |-> op, muxid |-> m, reqid |-> None, target |-> NoTarget,
                 authws |-> None, arg |-> "text"]
<1>2. f \in Message
  BY <1>1, MessageIsTyped DEF Sends, Operation
<1>3. inbox' \in [SockId -> Seq(Message)]
  BY <1>1, <1>2, SendsTypes
<1>4. ClientsOK'
  BY <1>3 DEF TypeOK, ClientsOK, ClientFollowsUp, ClientUnchanged
<1> QED BY <1>4, Frame, FrameMemory DEF TypeOK, ClientFollowsUp, ClientUnchanged

LEMMA ClientLeavesTypes ==
    ASSUME TypeOK, NEW w \in SockId, ClientLeaves(w)
    PROVE  TypeOK'
<1>1. peer' \in [SockId -> {"open", "closed", "reset"}]
  BY DEF TypeOK, ClientsOK, ClientLeaves
<1>2. ClientsOK'
  BY <1>1 DEF TypeOK, ClientsOK, ClientLeaves
<1> QED BY <1>2, Frame, FrameMemory DEF TypeOK, ClientLeaves

LEMMA DeviceRepliesTypes ==
    ASSUME TypeOK, NEW c \in ChannelId, DeviceReplies(c)
    PROVE  TypeOK'
<1> DEFINE Reply == [rpc : RequestId, left : Nat \ {0}]
<1> DEFINE q == device[c]
<1> DEFINE d == Head(q)
<1>1. /\ device \in [ChannelId -> Seq(Reply)] /\ data \in [ChannelId -> Seq(Chunk)]
      /\ q \in Seq(Reply) /\ q # <<>>
  BY DEF TypeOK, DevicesOK, DeviceReplies
<1>2. d \in Reply /\ Tail(q) \in Seq(Reply)
  <2> HIDE DEF Reply, q
  <2> QED BY <1>1, HeadTailProperties
<1>3. data' \in [ChannelId -> Seq(Chunk)]
  <2>1. [rpc |-> d.rpc, last |-> d.left = 1] \in Chunk
    BY <1>2 DEF Chunk
  <2> QED BY <1>1, <2>1 DEF DeviceReplies
<1>4. device' \in [ChannelId -> Seq(Reply)]
  <2>1. device' = [device EXCEPT ![c] =
                      IF d.left = 1 THEN Tail(q) ELSE [q EXCEPT ![1].left = d.left - 1]]
    BY DEF DeviceReplies
  <2>2. d.left # 1 => [q EXCEPT ![1].left = d.left - 1] \in Seq(Reply)
    <3> SUFFICES ASSUME d.left # 1
                 PROVE  [q EXCEPT ![1].left = d.left - 1] \in Seq(Reply)
      OBVIOUS
    <3>1. d.left - 1 \in Nat \ {0}
      BY <1>2
    <3>2. [q[1] EXCEPT !.left = d.left - 1] \in Reply
      <4>1. q[1] \in Reply
        BY <1>1, <1>2, HeadTailProperties, EmptySeq, ElementOfSeq
      <4> HIDE DEF q, d
      <4> QED BY <3>1, <4>1
    <3>3. [q EXCEPT ![1].left = d.left - 1] = [q EXCEPT ![1] = [q[1] EXCEPT !.left = d.left - 1]]
      OBVIOUS
    <3> HIDE DEF Reply, q, d
    <3>4. ASSUME NEW e \in Reply PROVE [q EXCEPT ![1] = e] \in Seq(Reply)
      BY <1>1, <3>4, ExceptSeq
    <3> QED BY <3>2, <3>3, <3>4
  <2> HIDE DEF Reply, q, d
  <2> QED BY <1>1, <1>2, <2>1, <2>2
<1>5. DevicesOK'
  BY <1>3, <1>4 DEF TypeOK, DevicesOK, DeviceReplies
<1> QED BY <1>5, Frame, FrameMemory DEF TypeOK, DeviceReplies

LEMMA DeviceEndsTypes ==
    ASSUME TypeOK,
           \/ \E c \in ChannelId : DeviceEndsChannel(c)
           \/ \E s \in SockId : DeviceGoes(s)
    PROVE  TypeOK'
<1>1. DevicesOK'
  BY DEF TypeOK, DevicesOK, DeviceEndsChannel, DeviceGoes
<1> QED BY <1>1, Frame, FrameMemory DEF TypeOK, DeviceEndsChannel, DeviceGoes

LEMMA EnvironmentTypes == TypeOK /\ Environment => TypeOK'
BY ClientRequestsTypes, ClientAnswersTypes, ClientFollowsUpTypes, ClientLeavesTypes,
   DeviceRepliesTypes, DeviceEndsTypes DEF Environment

-----------------------------------------------------------------------------
(* Values that actions write *)

LEMMA SockWithState ==
    ASSUME NEW k \in Sock, NEW st \in SockState
    PROVE  [k EXCEPT !.state = st] \in Sock
BY DEF Sock

LEMMA SetStateTypes ==
    ASSUME SocksOK, NEW S, NEW st \in SockState
    PROVE  SetState(S, st) \in [SockId -> Sock]
BY SockWithState DEF SocksOK, SetState

LEMMA NewWebsocketTypes == NewWebsocket \in Sock
BY DEF NewWebsocket, Sock, SockState

LEMMA FailedTypes == ASSUME NEW r \in Request PROVE Failed(r) \in Request
BY DEF Failed, Request, SockState

LEMMA NoChannelTypes == NoChannel \in Channel
BY DEF NoChannel, Channel, ChannelState

LEMMA ReleasedFromTypes ==
    ASSUME NEW ch \in Channel
    PROVE  ReleasedFrom(ch) \in Channel
BY DEF ReleasedFrom, Channel

LEMMA DiscardTypes ==
    ASSUME NEW ch \in Channel, NEW d \in Chunk
    PROVE  Discard(ch, d) \in Channel
<1>1. /\ [ch EXCEPT !.state = "RPC_COMPLETE", !.eoframe = FALSE] \in Channel
      /\ [ch EXCEPT !.eoframe = ch.eoframe \/ d.last] \in Channel
  BY DEF Channel, ChannelState, Chunk
<1> QED BY <1>1, ReleasedFromTypes DEF Discard

LEMMA ErrorsTypes ==
    ASSUME HistoryOK, NEW R, NEW n \in Nat
    PROVE  Errors(R, n) \in [RequestId -> Seq(Answer)]
<1>1. [i \in 1..n |-> "error"] \in Seq(Answer) /\ <<>> \in Seq(Answer)
  BY DEF Answer
<1>2. ASSUME NEW r \in RequestId, NEW e \in Seq(Answer)
      PROVE  answers[r] \o e \in Seq(Answer)
  BY ConcatProperties DEF HistoryOK
<1> QED BY <1>1, <1>2 DEF Errors

-----------------------------------------------------------------------------
(* Sockets that are closed *)

LEMMA CloseSessionTypes ==
    ASSUME TypeOK, NEW s, NEW R \in SUBSET requests,
           NEW sk \in [SockId -> Sock], NEW D, CloseSession(s, R, sk, D)
    PROVE  /\ SocksOK' /\ RequestsOK' /\ ChannelsOK' /\ StoresOK'
           /\ ClientsOK' /\ DevicesOK' /\ HistoryOK'
<1> USE DEF TypeOK
<1> DEFINE mine == {r \in R : s # None /\ request[r].session = s}
<1> DEFINE told == {r \in mine : request[r].client # None}
<1> DEFINE gone == InUse(s) \cup Released(s)
<1>1. SocksOK'
  <2>1. \A x \in SockId : [sk[x] EXCEPT !.state = "ERROR"] \in Sock
    BY SockWithState DEF SockState
  <2>2. sock' \in [SockId -> Sock]
    BY <2>1 DEF CloseSession
  <2> QED BY <2>2 DEF CloseSession, SocksOK, lasts
<1>2. RequestsOK'
  <2>1. request' \in [RequestId -> Request]
    BY FailedTypes DEF CloseSession, RequestsOK
  <2> QED BY <2>1 DEF CloseSession, RequestsOK, lasts
<1>3. ChannelsOK'
  BY NoChannelTypes DEF CloseSession, ChannelsOK, lasts
<1>4. DevicesOK'
  <2>1. /\ device' = [c \in ChannelId |-> IF c \in gone THEN <<>> ELSE device[c]]
        /\ data' = [c \in ChannelId |-> IF c \in gone THEN <<>> ELSE data[c]]
        /\ eof' = eof \ gone /\ down' = down \ {s}
    BY DEF CloseSession
  <2> HIDE DEF gone
  <2> QED BY <2>1, EmptySeq DEF DevicesOK
<1>5. HistoryOK'
  <2>1. answers' \in [RequestId -> Seq(Answer)]
    BY ErrorsTypes DEF CloseSession
  <2> QED BY <2>1 DEF CloseSession, HistoryOK, attempt
<1>6. StoresOK' /\ ClientsOK'
  BY Frame DEF CloseSession
<1> QED BY <1>1, <1>2, <1>3, <1>4, <1>5, <1>6

LEMMA CloseWebsocketTypes ==
    ASSUME TypeOK, NEW w \in SockId, CloseWebsocket(w)
    PROVE  /\ SocksOK' /\ RequestsOK' /\ ChannelsOK' /\ StoresOK'
           /\ ClientsOK' /\ DevicesOK' /\ HistoryOK'
<1> USE DEF TypeOK
<1>1. SocksOK'
  BY DEF CloseWebsocket, SocksOK, lasts
<1>2. RequestsOK'
  <2>1. request' \in [RequestId -> Request]
    BY FailedTypes DEF CloseWebsocket, RequestsOK
  <2> QED BY <2>1 DEF CloseWebsocket, RequestsOK, lasts
<1>3. ChannelsOK'
  <2>1. ASSUME NEW ch \in Channel
        PROVE  /\ [ch EXCEPT !.list = IF @ = "none" THEN @ ELSE "released",
                             !.client = None, !.request = None] \in Channel
               /\ [ch EXCEPT !.client = None] \in Channel
    BY DEF Channel
  <2>2. channel' \in [ChannelId -> Channel]
    BY <2>1 DEF CloseWebsocket, ChannelsOK
  <2> QED BY <2>2 DEF CloseWebsocket, ChannelsOK, lasts
<1>4. ClientsOK'
  <2>1. inbox' \in [SockId -> Seq(Message)]
    BY EmptySeq DEF CloseWebsocket, ClientsOK
  <2> QED BY <2>1 DEF CloseWebsocket, ClientsOK
<1>5. HistoryOK'
  <2>1. tainted' \subseteq ChannelId
    <3>1. \A r \in requests : request[r].channel # None => request[r].channel \in ChannelId
      BY RequestsInRange DEF RequestsOK, Request
    <3> QED BY <3>1 DEF CloseWebsocket, HistoryOK
  <2> QED BY <2>1 DEF CloseWebsocket, HistoryOK, attempt
<1>6. StoresOK' /\ DevicesOK'
  BY Frame DEF CloseWebsocket
<1> QED BY <1>1, <1>2, <1>3, <1>4, <1>5, <1>6

LEMMA LoopRestarts ==
    ASSUME LoopOK, pc' \in {"crashed", "prep"}, cursor' = None, shifted' = FALSE,
           rbuf' \in {rbuf, <<>>}, reqid' \in {reqid, None}, todo' \in {todo, {}}
    PROVE  LoopOK'
<1>1. cursor' \in 0..(MaxSock + 1)
  BY Bounds DEF None
<1>2. shifted' \in BOOLEAN
  OBVIOUS
<1>3. rbuf' \in Seq(Message)
  BY EmptySeq DEF LoopOK
<1> QED BY <1>1, <1>2, <1>3 DEF LoopOK

LEMMA CloseTypes ==
    ASSUME TypeOK, NEW s \in SockId, Close(s)
    PROVE  TypeOK'
<1>1. CASE sock[s].kind = "websocket" /\ CloseWebsocket(s)
  <2>1. pc' \in {"crashed", "prep"}
    BY <1>1 DEF CloseWebsocket
  <2> QED BY <1>1, <2>1, LoopRestarts, CloseWebsocketTypes DEF TypeOK, Close
<1>2. CASE CloseSession(s, requests, sock, {}) /\ pc' = "prep"
  <2>1. sock \in [SockId -> Sock]
    BY DEF TypeOK, SocksOK
  <2> QED BY <1>2, <2>1, LoopRestarts, CloseSessionTypes DEF TypeOK, Close
<1> QED BY <1>1, <1>2 DEF Close

-----------------------------------------------------------------------------
(* The two passes of the poll loop *)

LEMMA PassTypes ==
    ASSUME TypeOK, PrepFails \/ Poll \/ ClosesVisited
    PROVE  TypeOK'
<1>1. FailedSocks \subseteq SockId
  BY SocksInRange DEF TypeOK, FailedSocks
<1>2. CASE PrepFails
  <2>1. FailedSocks \subseteq 1..MaxSock /\ FailedSocks # {}
    BY <1>1, <1>2 DEF PrepFails, SockId
  <2>2. Newest(FailedSocks) \in SockId
    BY <2>1, <1>1, NewestIsMember, Bounds
  <2> QED BY <1>2, <2>2, CloseTypes DEF PrepFails
<1>3. CASE ClosesVisited
  BY <1>1, <1>3, CloseTypes DEF ClosesVisited
<1>4. CASE Poll
  <2>1. LoopOK'
    BY <1>4, Bounds DEF TypeOK, LoopOK, Poll, buffer
  <2> QED BY <1>4, <2>1, Frame, FrameMemory DEF TypeOK, Poll
<1> QED BY <1>2, <1>3, <1>4

LEMMA WebsocketPollerTypes ==
    ASSUME TypeOK, NEW w \in SockId,
           \/ WebsocketReceives(w) \/ WebsocketDisconnects(w) \/ WebsocketReadError(w)
           \/ WebsocketMispolled(w) \/ VisitFailed(w) \/ VisitSession(w)
    PROVE  TypeOK'
<1> USE DEF TypeOK
<1>1. Visiting(w) => cursor' \in 0..(MaxSock + 1)
  BY Bounds DEF Visiting, SockId
<1>2. CASE WebsocketReceives(w)
  <2>1. LoopOK'
    BY <1>1, <1>2 DEF WebsocketReceives, LoopOK, ClientsOK
  <2>2. ClientsOK'
    BY <1>2, EmptySeq DEF WebsocketReceives, ClientsOK
  <2> QED BY <1>2, <2>1, <2>2, Frame, FrameMemory DEF WebsocketReceives
<1>3. CASE WebsocketDisconnects(w) \/ WebsocketReadError(w) \/ WebsocketMispolled(w)
  <2>1. LoopOK'
    BY <1>1, <1>3 DEF WebsocketDisconnects, WebsocketReadError, WebsocketMispolled, LoopOK,
                      buffer
  <2>2. PICK st \in SockState : sock' = [sock EXCEPT ![w].state = st]
    BY <1>3 DEF WebsocketDisconnects, WebsocketReadError, WebsocketMispolled, SockState
  <2>3. SocksOK'
    BY <1>3, <2>2, SockWithState
    DEF WebsocketDisconnects, WebsocketReadError, WebsocketMispolled, SocksOK, lasts
  <2>4. ClientsOK'
    BY <1>3 DEF WebsocketDisconnects, WebsocketReadError, WebsocketMispolled, ClientsOK, clients
  <2> QED BY <1>3, <2>1, <2>3, <2>4, Frame
          DEF WebsocketDisconnects, WebsocketReadError, WebsocketMispolled, lasts
<1>4. CASE VisitFailed(w) \/ VisitSession(w)
  <2>1. LoopOK'
    BY <1>1, <1>4 DEF VisitFailed, VisitSession, LoopOK, buffer, InUse
  <2> QED BY <1>4, <2>1, Frame, FrameMemory DEF VisitFailed, VisitSession
<1> QED BY <1>2, <1>3, <1>4

LEMMA ReadingTypes ==
    ASSUME DevicesOK, NEW c \in ChannelId, Reading(c)
    PROVE  Head(data[c]) \in Chunk /\ Tail(data[c]) \in Seq(Chunk)
<1>1. data[c] \in Seq(Chunk) /\ data[c] # <<>>
  BY EmptySeq DEF DevicesOK, Reading, HasChunk
<1> QED BY <1>1, HeadTailProperties

LEMMA InputDiscardedTypes ==
    ASSUME TypeOK, NEW c \in ChannelId, InputDiscarded(c)
    PROVE  TypeOK'
<1> USE DEF TypeOK
<1>1. Reading(c)
  BY DEF InputDiscarded
<1>2. Head(data[c]) \in Chunk /\ Tail(data[c]) \in Seq(Chunk)
  BY <1>1, ReadingTypes
<1>3. ChannelsOK'
  BY <1>2, DiscardTypes DEF ChannelsOK, InputDiscarded, lasts
<1>4. DevicesOK'
  BY <1>2 DEF DevicesOK, InputDiscarded, Reading
<1>5. LoopOK'
  BY DEF LoopOK, InputDiscarded, TodoAfter, Released, buffer
<1> QED BY <1>3, <1>4, <1>5, Frame DEF InputDiscarded, lasts

LEMMA InputRelayedTypes ==
    ASSUME TypeOK, NEW c \in ChannelId, InputRelayed(c)
    PROVE  TypeOK'
<1> USE DEF TypeOK
<1> DEFINE w  == channel[c].client
<1> DEFINE id == channel[c].request
<1>1. Reading(c)
  BY DEF InputRelayed
<1>2. Head(data[c]) \in Chunk /\ Tail(data[c]) \in Seq(Chunk)
  BY <1>1, ReadingTypes
<1>3. channel[c] \in Channel /\ w \in SockId /\ id \in RequestId
  BY RequestsInRange DEF ChannelsOK, InputRelayed, Channel
<1>4. SocksOK'
  <2> DEFINE st  == IF request[id].state = "ESTABLISHED" THEN "ESTABLISHED" ELSE "NORMAL"
  <2> DEFINE set == SetState({request[id].client, request[id].session}, st)
  <2> DEFINE end == [set EXCEPT ![w].complete = @ + 1]
  <2>1. set \in [SockId -> Sock]
    BY SetStateTypes DEF SockState
  <2>2. end \in [SockId -> Sock]
    <3>1. \A k \in Sock : [k EXCEPT !.complete = @ + 1] \in Sock
      BY DEF Sock
    <3> HIDE DEF set
    <3> QED BY <2>1, <3>1, <1>3
  <2>3. [end EXCEPT ![w].state = "FAILED"] \in [SockId -> Sock]
    <3>1. \A k \in Sock : [k EXCEPT !.state = "FAILED"] \in Sock
      BY SockWithState DEF SockState
    <3> HIDE DEF end
    <3> QED BY <2>2, <3>1
  <2>4. sock' \in {sock, end, [end EXCEPT ![w].state = "FAILED"]}
    BY DEF InputRelayed
  <2> HIDE DEF end
  <2> QED BY <2>2, <2>3, <2>4 DEF SocksOK, InputRelayed, lasts
<1>5. RequestsOK'
  BY DEF RequestsOK, InputRelayed, Freed, lasts
<1>6. ChannelsOK'
  <2>1. [channel[c] EXCEPT !.state = "RPC_COMPLETE", !.eoframe = FALSE] \in Channel
    BY <1>3 DEF Channel, ChannelState
  <2>2. [channel[c] EXCEPT !.state = "RPC_IDLE"] \in Channel
    BY <1>3 DEF Channel, ChannelState
  <2>3. \E ch \in Channel : channel' = [channel EXCEPT ![c] = ch]
    BY <2>1, <2>2, ReleasedFromTypes DEF InputRelayed, ChannelsOK
  <2> QED BY <2>3 DEF ChannelsOK, InputRelayed, lasts
<1>7. DevicesOK'
  BY <1>2 DEF DevicesOK, InputRelayed, Reading
<1>8. LoopOK' /\ ClientsOK'
  BY DEF LoopOK, ClientsOK, InputRelayed, TodoAfter, Released, buffer
<1>9. HistoryOK'
  <2>1. Append(answers[id], "complete") \in Seq(Answer)
    BY <1>3, AppendProperties DEF HistoryOK, Answer
  <2>2. answers' \in [RequestId -> Seq(Answer)]
    BY <2>1 DEF HistoryOK, InputRelayed
  <2>3. got' \in [RequestId -> SUBSET RequestId]
    BY <1>2, <1>3 DEF HistoryOK, InputRelayed, Chunk
  <2> QED BY <2>2, <2>3 DEF HistoryOK, InputRelayed, attempt
<1> QED BY <1>4, <1>5, <1>6, <1>7, <1>8, <1>9, Frame DEF InputRelayed

LEMMA InputEndsTypes ==
    ASSUME TypeOK, NEW c \in ChannelId,
           InputForFreedRequest(c) \/ InputSpins(c) \/ InputAtEof(c)
    PROVE  TypeOK'
<1> USE DEF TypeOK
<1>1. CASE InputForFreedRequest(c) \/ InputSpins(c)
  <2>1. LoopOK' /\ DevicesOK'
    <3>1. Reading(c)
      BY <1>1 DEF InputForFreedRequest, InputSpins
    <3>2. Tail(data[c]) \in Seq(Chunk)
      BY <3>1, ReadingTypes
    <3> QED BY <1>1, <3>2
            DEF InputForFreedRequest, InputSpins, Reading, LoopOK, DevicesOK, buffer
  <2> QED BY <1>1, <2>1, Frame, FrameMemory DEF InputForFreedRequest, InputSpins
<1>2. CASE InputAtEof(c)
  <2>1. LoopOK'
    BY <1>2, LoopRestarts DEF InputAtEof, buffer
  <2>2. sock \in [SockId -> Sock]
    BY DEF SocksOK
  <2> QED BY <1>2, <2>1, <2>2, CloseSessionTypes DEF InputAtEof
<1> QED BY <1>1, <1>2

LEMMA SessionPollerTypes ==
    ASSUME TypeOK, NEW s \in SockId, SessionPoller(s)
    PROVE  TypeOK'
<1> USE DEF TypeOK
<1>1. CASE InputDone(s)
  <2>1. SocksOK'
    BY <1>1, SockWithState DEF SocksOK, InputDone, lasts, SockState
  <2>2. LoopOK'
    BY <1>1 DEF LoopOK, InputDone, buffer
  <2> QED BY <1>1, <2>1, <2>2, Frame DEF InputDone, lasts
<1>2. CASE Drain(s)
  <2> DEFINE noisy == {c \in Released(s) : data[c] # <<>> \/ c \in eof}
  <2>1. ChannelsOK' /\ DevicesOK'
    <3>1. CASE noisy = {}
      BY <1>2, <3>1, Frame DEF Drain, lasts, devices
    <3>2. CASE noisy # {}
      <4> DEFINE heard == {c \in noisy : HasChunk(c)}
      <4>1. PICK dead \in noisy :
              /\ channel' = [c \in ChannelId |->
                    IF c = dead THEN NoChannel
                    ELSE IF c \in heard THEN Discard(channel[c], Head(data[c]))
                    ELSE channel[c]]
              /\ data'    = [c \in ChannelId |->
                    IF c = dead \/ (c \in noisy /\ c \notin heard) THEN <<>>
                    ELSE IF c \in heard THEN Tail(data[c]) ELSE data[c]]
              /\ device'  = [device EXCEPT ![dead] = <<>>]
              /\ eof'     = eof \ {dead}
        BY <1>2, <3>2 DEF Drain
      <4>2. ASSUME NEW c \in heard
            PROVE  Head(data[c]) \in Chunk /\ Tail(data[c]) \in Seq(Chunk)
        <5>1. c \in ChannelId /\ data[c] \in Seq(Chunk) /\ data[c] # <<>>
          BY EmptySeq DEF DevicesOK, HasChunk, Released
        <5> QED BY <5>1, HeadTailProperties
      <4>3. channel' \in [ChannelId -> Channel]
        <5> HIDE DEF heard
        <5>1. \A c \in heard : c \in ChannelId => Discard(channel[c], Head(data[c])) \in Channel
          BY <4>2, DiscardTypes DEF ChannelsOK
        <5> QED BY <4>1, <5>1, NoChannelTypes DEF ChannelsOK
      <4>4. data' \in [ChannelId -> Seq(Chunk)]
        <5> HIDE DEF heard, noisy
        <5> QED BY <4>1, <4>2, EmptySeq DEF DevicesOK
      <4>5. device' \in [ChannelId -> Seq([rpc : RequestId, left : Nat \ {0}])]
        <5> HIDE DEF heard, noisy
        <5> QED BY <4>1, EmptySeq DEF DevicesOK
      <4> QED BY <1>2, <4>1, <4>3, <4>4, <4>5 DEF Drain, ChannelsOK, DevicesOK, lasts
    <3> QED BY <3>1, <3>2
  <2>2. LoopOK'
    BY <1>2 DEF LoopOK, Drain, buffer
  <2> QED BY <1>2, <2>1, <2>2, Frame DEF Drain, lasts
<1> QED BY <1>1, <1>2 DEF SessionPoller

LEMMA HealthyStateTypes ==
    ASSUME TypeOK, NEW s \in SockId
    PROVE  HealthyState(s) \in SockState
BY DEF HealthyState, TypeOK, SocksOK, Sock, SockState

LEMMA EndPassTypes ==
    ASSUME TypeOK, EndPassIdle \/ EndPassAccepts
    PROVE  TypeOK'
<1> USE DEF TypeOK
<1>1. EndPass
  BY DEF EndPassIdle, EndPassAccepts
<1>2. HealthySocks \in [SockId -> Sock]
  BY HealthyStateTypes, SockWithState DEF HealthySocks, SocksOK
<1>3. SocksOK'
  <2>1. CASE EndPassIdle
    BY <1>2, <2>1 DEF SocksOK, EndPassIdle
  <2>2. CASE EndPassAccepts
    <3>1. lastSock + 1 \in 1..MaxSock /\ lastSock' = lastSock + 1
      BY <2>2, Bounds DEF EndPassAccepts, SocksOK
    <3>2. sock' \in [SockId -> Sock]
      BY <1>2, <2>2, NewWebsocketTypes DEF EndPassAccepts
    <3> QED BY <2>2, <3>1, <3>2 DEF SocksOK, EndPassAccepts
  <2> QED BY <2>1, <2>2
<1>4. RequestsOK'
  BY <1>1 DEF RequestsOK, EndPass, Freed
<1>5. LoopOK'
  BY <1>1, LoopRestarts DEF EndPass, buffer
<1>6. ClientsOK'
  BY <1>1 DEF ClientsOK, EndPass, EndPassIdle, EndPassAccepts
<1> QED BY <1>1, <1>3, <1>4, <1>5, <1>6, Frame DEF EndPass

-----------------------------------------------------------------------------
(* Outcomes and messages *)

\* What types alone do not say, and the handling of an answer relies on: a
\* request that waits for its user has a client and a session.
WaitingIsAttached ==
    pc # "crashed" =>
        \A r \in requests :
            request[r].state \in {"HOSTKEY", "PASSPHRASE", "PASSWORD"}
                => request[r].client # None /\ request[r].session # None

TypeInv == TypeOK /\ WaitingIsAttached

-----------------------------------------------------------------------------
(* Outcomes of an attempt to authenticate *)

Prompting == {"HOSTKEY", "PASSPHRASE", "PASSWORD"}

LEMMA PromptStates == /\ DOMAIN PromptFor = Prompting
                      /\ \A st \in Prompting : PromptFor[st] \in PromptOp
BY DEF PromptFor, Prompting, PromptOp

\* An attempt ends in one of four states, with the trust it started with and at
\* most one more failure, and asks again only within the bound on failures.
LEMMA AuthOutcome ==
    ASSUME NEW pf \in Nat, NEW passphrase, NEW password, NEW t, NEW trust,
           NEW o \in AuthOutcomes(pf, passphrase, password, t, trust)
    PROVE  /\ o.state \in {"PASSPHRASE", "PASSWORD", "FAILED", "ESTABLISHED"}
           /\ o.trust = trust
           /\ o.pwfail \in {pf, pf + 1}
           /\ o.pwfail = pf \/ o.state = "FAILED" \/ pf + 1 <= MaxPwfail
           /\ "crash" \in DOMAIN o
<1>1. ASSUME NEW st \in {"PASSPHRASE", "PASSWORD", "FAILED", "ESTABLISHED"},
             NEW n \in {pf, pf + 1}, NEW save, o = Result(st, trust, n, save)
      PROVE  /\ o.state = st /\ o.trust = trust /\ o.pwfail = n
             /\ "crash" \in DOMAIN o
  BY <1>1 DEF Result
<1>2. CASE o \in PasswordOutcomes(pf, password, t, trust)
  <2>1. CASE o = [Result("ESTABLISHED", trust, pf, TRUE) EXCEPT !.crash = t = NoTarget]
    <3> DEFINE e == Result("ESTABLISHED", trust, pf, TRUE)
    <3>1. e.state = "ESTABLISHED" /\ e.trust = trust /\ e.pwfail = pf /\ "crash" \in DOMAIN e
      BY DEF Result
    <3> HIDE DEF e
    <3>2. o.state = e.state /\ o.trust = e.trust /\ o.pwfail = e.pwfail
      BY <2>1 DEF e
    <3>3. DOMAIN o = DOMAIN e
      BY <2>1 DEF e
    <3> QED BY <3>1, <3>2, <3>3
  <2>2. CASE pf + 1 > MaxPwfail /\ o = Result("FAILED", trust, pf + 1, FALSE)
    <3>1. o.state = "FAILED" /\ o.trust = trust /\ o.pwfail = pf + 1 /\ "crash" \in DOMAIN o
      BY <1>1, <2>2
    <3> QED BY <3>1
  <2>3. CASE ~ (pf + 1 > MaxPwfail) /\ o = Result("PASSWORD", trust, pf + 1, FALSE)
    <3>1. o.state = "PASSWORD" /\ o.trust = trust /\ o.pwfail = pf + 1 /\ "crash" \in DOMAIN o
      BY <1>1, <2>3
    <3>2. pf + 1 <= MaxPwfail
      BY <2>3, Bounds
    <3> QED BY <3>1, <3>2
  <2>4. CASE o = Result("PASSWORD", trust, pf, FALSE)
    BY <1>1, <2>4
  <2> QED BY <1>2, <2>1, <2>2, <2>3, <2>4 DEF PasswordOutcomes
<1>3. CASE \E st \in {"ESTABLISHED", "PASSPHRASE", "FAILED"} :
              o = Result(st, trust, pf, FALSE)
  <2>1. PICK st \in {"ESTABLISHED", "PASSPHRASE", "FAILED"} : o = Result(st, trust, pf, FALSE)
    BY <1>3
  <2>2. o.state = st /\ o.trust = trust /\ o.pwfail = pf /\ "crash" \in DOMAIN o
    BY <1>1, <2>1
  <2> QED BY <2>2
<1>4. o \in PasswordOutcomes(pf, password, t, trust)
        \/ \E st \in {"ESTABLISHED", "PASSPHRASE", "FAILED"} : o = Result(st, trust, pf, FALSE)
  BY DEF AuthOutcomes
<1> QED BY <1>2, <1>3, <1>4

\* When a session is opened, a host key that is not known is asked about, and
\* without a client to ask a prompt is fatal.
LEMMA OpenOutcome ==
    ASSUME NEW r, NEW o \in OpenOutcomes(r)
    PROVE  /\ o.state \in Prompting \cup {"FAILED", "ESTABLISHED"}
           /\ o.pwfail \in {0, 1}
           /\ o.pwfail = 0 \/ o.state = "FAILED" \/ 1 <= MaxPwfail
           /\ r.client = None /\ o.state \in Prompting => o.crash
<1> DEFINE try == AuthOutcomes(0, r.passphrase, r.password, r.target, r.target \in known)
<1>1. ASSUME NEW a \in try
      PROVE  /\ a.state \in {"PASSPHRASE", "PASSWORD", "FAILED", "ESTABLISHED"}
             /\ a.pwfail \in {0, 1}
             /\ a.pwfail = 0 \/ a.state = "FAILED" \/ 1 <= MaxPwfail
             /\ "crash" \in DOMAIN a
  <2>1. 0 \in Nat /\ 0 + 1 = 1
    OBVIOUS
  <2> QED BY <2>1, AuthOutcome
<1>2. CASE r.client # None /\ o \in try
  BY <1>1, <1>2 DEF Prompting
<1>3. CASE r.client = None
  <2>1. PICK a \in try : o = [a EXCEPT !.crash = a.state # "ESTABLISHED"]
    BY <1>3 DEF OpenOutcomes, NullClient, try
  <2>2. o.state = a.state /\ o.pwfail = a.pwfail
    BY <2>1
  <2>3. o.state \in Prompting => o.crash
    BY <1>1, <2>1, <2>2 DEF Prompting
  <2> QED BY <1>1, <2>2, <2>3 DEF Prompting
<1>4. CASE o = [state |-> "HOSTKEY", trust |-> FALSE, auth |-> FALSE, pwfail |-> 0,
                save |-> FALSE, crash |-> FALSE] /\ r.client # None
  BY <1>4 DEF Prompting
<1> QED BY <1>2, <1>3, <1>4 DEF OpenOutcomes, try

LEMMA RecordAttemptTypes ==
    ASSUME TypeOK, NEW id \in RequestId, NEW r \in Request, NEW s \in SockId, NEW o,
           o.crash \/ o.state \notin Prompting \/ r.client # None,
           RecordAttempt(id, r, s, o)
    PROVE  /\ prompts' \subseteq Prompt
           /\ saved' \subseteq Target
           /\ cached' \subseteq {DeviceName(t) : t \in Target \cup {NoTarget}}
           /\ trusted' \subseteq SockId /\ authStarted' \subseteq SockId
           /\ authed' \subseteq SockId
<1> USE DEF TypeOK
<1>1. prompts' \subseteq Prompt
  <2>1. CASE o.crash \/ o.state \notin Prompting
    BY <2>1, PromptStates DEF RecordAttempt, PromptsAfter, ClientsOK
  <2>2. CASE o.state \in Prompting /\ r.client # None
    <3>1. PromptFor[o.state] \in PromptOp
      BY <2>2, PromptStates
    <3>2. (IF r.authws \in socks THEN r.authws ELSE r.client) \in SockId
      BY <2>2, SocksInRange DEF Request
    <3>3. [to |-> IF r.authws \in socks THEN r.authws ELSE r.client,
           req |-> id, op |-> PromptFor[o.state]] \in Prompt
      BY <3>1, <3>2 DEF Prompt
    <3> QED BY <3>3 DEF RecordAttempt, PromptsAfter, ClientsOK
  <2> QED BY <2>1, <2>2
<1>2. r.target \in Target \cup {NoTarget} /\ SavePassword \subseteq Target
  BY ConstantsAssumption DEF Request
<1>3. saved' \subseteq Target
  BY <1>2 DEF RecordAttempt, StoresOK
<1>4. cached' \subseteq {DeviceName(t) : t \in Target \cup {NoTarget}}
  BY <1>2 DEF RecordAttempt, StoresOK
<1>5. trusted' \subseteq SockId /\ authStarted' \subseteq SockId /\ authed' \subseteq SockId
  BY DEF RecordAttempt, HistoryOK
<1> QED BY <1>1, <1>3, <1>4, <1>5

-----------------------------------------------------------------------------
(* Requests and the RPCs they run *)

LEMMA ChannelForTypes ==
    ASSUME TypeOK, NEW s, NEW c \in ChannelFor(s)
    PROVE  c \in ChannelId \cup {None}
<1>1. lastChannel < MaxChannel => lastChannel + 1 \in ChannelId
  BY Bounds DEF TypeOK, ChannelsOK, ChannelId
<1> QED BY <1>1 DEF ChannelFor, Released

LEMMA SendRpcTypes ==
    ASSUME TypeOK, NEW id \in RequestId, NEW c \in ChannelId \cup {None},
           NEW s \in SockId, NEW w \in SockId \cup {None}, SendRpc(id, c, s, w)
    PROVE  /\ ChannelsOK'
           /\ device' \in [ChannelId -> Seq([rpc : RequestId, left : Nat \ {0}])]
<1> USE DEF TypeOK
<1>1. lastChannel' \in 0..MaxChannel
  BY Bounds DEF SendRpc, ChannelsOK, ChannelId, None
<1>2. channel' \in [ChannelId -> Channel]
  <2>1. ASSUME NEW ch \in Channel
        PROVE  [ch EXCEPT !.list = "inuse", !.session = s, !.state = "RPC_INITIAL",
                          !.client = w, !.request = id] \in Channel
    BY DEF Channel, ChannelState
  <2>2. CASE c = None
    BY <2>2 DEF SendRpc, ChannelsOK
  <2>3. CASE c # None
    <3>1. channel' = [channel EXCEPT ![c] =
              [channel[c] EXCEPT !.list = "inuse", !.session = s, !.state = "RPC_INITIAL",
                                 !.client = w, !.request = id]]
      BY <2>3 DEF SendRpc, ChannelsOK
    <3> QED BY <2>1, <2>3, <3>1 DEF ChannelsOK
  <2> QED BY <2>2, <2>3
<1>3. device' \in [ChannelId -> Seq([rpc : RequestId, left : Nat \ {0}])]
  <2> DEFINE Reply == [rpc : RequestId, left : Nat \ {0}]
  <2>1. [rpc |-> id, left |-> ReplyChunks] \in Reply
    BY Bounds
  <2>2. device \in [ChannelId -> Seq(Reply)]
    BY DEF DevicesOK
  <2> HIDE DEF Reply
  <2>3. ASSUME c \in ChannelId
        PROVE  Append(device[c], [rpc |-> id, left |-> ReplyChunks]) \in Seq(Reply)
    BY <2>1, <2>2, <2>3, AppendProperties
  <2>4. device' \in [ChannelId -> Seq(Reply)]
    BY <2>2, <2>3 DEF SendRpc
  <2> QED BY <2>4 DEF Reply
<1> QED BY <1>1, <1>2, <1>3 DEF ChannelsOK

LEMMA IncomingTypes ==
    ASSUME LoopOK, rbuf # <<>>
    PROVE  /\ Incoming \in Message /\ Tail(rbuf) \in Seq(Message)
           /\ ReqIdNow \in RequestId \cup {None}
<1>1. Incoming \in Message /\ Tail(rbuf) \in Seq(Message)
  BY HeadTailProperties DEF LoopOK, Incoming
<1> QED BY <1>1 DEF ReqIdNow, LoopOK, Message

LEMMA ConsumeTypes ==
    ASSUME LoopOK, pc = "handle", rbuf # <<>>, Consume \/ Abandon \/ Crash
    PROVE  LoopOK'
<1>1. CASE Consume
  BY <1>1, IncomingTypes DEF Consume, LoopOK
<1>2. CASE Abandon
  BY <1>2, EmptySeq DEF Abandon, LoopOK
<1>3. CASE Crash
  BY <1>3 DEF Crash, LoopOK, buffer
<1> QED BY <1>1, <1>2, <1>3

LEMMA ConsumeAndShiftTypes ==
    ASSUME LoopOK, rbuf # <<>>, NEW s, ConsumeAndShift(s)
    PROVE  LoopOK'
<1>1. shifted' \in BOOLEAN
  BY Zenon DEF ConsumeAndShift
<1> QED BY <1>1, IncomingTypes DEF ConsumeAndShift, LoopOK

LEMMA CreatedTypes ==
    ASSUME TypeOK, NEW w \in SockId, rbuf # <<>>
    PROVE  /\ Created(w) \in Request /\ Created(w).client = w
           /\ Created(w).session = None /\ Created(w).state = "NORMAL"
<1>1. Incoming \in Message
  BY IncomingTypes DEF TypeOK
<1>2. (Incoming.arg = "nocreate") \in BOOLEAN
  OBVIOUS
<1> QED BY <1>1, <1>2 DEF Created, Request, Message, SockState, Credential

LEMMA CreateRequestTypes ==
    ASSUME TypeOK, NEW r \in Request, CreateRequest(r)
    PROVE  /\ RequestsOK' /\ lastRequest + 1 \in RequestId
           /\ requests' = requests \cup {lastRequest + 1}
           /\ request' = [request EXCEPT ![lastRequest + 1] = r]
<1>1. lastRequest + 1 \in 1..MaxRequest /\ lastRequest' = lastRequest + 1
  BY Bounds DEF TypeOK, RequestsOK, CreateRequest
<1> QED BY <1>1 DEF TypeOK, RequestsOK, RequestId, CreateRequest

LEMMA AddressedTypes ==
    ASSUME TypeOK, Addressed # None
    PROVE  Addressed \in requests /\ Addressed \in RequestId
<1>1. ASSUME NEW S \in SUBSET requests, Newest(S) # None
      PROVE  Newest(S) \in requests
  <2>1. S # {} /\ S \subseteq 1..MaxRequest
    BY <1>1, RequestsInRange DEF Newest, TypeOK, RequestId
  <2> QED BY <2>1, NewestIsMember, Bounds
<1>2. Addressed \in requests
  BY <1>1 DEF Addressed, RequestFind
<1> QED BY <1>2, RequestsInRange DEF TypeOK

LEMMA SessionFindTypes ==
    ASSUME TypeOK, NEW t, SessionFind(t) # None
    PROVE  SessionFind(t) \in Sessions /\ SessionFind(t) \in SockId
<1> DEFINE S == {s \in Sessions : sock[s].target = t}
<1>1. S # {} /\ S \subseteq 1..MaxSock
  BY SocksInRange DEF SessionFind, Newest, Sessions, TypeOK, SockId
<1>2. Newest(S) \in S
  BY <1>1, NewestIsMember, Bounds
<1> QED BY <1>2, SocksInRange DEF SessionFind, TypeOK, Sessions

LEMMA CountMadeTypes ==
    ASSUME SocksOK, NEW w \in SockId, NEW st \in SockState
    PROVE  CountMade(w, st) \in Sock
<1>1. sock[w] \in Sock
  BY DEF SocksOK
<1>2. \A k \in Sock : [k EXCEPT !.made = @ + 1] \in Sock
  BY DEF Sock
<1>3. CountMade(w, st) = [[sock[w] EXCEPT !.state = st] EXCEPT !.made = @ + 1]
  BY <1>1 DEF CountMade, Sock
<1> QED BY <1>1, <1>2, <1>3, SockWithState

LEMMA NewSessionTypes ==
    ASSUME NEW t \in Target \cup {NoTarget}, NEW o, o.state \in SockState, o.pwfail \in Nat
    PROVE  NewSession(t, o) \in Sock
BY DEF NewSession, Sock

-----------------------------------------------------------------------------
(* Messages that ask for an RPC *)

\* The list of requests gains one that does not wait, or waits with a client and
\* a session; the others are as they were.
LEMMA WaitingAfterCreate ==
    ASSUME TypeInv, pc = "handle", NEW r \in Request, CreateRequest(r),
           r.state \in Prompting => r.client # None /\ r.session # None
    PROVE  WaitingIsAttached'
<1>1. /\ requests' = requests \cup {lastRequest + 1} /\ lastRequest + 1 \in RequestId
      /\ request' = [request EXCEPT ![lastRequest + 1] = r]
  BY CreateRequestTypes DEF TypeInv
<1>2. requests \subseteq RequestId /\ request \in [RequestId -> Request]
  BY RequestsInRange DEF TypeInv, TypeOK, RequestsOK
<1> QED BY <1>1, <1>2 DEF TypeInv, WaitingIsAttached, Prompting

LEMMA HandleRpcReuseTypes ==
    ASSUME TypeInv, NEW w \in SockId, HandleRpcReuse(w)
    PROVE  TypeInv'
<1> USE DEF TypeInv, TypeOK
<1> DEFINE id == lastRequest + 1
<1> DEFINE s == SessionFind(Incoming.target)
<1>1. pc = "handle" /\ rbuf # <<>> /\ s \in SockId
  BY SessionFindTypes DEF HandleRpcReuse, Handling
<1>2. PICK c \in ChannelFor(s) :
         /\ CreateRequest([Created(w) EXCEPT !.channel = c])
         /\ SendRpc(id, c, s, w)
  BY DEF HandleRpcReuse
<1>3. c \in ChannelId \cup {None}
  BY ChannelForTypes
<1> DEFINE r == [Created(w) EXCEPT !.channel = c]
<1>4. r \in Request /\ r.state = "NORMAL"
  BY <1>1, <1>3, CreatedTypes DEF Request
<1> HIDE DEF r
<1>5. RequestsOK' /\ id \in RequestId
  BY <1>2, <1>4, CreateRequestTypes DEF r
<1>6. ChannelsOK' /\ DevicesOK'
  BY <1>1, <1>2, <1>3, <1>5, SendRpcTypes DEF HandleRpcReuse, DevicesOK
<1>7. SocksOK'
  <2>1. sock[w].state \in SockState
    BY DEF SocksOK, Sock
  <2> QED BY <2>1, CountMadeTypes DEF HandleRpcReuse, SocksOK
<1>8. LoopOK'
  BY <1>1, ConsumeTypes DEF HandleRpcReuse
<1>9. WaitingIsAttached'
  BY <1>1, <1>2, <1>4, WaitingAfterCreate DEF r, Prompting
<1> QED BY <1>5, <1>6, <1>7, <1>8, <1>9, Frame DEF HandleRpcReuse

LEMMA HandleRpcRefusedTypes ==
    ASSUME TypeInv, NEW w \in SockId, HandleRpcNoCreate(w) \/ HandleRpcOpenFails(w)
    PROVE  TypeInv'
<1> USE DEF TypeInv, TypeOK
<1> DEFINE r == [Created(w) EXCEPT !.state = "ERROR"]
<1>1. /\ pc = "handle" /\ rbuf # <<>> /\ CreateRequest(r) /\ Consume
      /\ sock' = [sock EXCEPT ![w] = CountMade(w, "ERROR")]
      /\ \E n \in {1, 2} : answers' = Errors({lastRequest + 1}, n)
      /\ UNCHANGED <<socks, channel, lastSock, lastChannel, stores, clients, devices,
                     attempt, got, tainted>>
  BY DEF HandleRpcNoCreate, HandleRpcOpenFails, Handling
<1>2. r \in Request /\ r.state = "ERROR"
  BY <1>1, CreatedTypes DEF Request, SockState
<1> HIDE DEF r
<1>3. RequestsOK'
  BY <1>1, <1>2, CreateRequestTypes
<1>4. SocksOK'
  BY <1>1, CountMadeTypes DEF SocksOK, SockState
<1>5. HistoryOK'
  <2>1. answers' \in [RequestId -> Seq(Answer)]
    BY <1>1, ErrorsTypes
  <2> QED BY <1>1, <2>1 DEF HistoryOK, attempt
<1>6. LoopOK'
  BY <1>1, ConsumeTypes
<1>7. WaitingIsAttached'
  BY <1>1, <1>2, WaitingAfterCreate DEF Prompting
<1> QED BY <1>1, <1>3, <1>4, <1>5, <1>6, <1>7, Frame

LEMMA HandleRpcOpenTypes ==
    ASSUME TypeInv, NEW w \in SockId, HandleRpcOpen(w)
    PROVE  TypeInv'
<1> USE DEF TypeInv, TypeOK
<1> DEFINE id == lastRequest + 1
<1> DEFINE s  == lastSock + 1
<1>1. /\ pc = "handle" /\ rbuf # <<>> /\ s \in 1..MaxSock /\ lastSock' = s
      /\ socks' = socks \cup {s} /\ Consume
      /\ UNCHANGED <<known, inbox, peer, sent, extra, data, eof, down, got, answers, tainted>>
  BY Bounds DEF HandleRpcOpen, Handling, SocksOK
<1>13. PICK o \in OpenOutcomes(Created(w)) :
         \E c \in IF o.state = "ESTABLISHED" THEN ChannelFor(s) ELSE {None} :
         /\ CreateRequest([Created(w) EXCEPT !.state = o.state, !.session = s, !.channel = c])
         /\ sock' = [sock EXCEPT ![w] = CountMade(w, o.state),
                                 ![s] = NewSession(Created(w).target, o)]
         /\ RecordAttempt(id, Created(w), s, o)
         /\ SendRpc(id, c, s, w)
  BY DEF HandleRpcOpen
<1>2. PICK c \in ChannelFor(s) \cup {None} :
         /\ CreateRequest([Created(w) EXCEPT !.state = o.state, !.session = s, !.channel = c])
         /\ sock' = [sock EXCEPT ![w] = CountMade(w, o.state),
                                 ![s] = NewSession(Created(w).target, o)]
         /\ RecordAttempt(id, Created(w), s, o)
         /\ SendRpc(id, c, s, w)
  BY <1>13
<1>3. c \in ChannelId \cup {None} /\ s \in SockId
  BY <1>1, ChannelForTypes DEF SockId
<1>4. o.state \in SockState /\ o.pwfail \in Nat
  BY OpenOutcome DEF SockState, Prompting
<1>5. /\ Created(w) \in Request /\ Created(w).client = w /\ w # None /\ s # None
  BY <1>1, <1>3, CreatedTypes DEF SockId, None
<1> DEFINE r == [Created(w) EXCEPT !.state = o.state, !.session = s, !.channel = c]
<1>6. r \in Request /\ r.client # None /\ r.session # None
  BY <1>3, <1>4, <1>5 DEF Request
<1> HIDE DEF r
<1>7. RequestsOK' /\ id \in RequestId
  BY <1>2, <1>6, CreateRequestTypes DEF r
<1>8. ChannelsOK' /\ DevicesOK'
  BY <1>1, <1>2, <1>3, <1>7, SendRpcTypes DEF DevicesOK
<1>9. SocksOK'
  <2>1. CountMade(w, o.state) \in Sock
    BY <1>4, CountMadeTypes
  <2>2. NewSession(Created(w).target, o) \in Sock
    BY <1>4, <1>5, NewSessionTypes DEF Request
  <2> QED BY <1>1, <1>2, <1>3, <2>1, <2>2 DEF SocksOK
<1>10. StoresOK' /\ ClientsOK' /\ HistoryOK'
  BY <1>1, <1>2, <1>3, <1>5, <1>7, RecordAttemptTypes DEF StoresOK, ClientsOK, HistoryOK
<1>11. LoopOK'
  BY <1>1, ConsumeTypes
<1>12. WaitingIsAttached'
  BY <1>1, <1>2, <1>6, WaitingAfterCreate DEF r
<1> QED BY <1>7, <1>8, <1>9, <1>10, <1>11, <1>12

LEMMA HandleAuthinitTypes ==
    ASSUME TypeInv, NEW w \in SockId, HandleAuthinit(w)
    PROVE  TypeInv'
<1> USE DEF TypeInv, TypeOK
<1>1. pc = "handle" /\ rbuf # <<>> /\ CreateRequest(Created(w)) /\ Consume
  BY DEF HandleAuthinit, Handling
<1>2. Created(w) \in Request /\ Created(w).state = "NORMAL"
  BY <1>1, CreatedTypes
<1>3. RequestsOK' /\ LoopOK'
  BY <1>1, <1>2, CreateRequestTypes, ConsumeTypes
<1>4. WaitingIsAttached'
  BY <1>1, <1>2, WaitingAfterCreate DEF Prompting
<1> QED BY <1>3, <1>4, Frame DEF HandleAuthinit, clients

-----------------------------------------------------------------------------
(* Answers of the user *)

LEMMA WaitingFrame ==
    ASSUME TypeInv, pc # "crashed", UNCHANGED <<requests, request>>
    PROVE  WaitingIsAttached'
BY DEF TypeInv, WaitingIsAttached

LEMMA WaitingTypes ==
    ASSUME TypeInv, pc = "handle", NEW op, Waits(Addressed, op)
    PROVE  /\ Addressed \in requests /\ Addressed \in RequestId
           /\ request[Addressed] \in Request
           /\ request[Addressed].state \in Prompting
           /\ PromptFor[request[Addressed].state] = op
           /\ request[Addressed].client # None /\ request[Addressed].session # None
BY AddressedTypes, PromptStates DEF Waits, TypeInv, TypeOK, RequestsOK, WaitingIsAttached, Prompting

LEMMA HandleAnswerIgnoredTypes ==
    ASSUME TypeInv, NEW w \in SockId, HandleAnswerIgnored(w)
    PROVE  TypeInv'
<1>1. pc = "handle" /\ rbuf # <<>>
  BY DEF HandleAnswerIgnored, Handling
<1>2. LoopOK'
  BY <1>1, ConsumeTypes DEF HandleAnswerIgnored, TypeInv, TypeOK
<1>3. WaitingIsAttached'
  BY <1>1, WaitingFrame DEF HandleAnswerIgnored, memory
<1> QED BY <1>2, <1>3, Frame, FrameMemory DEF HandleAnswerIgnored, TypeInv, TypeOK

LEMMA AuthenticateTypes ==
    ASSUME TypeInv, pc = "handle", rbuf # <<>>, NEW id \in requests, NEW r \in Request,
           r.client # None, r.session # None, NEW trust, Authenticate(id, r, trust),
           known' \subseteq Target \cup {NoTarget},
           UNCHANGED <<socks, requests, lastSock, lastRequest, inbox, peer, sent, extra,
                       data, eof, down, got, answers, tainted>>
    PROVE  TypeInv'
<1> USE DEF TypeInv, TypeOK
<1> DEFINE s == r.session
<1>1. s \in SockId /\ id \in RequestId /\ r.client \in SockId
  BY RequestsInRange DEF Request
<1>2. sock[s].pwfail \in Nat
  BY <1>1 DEF SocksOK, Sock
<1>3. PICK o \in AuthOutcomes(sock[s].pwfail, r.passphrase, r.password, r.target, trust) :
      \E c \in IF o.state = "ESTABLISHED" THEN ChannelFor(s) ELSE {None} :
         /\ request' = [request EXCEPT ![id] = [r EXCEPT !.state = o.state,
                                               !.channel = IF c = None THEN @ ELSE c]]
         /\ sock' = [SetState({r.client, s}, o.state) EXCEPT ![s].pwfail = o.pwfail]
         /\ RecordAttempt(id, r, s, o)
         /\ SendRpc(id, c, s, r.client)
         /\ IF o.crash THEN Crash ELSE Consume
  BY DEF Authenticate
<1>4. PICK c \in ChannelFor(s) \cup {None} :
         /\ request' = [request EXCEPT ![id] = [r EXCEPT !.state = o.state,
                                               !.channel = IF c = None THEN @ ELSE c]]
         /\ sock' = [SetState({r.client, s}, o.state) EXCEPT ![s].pwfail = o.pwfail]
         /\ RecordAttempt(id, r, s, o)
         /\ SendRpc(id, c, s, r.client)
         /\ Crash \/ Consume
  BY <1>3
<1>5. o.state \in SockState /\ o.pwfail \in Nat
  BY <1>2, <1>3, AuthOutcome DEF SockState
<1>6. c \in ChannelId \cup {None}
  BY ChannelForTypes
<1> DEFINE q == [r EXCEPT !.state = o.state, !.channel = IF c = None THEN @ ELSE c]
<1>7. q \in Request /\ q.client # None /\ q.session # None
  BY <1>5, <1>6 DEF Request
<1> HIDE DEF q
<1>8. request' = [request EXCEPT ![id] = q]
  BY <1>4 DEF q
<1>9. RequestsOK'
  BY <1>7, <1>8 DEF RequestsOK
<1>10. SocksOK'
  <2> DEFINE set == SetState({r.client, s}, o.state)
  <2>1. set \in [SockId -> Sock]
    BY <1>5, SetStateTypes
  <2>2. \A k \in Sock : [k EXCEPT !.pwfail = o.pwfail] \in Sock
    BY <1>5 DEF Sock
  <2>3. sock' = [set EXCEPT ![s].pwfail = o.pwfail]
    BY <1>4
  <2> HIDE DEF set
  <2>4. sock' \in [SockId -> Sock]
    BY <1>1, <2>1, <2>2, <2>3
  <2> QED BY <2>4 DEF SocksOK
<1>11. ChannelsOK' /\ DevicesOK'
  BY <1>1, <1>4, <1>6, SendRpcTypes DEF DevicesOK
<1>12. StoresOK' /\ ClientsOK' /\ HistoryOK'
  BY <1>1, <1>4, RecordAttemptTypes DEF StoresOK, ClientsOK, HistoryOK
<1>13. LoopOK'
  BY <1>4, ConsumeTypes
<1>14. WaitingIsAttached'
  BY <1>1, <1>7, <1>8, RequestsInRange DEF WaitingIsAttached, RequestsOK
<1> QED BY <1>9, <1>10, <1>11, <1>12, <1>13, <1>14

LEMMA HandleAnswerTypes ==
    ASSUME TypeInv, NEW w \in SockId,
           HandleHostkeyAccepted(w) \/ HandlePassphrase(w) \/ HandlePassword(w)
    PROVE  TypeInv'
<1> DEFINE r == request[Addressed]
<1>1. /\ pc = "handle" /\ rbuf # <<>>
      /\ \E op \in PromptOp : Waits(Addressed, op)
  BY DEF HandleHostkeyAccepted, HandlePassphrase, HandlePassword, Awaiting, Handling, PromptOp
<1>2. /\ Addressed \in requests /\ r \in Request /\ r.client # None /\ r.session # None
  BY <1>1, WaitingTypes
<1>3. known \subseteq Target \cup {NoTarget} /\ r.target \in Target \cup {NoTarget}
  BY <1>2 DEF TypeInv, TypeOK, StoresOK, Request
<1>4. CASE HandleHostkeyAccepted(w)
  BY <1>1, <1>2, <1>3, <1>4, AuthenticateTypes DEF HandleHostkeyAccepted
<1>5. ASSUME Incoming.op \in {"psphrase", "psword"}
      PROVE  /\ [r EXCEPT !.passphrase = Incoming.arg] \in Request
             /\ [r EXCEPT !.password = Incoming.arg] \in Request
  <2>1. Incoming.arg \in Credential
    BY <1>1, <1>5, IncomingTypes DEF TypeInv, TypeOK, Message
  <2> HIDE DEF r
  <2> QED BY <1>2, <2>1 DEF Request
<1>6. CASE HandlePassphrase(w)
  <2> DEFINE q == [r EXCEPT !.passphrase = Incoming.arg]
  <2>1. q \in Request /\ q.client # None /\ q.session # None
    BY <1>2, <1>5, <1>6 DEF HandlePassphrase, Awaiting, Handling, Request
  <2>2. Authenticate(Addressed, q, FALSE)
    BY <1>6 DEF HandlePassphrase
  <2> HIDE DEF q
  <2> QED BY <1>1, <1>2, <1>3, <1>6, <2>1, <2>2, AuthenticateTypes DEF HandlePassphrase
<1>7. CASE HandlePassword(w)
  <2> DEFINE q == [r EXCEPT !.password = Incoming.arg]
  <2>1. q \in Request /\ q.client # None /\ q.session # None
    BY <1>2, <1>5, <1>7 DEF HandlePassword, Awaiting, Handling, Request
  <2>2. Authenticate(Addressed, q, FALSE)
    BY <1>7 DEF HandlePassword
  <2> HIDE DEF q
  <2> QED BY <1>1, <1>2, <1>3, <1>7, <2>1, <2>2, AuthenticateTypes DEF HandlePassword
<1> QED BY <1>4, <1>6, <1>7

-----------------------------------------------------------------------------
(* Messages that end a request, and data *)

LEMMA CloseSessionWaiting ==
    ASSUME TypeInv, pc # "crashed", NEW s, NEW R \in SUBSET requests, NEW sk, NEW D,
           CloseSession(s, R, sk, D)
    PROVE  WaitingIsAttached'
<1>1. /\ requests' = R
      /\ \A r \in R : request'[r] = request[r] \/ request'[r] = Failed(request[r])
  BY RequestsInRange DEF CloseSession, TypeInv, TypeOK
<1>2. \A r \in R : request[r] \in Request
  BY RequestsInRange DEF TypeInv, TypeOK, RequestsOK
<1>3. \A k \in Request : Failed(k).state = "FAILED"
  BY DEF Failed, Request
<1> QED BY <1>1, <1>2, <1>3 DEF WaitingIsAttached, TypeInv

LEMMA HandleEndTypes ==
    ASSUME TypeInv, NEW w \in SockId, HandleHostkeyDeclined(w) \/ HandleError(w)
    PROVE  TypeInv'
<1> DEFINE r == request[Addressed]
<1>1. pc = "handle" /\ rbuf # <<>>
  BY DEF HandleHostkeyDeclined, HandleError, Awaiting, Handling
<1>2. CASE UNCHANGED <<memory, clients, devices, history>> /\ Consume
  BY <1>1, <1>2, ConsumeTypes, WaitingFrame, Frame, FrameMemory DEF TypeInv, TypeOK, memory
<1>3. CASE \E st \in SockState, D \in {{}, {Addressed}} :
              /\ CloseSession(r.session, Freed({Addressed}),
                              SetState({r.client, r.session}, st), D)
              /\ ConsumeAndShift(r.session)
  <2>1. PICK st \in SockState, D \in {{}, {Addressed}} :
              /\ CloseSession(r.session, Freed({Addressed}),
                              SetState({r.client, r.session}, st), D)
              /\ ConsumeAndShift(r.session)
    BY <1>3
  <2>2. SetState({r.client, r.session}, st) \in [SockId -> Sock]
    BY SetStateTypes DEF TypeInv, TypeOK
  <2>3. Freed({Addressed}) \in SUBSET requests
    BY DEF Freed
  <2>4. LoopOK'
    BY <1>1, <2>1, ConsumeAndShiftTypes DEF TypeInv, TypeOK
  <2> HIDE DEF r
  <2>5. WaitingIsAttached'
    BY <1>1, <2>1, <2>3, CloseSessionWaiting
  <2> QED BY <2>1, <2>2, <2>3, <2>4, <2>5, CloseSessionTypes DEF TypeInv, TypeOK
<1> QED BY <1>2, <1>3 DEF HandleHostkeyDeclined, HandleError, SockState

LEMMA HandleDataRefusedTypes ==
    ASSUME TypeInv, NEW w \in SockId,
           HandleDataUnknown(w) \/ HandleDataFails(w) \/ HandleDataSent(w)
    PROVE  TypeInv'
<1> USE DEF TypeInv, TypeOK
<1>1. pc = "handle" /\ rbuf # <<>>
  BY DEF HandleDataUnknown, HandleDataFails, HandleDataSent, Handling
<1>2. CASE HandleDataUnknown(w)
  <2>1. SocksOK'
    BY <1>2, SockWithState DEF HandleDataUnknown, SocksOK, SockState, lasts
  <2>2. LoopOK' /\ WaitingIsAttached'
    BY <1>1, <1>2, ConsumeTypes, WaitingFrame DEF HandleDataUnknown
  <2> QED BY <1>2, <2>1, <2>2, Frame DEF HandleDataUnknown, lasts
<1>3. CASE HandleDataSent(w)
  <2>1. LoopOK'
    BY <1>1, <1>3, ConsumeTypes DEF HandleDataSent
  <2>2. WaitingIsAttached'
    BY <1>1, <1>3, WaitingFrame DEF HandleDataSent, memory
  <2> QED BY <1>3, <2>1, <2>2, Frame, FrameMemory DEF HandleDataSent
<1>4. CASE HandleDataFails(w)
  <2> DEFINE r == request[Addressed]
  <2>1. PICK n \in {1, 2} : DataFails(Addressed, n)
    BY <1>4 DEF HandleDataFails
  <2>2. Addressed \in requests /\ Addressed \in RequestId
    BY <1>4, AddressedTypes DEF HandleDataFails
  <2>3. SocksOK'
    BY <2>1, SetStateTypes DEF DataFails, SocksOK, SockState, lasts
  <2>4. RequestsOK'
    <3>1. [r EXCEPT !.state = "ERROR"] \in Request
      BY <2>2 DEF RequestsOK, Request, SockState
    <3> QED BY <2>1, <2>2, <3>1 DEF DataFails, RequestsOK, lasts
  <2>5. HistoryOK'
    <3>1. answers' \in [RequestId -> Seq(Answer)]
      BY <2>1, ErrorsTypes DEF DataFails, HistoryOK
    <3> QED BY <2>1, <3>1 DEF DataFails, HistoryOK, attempt
  <2>6. LoopOK'
    BY <1>1, <2>1, ConsumeTypes DEF DataFails
  <2>7. WaitingIsAttached'
    <3>1. /\ requests' = requests
          /\ \/ request' = request
             \/ request' = [request EXCEPT ![Addressed].state = "ERROR"]
      BY <2>1 DEF DataFails
    <3>2. \A q \in requests : request'[q] = request[q] \/ request'[q].state = "ERROR"
      BY <2>2, <3>1, RequestsInRange DEF RequestsOK, Request
    <3> QED BY <1>1, <3>1, <3>2 DEF WaitingIsAttached
  <2> QED BY <2>1, <2>3, <2>4, <2>5, <2>6, <2>7, Frame DEF DataFails, lasts
<1> QED BY <1>2, <1>3, <1>4

LEMMA HandleDataOpensTypes ==
    ASSUME TypeInv, NEW w \in SockId, HandleDataOpens(w)
    PROVE  TypeInv'
<1> USE DEF TypeInv, TypeOK
<1> DEFINE id    == Addressed
<1> DEFINE r     == request[id]
<1> DEFINE s     == lastSock + 1
<1> DEFINE fails == r.channel = None /\ r.client # None
<1>1. /\ pc = "handle" /\ rbuf # <<>> /\ s \in 1..MaxSock /\ lastSock' = s
      /\ socks' = socks \cup {s} /\ id # None
      /\ answers' = IF fails THEN Errors({id}, 1) ELSE answers
      /\ UNCHANGED <<requests, channel, lastRequest, lastChannel, known, inbox, peer,
                     sent, extra, devices, got, tainted>>
  BY Bounds DEF HandleDataOpens, Handling, SocksOK
<1>2. id \in requests /\ id \in RequestId /\ r \in Request /\ s \in SockId /\ s # None
  BY <1>1, AddressedTypes DEF RequestsOK, SockId, None
<1>3. PICK o \in OpenOutcomes(r) :
         LET st == IF fails THEN "ERROR" ELSE o.state
         IN  /\ request' = [request EXCEPT ![id].state = st, ![id].session = s]
             /\ sock'    = [SetState({r.client}, st) EXCEPT
                               ![s] = [NewSession(r.target, o) EXCEPT !.state = st]]
             /\ RecordAttempt(id, r, s, o)
             /\ IF o.crash \/ (r.channel # None /\ channel[r.channel].list = "none")
                THEN Crash ELSE IF r.channel = None THEN Abandon ELSE Consume
  BY DEF HandleDataOpens
<1> DEFINE st == IF fails THEN "ERROR" ELSE o.state
<1>4. o.state \in SockState /\ o.pwfail \in Nat /\ st \in SockState
  BY OpenOutcome DEF SockState, Prompting
<1>5. o.crash \/ o.state \notin Prompting \/ r.client # None
  BY OpenOutcome
<1> DEFINE q == [r EXCEPT !.state = st, !.session = s]
<1>6. q \in Request /\ q.state = st /\ q.session = s /\ q.client = r.client
  BY <1>2, <1>4 DEF Request
<1>7. request' = [request EXCEPT ![id] = q]
  BY <1>2, <1>3 DEF RequestsOK
<1>8. RequestsOK'
  <2> HIDE DEF q
  <2> QED BY <1>1, <1>6, <1>7 DEF RequestsOK
<1>9. SocksOK'
  <2>1. SetState({r.client}, st) \in [SockId -> Sock]
    BY <1>4, SetStateTypes
  <2>2. [NewSession(r.target, o) EXCEPT !.state = st] \in Sock
    BY <1>2, <1>4, NewSessionTypes, SockWithState DEF Request
  <2>3. sock' \in [SockId -> Sock]
    BY <1>3, <2>1, <2>2
  <2> QED BY <1>1, <2>3 DEF SocksOK
<1>10. StoresOK' /\ ClientsOK' /\ HistoryOK'
  <2>1. answers' \in [RequestId -> Seq(Answer)]
    BY <1>1, ErrorsTypes DEF HistoryOK
  <2> QED BY <1>1, <1>2, <1>3, <1>5, <2>1, RecordAttemptTypes DEF StoresOK, ClientsOK, HistoryOK
<1>11. LoopOK'
  BY <1>1, <1>3, ConsumeTypes
<1>12. WaitingIsAttached'
  <2>1. st \in Prompting /\ r.client = None => pc' = "crashed"
    BY <1>3, <1>5 DEF Crash, Prompting
  <2>2. \A x \in requests : x # id => request'[x] = request[x]
    BY <1>7, RequestsInRange DEF RequestsOK
  <2>3. request'[id] = q
    BY <1>2, <1>7 DEF RequestsOK
  <2> HIDE DEF st
  <2> QED BY <1>1, <1>2, <1>6, <2>1, <2>2, <2>3 DEF WaitingIsAttached, Prompting
<1> QED BY <1>1, <1>8, <1>9, <1>10, <1>11, <1>12, Frame

LEMMA HandleRequestTypes ==
    ASSUME TypeInv, NEW w \in SockId, HandleRequest(w)
    PROVE  TypeInv'
BY HandleRpcReuseTypes, HandleRpcRefusedTypes, HandleRpcOpenTypes, HandleAuthinitTypes,
   HandleAnswerIgnoredTypes, HandleAnswerTypes, HandleEndTypes, HandleDataRefusedTypes,
   HandleDataOpensTypes DEF HandleRequest

-----------------------------------------------------------------------------
(* The poll loop *)

LEMMA CloseWaiting ==
    ASSUME TypeInv, pc # "crashed", NEW s \in SockId, Close(s)
    PROVE  WaitingIsAttached'
<1> USE DEF TypeInv, TypeOK
<1>1. CASE CloseSession(s, requests, sock, {})
  BY <1>1, CloseSessionWaiting
<1>2. CASE CloseWebsocket(s)
  <2>1. \A r \in requests :
           \/ request'[r] = request[r]
           \/ request'[r] = Failed(request[r])
    BY <1>2, RequestsInRange DEF CloseWebsocket
  <2>2. \A k \in Request : Failed(k).state = "FAILED"
    BY DEF Failed, Request
  <2>3. requests' = requests /\ \A r \in requests : request[r] \in Request
    BY <1>2, RequestsInRange DEF CloseWebsocket, RequestsOK
  <2> QED BY <2>1, <2>2, <2>3 DEF WaitingIsAttached
<1> QED BY <1>1, <1>2 DEF Close

\* Outside of the messages of clients, requests come to no new state but that of
\* failure, and only leave the list.
LEMMA LoopWaiting ==
    ASSUME TypeInv, Environment \/ PrepFails \/ Poll \/ ClosesVisited
                    \/ EndPassIdle \/ EndPassAccepts
                    \/ \E c \in ChannelId : ChannelInput(c)
    PROVE  WaitingIsAttached'
<1> USE DEF TypeInv, TypeOK
<1>1. CASE Environment
  <2>1. UNCHANGED <<pc, requests, request>>
    BY <1>1 DEF Environment, ClientRequests, ClientAnswers, ClientFollowsUp, ClientLeaves,
                DeviceReplies, DeviceEndsChannel, DeviceGoes, ClientUnchanged, memory, loop
  <2> QED BY <2>1 DEF WaitingIsAttached
<1>2. CASE PrepFails \/ ClosesVisited
  <2>1. PICK s \in SockId : Close(s)
    <3>1. FailedSocks \subseteq SockId
      BY SocksInRange DEF FailedSocks
    <3>2. CASE PrepFails
      <4>1. FailedSocks \subseteq 1..MaxSock /\ FailedSocks # {}
        BY <3>1, <3>2 DEF PrepFails, SockId
      <4>2. Newest(FailedSocks) \in SockId
        BY <4>1, <3>1, NewestIsMember, Bounds
      <4> QED BY <3>2, <4>2 DEF PrepFails
    <3>3. CASE ClosesVisited
      BY <3>1, <3>3 DEF ClosesVisited
    <3> QED BY <1>2, <3>2, <3>3
  <2>2. pc # "crashed"
    BY <1>2 DEF PrepFails, ClosesVisited
  <2> QED BY <2>1, <2>2, CloseWaiting
<1>3. CASE EndPassIdle \/ EndPassAccepts
  <2>1. pc # "crashed" /\ requests' \subseteq requests /\ request' = request
    BY <1>3 DEF EndPassIdle, EndPassAccepts, EndPass, Freed
  <2> QED BY <2>1 DEF WaitingIsAttached
<1>4. ASSUME NEW c \in ChannelId, ChannelInput(c)
      PROVE  WaitingIsAttached'
  <2>1. CASE InputAtEof(c)
    <3>1. pc # "crashed" /\ CloseSession(cursor, requests, sock, {})
      BY <2>1 DEF InputAtEof
    <3> QED BY <3>1, CloseSessionWaiting
  <2>2. CASE ~ InputAtEof(c)
    <3>1. pc # "crashed" /\ requests' \subseteq requests /\ request' = request
      BY <1>4, <2>2 DEF ChannelInput, InputDiscarded, InputRelayed, InputForFreedRequest,
                        InputSpins, Reading, Freed, memory
    <3> QED BY <3>1 DEF WaitingIsAttached
  <2> QED BY <2>1, <2>2
<1>5. CASE Poll
  <2>1. pc # "crashed" /\ UNCHANGED <<requests, request>>
    BY <1>5 DEF Poll, memory
  <2> QED BY <2>1, WaitingFrame
<1> QED BY <1>1, <1>2, <1>3, <1>4, <1>5

LEMMA VisitWaiting ==
    ASSUME TypeInv, NEW s \in SockId,
           \/ WebsocketReceives(s) \/ WebsocketDisconnects(s) \/ WebsocketReadError(s)
           \/ WebsocketMispolled(s) \/ VisitFailed(s) \/ VisitSession(s)
           \/ SessionPoller(s)
    PROVE  WaitingIsAttached'
<1>1. pc # "crashed" /\ UNCHANGED <<requests, request>>
  BY DEF WebsocketReceives, WebsocketDisconnects, WebsocketReadError, WebsocketMispolled,
         VisitFailed, VisitSession, SessionPoller, InputDone, Drain, Visiting, memory
<1> QED BY <1>1, WaitingFrame

-----------------------------------------------------------------------------
(* The theorem *)

LEMMA TypeInvNext == TypeInv /\ [Next]_vars => TypeInv'
<1> SUFFICES ASSUME TypeInv, [Next]_vars
             PROVE  TypeInv'
  OBVIOUS
<1>1. CASE Environment
  BY <1>1, EnvironmentTypes, LoopWaiting DEF TypeInv
<1>2. CASE PrepFails \/ Poll \/ ClosesVisited
  BY <1>2, PassTypes, LoopWaiting DEF TypeInv
<1>3. CASE EndPassIdle \/ EndPassAccepts
  BY <1>3, EndPassTypes, LoopWaiting DEF TypeInv
<1>4. ASSUME NEW c \in ChannelId, ChannelInput(c)
      PROVE  TypeInv'
  BY <1>4, InputDiscardedTypes, InputRelayedTypes, InputEndsTypes, LoopWaiting
  DEF TypeInv, ChannelInput
<1>5. ASSUME NEW s \in SockId, HandleRequest(s)
      PROVE  TypeInv'
  BY <1>5, HandleRequestTypes
<1>6. ASSUME NEW s \in SockId,
             \/ WebsocketReceives(s) \/ WebsocketDisconnects(s) \/ WebsocketReadError(s)
             \/ WebsocketMispolled(s) \/ VisitFailed(s) \/ VisitSession(s)
             \/ SessionPoller(s)
      PROVE  TypeInv'
  <2>1. TypeOK'
    BY <1>6, WebsocketPollerTypes, SessionPollerTypes DEF TypeInv
  <2>2. WaitingIsAttached'
    BY <1>6, VisitWaiting
  <2> QED BY <2>1, <2>2 DEF TypeInv
<1>7. CASE UNCHANGED vars
  <2>1. UNCHANGED <<memory, loop, clients, devices, history, pc, requests, request>>
    BY <1>7 DEF vars, memory, loop
  <2> QED BY <2>1, Frame, FrameMemory DEF TypeInv, TypeOK, WaitingIsAttached
<1> QED BY <1>1, <1>2, <1>3, <1>4, <1>5, <1>6, <1>7 DEF Next, Daemon, Pass

LEMMA TypeInvInit == Init => TypeInv
<1> SUFFICES ASSUME Init
             PROVE  TypeInv
  OBVIOUS
<1>1. SocksOK
  BY Bounds, NewWebsocketTypes DEF Init, SocksOK
<1>2. RequestsOK
  <2>1. (CHOOSE m \in Muxid : TRUE) \in Muxid
    BY ConstantsAssumption
  <2> QED BY <2>1, Bounds DEF Init, RequestsOK, Request, SockState, Credential
<1>3. ChannelsOK
  BY Bounds, NoChannelTypes DEF Init, ChannelsOK
<1>4. StoresOK
  BY ConstantsAssumption DEF Init, StoresOK
<1>5. LoopOK
  <2>1. cursor \in 0..(MaxSock + 1)
    BY Bounds DEF Init, None
  <2>2. rbuf \in Seq(Message)
    BY EmptySeq DEF Init
  <2>3. shifted \in BOOLEAN
    BY DEF Init
  <2> QED BY <2>1, <2>2, <2>3 DEF Init, LoopOK
<1>6. ClientsOK
  <2>1. inbox \in [SockId -> Seq(Message)]
    BY EmptySeq DEF Init
  <2> QED BY <2>1 DEF Init, ClientsOK
<1>7. DevicesOK
  <2>1. device \in [ChannelId -> Seq([rpc : RequestId, left : Nat \ {0}])]
    BY EmptySeq DEF Init
  <2>2. data \in [ChannelId -> Seq(Chunk)]
    BY EmptySeq DEF Init
  <2> QED BY <2>1, <2>2 DEF Init, DevicesOK
<1>8. HistoryOK
  <2>1. answers \in [RequestId -> Seq(Answer)]
    BY EmptySeq DEF Init
  <2> QED BY <2>1 DEF Init, HistoryOK
<1>9. WaitingIsAttached
  BY DEF Init, WaitingIsAttached
<1> QED BY <1>1, <1>2, <1>3, <1>4, <1>5, <1>6, <1>7, <1>8, <1>9 DEF TypeInv, TypeOK

\* In every behaviour, whatever the bounds, the operations and the faults: every
\* object of the daemon has its type, what an answer of a user is applied to (the
\* request, its client and its session) is there, and the lists hold only ids that
\* were given out.
THEOREM TypeInvariant == Spec => []TypeInv
BY TypeInvInit, TypeInvNext, PTL DEF Spec

\* The type invariant that the runs check.
THEOREM TypeCorrect == Spec => []TypeOK
<1>1. TypeInv => TypeOK
  BY DEF TypeInv
<1> QED BY <1>1, TypeInvariant, PTL
=============================================================================
