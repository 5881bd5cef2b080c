-------------------------- MODULE MixerAnswerSafety --------------------------
(***************************************************************************)
(* Answers in the mixer, for any number of clients, requests, sessions and *)
(* channels: that a request is answered once and after the whole reply,    *)
(* that the request a channel works for is there, and that no client is    *)
(* told more completions than it asked for.                                *)
(***************************************************************************)
EXTENDS MixerRelaySafety

-----------------------------------------------------------------------------
(* What clients ask for *)

\* An RPC names a device, an authinit names none
Letter == {m \in Message : /\ m.op = "rpc" => m.target \in Target
                           /\ m.op = "authinit" => m.target = NoTarget}

MailInv == inbox \in [SockId -> Seq(Letter)] /\ rbuf \in Seq(Letter)

LEMMA SentLetter ==
    ASSUME MailInv, NEW w \in SockId, NEW m \in Letter, Sends(w, m), rbuf' = rbuf
    PROVE  MailInv'
BY DEF MailInv, Sends

LEMMA ClientMail ==
    ASSUME TypeInv, MailInv, Environment
    PROVE  MailInv'
<1>1. rbuf' = rbuf
  BY DEF Environment, ClientRequests, ClientFollowsUp, ClientLeaves, ClientAnswers, DeviceReplies,
         DeviceEndsChannel, DeviceGoes, ClientUnchanged, loop, buffer
<1>2. ASSUME NEW w \in SockId, ClientRequests(w) PROVE MailInv'
  <2>1. PICK m \in Muxid :
         \/ Sends(w, [op |-> "authinit", muxid |-> m, reqid |-> None, target |-> NoTarget,
                      authws |-> None, arg |-> "text"])
         \/ \E t \in Target, a \in AuthWebsockets \cup {None},
               arg \in {"text"} \cup ({"nocreate"} \cap Ops) :
              Sends(w, [op |-> "rpc", muxid |-> m, reqid |-> None, target |-> t,
                        authws |-> a, arg |-> arg])
    BY <1>2 DEF ClientRequests
  <2>2. AuthWebsockets \subseteq SockId
    BY SocksInRange DEF TypeInv, TypeOK, AuthWebsockets, Websockets
  <2>3. CASE Sends(w, [op |-> "authinit", muxid |-> m, reqid |-> None, target |-> NoTarget,
                      authws |-> None, arg |-> "text"])
    <3> DEFINE a == [op |-> "authinit", muxid |-> m, reqid |-> None, target |-> NoTarget,
                     authws |-> None, arg |-> "text"]
    <3>1. a \in Letter
      BY <2>3, MessageIsTyped DEF Sends, Operation, Letter
    <3> QED BY <1>1, <2>3, <3>1, SentLetter
  <2>4. ASSUME NEW t \in Target, NEW a \in AuthWebsockets \cup {None},
               NEW arg \in {"text"} \cup ({"nocreate"} \cap Ops),
               Sends(w, [op |-> "rpc", muxid |-> m, reqid |-> None, target |-> t,
                         authws |-> a, arg |-> arg])
        PROVE MailInv'
    <3> DEFINE b == [op |-> "rpc", muxid |-> m, reqid |-> None, target |-> t,
                     authws |-> a, arg |-> arg]
    <3>1. b \in Letter
      BY <2>2, <2>4, MessageIsTyped DEF Sends, Operation, Letter
    <3> QED BY <1>1, <2>4, <3>1, SentLetter
  <2> QED BY <2>1, <2>3, <2>4
<1>3. ASSUME NEW w \in SockId, ClientFollowsUp(w) PROVE MailInv'
  <2>1. PICK m \in Muxid, op \in {"data", "error"} :
          Sends(w, [op |-> op, muxid |-> m, reqid |-> None, target |-> NoTarget,
                    authws |-> None, arg |-> "text"])
    BY <1>3 DEF ClientFollowsUp
  <2> DEFINE f == [op |-> op, muxid |-> m, reqid |-> None, target |-> NoTarget,
                   authws |-> None, arg |-> "text"]
  <2>2. f \in Letter
    BY <2>1, MessageIsTyped DEF Sends, Operation, Letter
  <2> QED BY <1>1, <2>1, <2>2, SentLetter
<1>4. ASSUME NEW p \in prompts, ClientAnswers(p) PROVE MailInv'
  <2>1. p \in Prompt /\ request[p.req] \in Request
    BY DEF TypeInv, TypeOK, ClientsOK, RequestsOK, Prompt
  <2>2. PICK a \in Says(p.op) :
          Sends(p.to, [op |-> p.op, muxid |-> request[p.req].muxid, reqid |-> p.req,
                       target |-> NoTarget, authws |-> None, arg |-> a])
    BY <1>4 DEF ClientAnswers
  <2> DEFINE m == [op |-> p.op, muxid |-> request[p.req].muxid, reqid |-> p.req,
                   target |-> NoTarget, authws |-> None, arg |-> a]
  <2>3. m \in Letter
    <3>1. p.op \in PromptOp /\ p.req \in RequestId /\ request[p.req].muxid \in Muxid
      BY <2>1 DEF Prompt, Request
    <3>2. a \in {"yes", "text", "empty"} /\ (p.op # "hostkey" => a \in Credential)
      BY <3>1 DEF Says, PromptOp, Credential
    <3> QED BY <2>2, <3>1, <3>2, MessageIsTyped DEF Sends, Operation, PromptOp, Letter
  <2> QED BY <1>1, <2>1, <2>2, <2>3, SentLetter DEF Prompt
<1>5. CASE \/ \E w \in SockId : ClientLeaves(w)
           \/ \E c \in ChannelId : DeviceReplies(c) \/ DeviceEndsChannel(c)
           \/ \E s \in SockId : DeviceGoes(s)
  BY <1>1, <1>5 DEF ClientLeaves, DeviceReplies, DeviceEndsChannel, DeviceGoes, clients, MailInv
<1> QED BY <1>2, <1>3, <1>4, <1>5 DEF Environment

LEMMA MailNext ==
    ASSUME TypeInv, MailInv, [Next]_vars
    PROVE  MailInv'
<1>1. CASE Environment
  BY <1>1, ClientMail
<1>2. CASE UNCHANGED vars
  BY <1>2 DEF vars, clients, loop, buffer, MailInv
<1>3. ASSUME inbox' \in {inbox} \cup {[inbox EXCEPT ![w] = <<>>] : w \in SockId},
             rbuf' \in {rbuf, <<>>} \/ (rbuf # <<>> /\ rbuf' = Tail(rbuf))
                \/ \E w \in SockId : rbuf' = inbox[w]
      PROVE  MailInv'
  <2>1. <<>> \in Seq(Letter)
    BY EmptySeq
  <2>2. rbuf # <<>> => Tail(rbuf) \in Seq(Letter)
    BY HeadTailProperties DEF MailInv
  <2> QED BY <1>3, <2>1, <2>2 DEF MailInv
<1>4. CASE PrepFails \/ ClosesVisited
  <2>1. PICK s \in SockId : Close(s)
    BY <1>4, ClosedIsSock
  <2>2. rbuf' = <<>> /\ inbox' \in {inbox, [inbox EXCEPT ![s] = <<>>]}
    BY <2>1 DEF Close, CloseWebsocket, CloseSession, clients
  <2> QED BY <1>3, <2>2
<1>5. CASE \E s \in SockId : WebsocketReceives(s)
  BY <1>3, <1>5 DEF WebsocketReceives
<1>6. CASE \/ Poll \/ EndPassIdle \/ EndPassAccepts
           \/ \E s \in SockId : \/ WebsocketDisconnects(s) \/ WebsocketReadError(s)
                                \/ WebsocketMispolled(s) \/ VisitFailed(s) \/ VisitSession(s)
                                \/ SessionPoller(s)
           \/ \E c \in ChannelId : ChannelInput(c)
  <2>1. rbuf' = rbuf /\ inbox' = inbox
    BY <1>6 DEF Poll, EndPassIdle, EndPassAccepts, EndPass, WebsocketDisconnects,
                WebsocketReadError, WebsocketMispolled, VisitFailed, VisitSession, SessionPoller,
                InputDone, Drain, ChannelInput, InputDiscarded, InputRelayed,
                InputForFreedRequest, InputSpins, InputAtEof, CloseSession, clients, buffer
  <2> QED BY <1>3, <2>1
<1>7. ASSUME NEW w \in SockId, HandleRequest(w) PROVE MailInv'
  <2>1. inbox' = inbox
    BY <1>7 DEF HandleRequest, HandleRpcReuse, HandleRpcNoCreate, HandleRpcOpenFails,
                HandleRpcOpen, HandleAuthinit, HandleAnswerIgnored, HandleHostkeyAccepted,
                HandlePassphrase, HandlePassword, HandleHostkeyDeclined, HandleError,
                HandleDataUnknown, HandleDataFails, DataFails, HandleDataSent, HandleDataOpens,
                CloseSession, clients
  <2>2. rbuf # <<>> /\ (Consume \/ Abandon \/ Crash \/ \E s : ConsumeAndShift(s))
    BY <1>7 DEF HandleRequest, HandleRpcReuse, HandleRpcNoCreate, HandleRpcOpenFails,
                HandleRpcOpen, HandleAuthinit, HandleAnswerIgnored, HandleHostkeyAccepted,
                HandlePassphrase, HandlePassword, HandleHostkeyDeclined, HandleError,
                HandleDataUnknown, HandleDataFails, DataFails, HandleDataSent, HandleDataOpens,
                Handling, Awaiting, Authenticate
  <2>3. rbuf' \in {rbuf, <<>>, Tail(rbuf)}
    BY <2>2 DEF Consume, Abandon, Crash, ConsumeAndShift, buffer
  <2> QED BY <1>3, <2>1, <2>2, <2>3
<1> QED BY <1>1, <1>2, <1>4, <1>5, <1>6, <1>7 DEF Next, Daemon, Pass

-----------------------------------------------------------------------------
(* Channels on which no RPC is sent *)

\* What is on channel c gets less, and whatever it works for it did before
Shrinks(c) ==
    /\ Pending(c)' \subseteq Pending(c)
    /\ channel'[c].client \in {None, channel[c].client}
    /\ channel'[c].list = "inuse" => /\ channel[c].list = "inuse"
                                     /\ channel'[c].session = channel[c].session
                                     /\ channel'[c].request = channel[c].request
    /\ channel[c].list = "inuse" /\ channel'[c].list # "inuse" => channel'[c].client = None

LEMMA PendingStays ==
    ASSUME NEW c, UNCHANGED <<device[c], data[c]>>
    PROVE  Pending(c)' = Pending(c)
BY DEF Pending, Chunks

LEMMA PendingOfTail ==
    ASSUME RelayTypes, NEW c \in ChannelId, data[c] # <<>>, data'[c] = Tail(data[c]),
           device'[c] = device[c]
    PROVE  Pending(c)' \subseteq Pending(c)
<1> DEFINE q == data[c]
<1>1. q \in Seq(Chunk) /\ q # <<>> /\ data'[c] = Tail(q)
  BY DEF RelayTypes, DevicesOK
<1> HIDE DEF q
<1>2. \A i \in DOMAIN Tail(q) : i + 1 \in DOMAIN q /\ Tail(q)[i] = q[i + 1]
  <2>1. /\ Len(Tail(q)) = Len(q) - 1 /\ Len(q) \in Nat \ {0} /\ Tail(q) \in Seq(Chunk)
        /\ \A i \in 1..(Len(q) - 1) : Tail(q)[i] = q[i + 1]
    BY <1>1, HeadTailProperties, EmptySeq, LenProperties
  <2>2. DOMAIN Tail(q) = 1..(Len(q) - 1) /\ DOMAIN q = 1..Len(q)
    BY <1>1, <2>1, LenProperties
  <2> QED BY <2>1, <2>2
<1>3. Chunks(c)' \subseteq Chunks(c)
  BY <1>1, <1>2 DEF Chunks, q
<1> QED BY <1>3 DEF Pending

LEMMA PendingOfReplies ==
    ASSUME RelayTypes, NEW c \in ChannelId, DeviceReplies(c)
    PROVE  Pending(c)' \subseteq Pending(c)
<1> DEFINE Reply == [rpc : RequestId, left : Nat \ {0}]
           q == device[c]
           p == data[c]
           d == Head(q)
           e == [rpc |-> d.rpc, last |-> d.left = 1]
<1>1. /\ q \in Seq(Reply) /\ q # <<>> /\ p \in Seq(Chunk) /\ data'[c] = Append(p, e)
      /\ device'[c] = IF d.left = 1 THEN Tail(q) ELSE [q EXCEPT ![1].left = d.left - 1]
  BY DEF RelayTypes, DevicesOK, DeviceReplies
<1>2. 1 \in DOMAIN q /\ d = q[1] /\ d \in Reply
  <2> HIDE DEF q, Reply
  <2>1. Len(q) \in Nat \ {0} /\ DOMAIN q = 1..Len(q) /\ Head(q) = q[1] /\ Head(q) \in Reply
    BY <1>1, EmptySeq, LenProperties, HeadTailProperties
  <2> QED BY <2>1
<1>3. d.rpc \in Pending(c)
  BY <1>2 DEF Pending
<1>4. e \in Chunk /\ e.rpc = d.rpc
  BY <1>2 DEF Chunk
<1>5. Chunks(c)' \subseteq Chunks(c) \cup {d.rpc}
  <2> HIDE DEF e, d, q
  <2>1. /\ Len(Append(p, e)) = Len(p) + 1 /\ Append(p, e)[Len(p) + 1] = e /\ Len(p) \in Nat
        /\ \A i \in 1..Len(p) : Append(p, e)[i] = p[i]
        /\ Append(p, e) \in Seq(Chunk)
    BY <1>1, <1>4, AppendProperties, LenProperties
  <2>2. DOMAIN Append(p, e) = 1..(Len(p) + 1) /\ DOMAIN p = 1..Len(p)
    BY <1>1, <2>1, LenProperties
  <2>3. ASSUME NEW i \in DOMAIN Append(p, e)
        PROVE  Append(p, e)[i].rpc \in {p[j].rpc : j \in DOMAIN p} \cup {d.rpc}
    BY <1>4, <2>1, <2>2
  <2> QED BY <1>1, <2>3 DEF Chunks
<1>6. {device'[c][i].rpc : i \in DOMAIN device'[c]} \subseteq {q[i].rpc : i \in DOMAIN q}
  <2>1. CASE d.left = 1
    <3>1. device'[c] = Tail(q)
      BY <1>1, <2>1
    <3> HIDE DEF q, Reply
    <3>2. \A i \in DOMAIN Tail(q) : i + 1 \in DOMAIN q /\ Tail(q)[i] = q[i + 1]
      <4>1. /\ Len(Tail(q)) = Len(q) - 1 /\ Len(q) \in Nat \ {0} /\ Tail(q) \in Seq(Reply)
            /\ \A i \in 1..(Len(q) - 1) : Tail(q)[i] = q[i + 1]
        BY <1>1, HeadTailProperties, EmptySeq, LenProperties
      <4>2. DOMAIN Tail(q) = 1..(Len(q) - 1) /\ DOMAIN q = 1..Len(q)
        BY <1>1, <4>1, LenProperties
      <4> QED BY <4>1, <4>2
    <3> QED BY <3>1, <3>2
  <2>2. CASE d.left # 1
    <3> DEFINE f == [q[1] EXCEPT !.left = d.left - 1]
    <3>1. device'[c] = [q EXCEPT ![1] = f]
      BY <1>1, <2>2
    <3>2. f.rpc = q[1].rpc
      BY <1>2
    <3>3. DOMAIN device'[c] = DOMAIN q /\ \A i \in DOMAIN q : device'[c][i] = IF i = 1 THEN f ELSE q[i]
      <4> HIDE DEF f, q
      <4> QED BY <3>1
    <3>4. \A i \in DOMAIN q : device'[c][i].rpc = q[i].rpc
      <4> HIDE DEF f, q
      <4> QED BY <3>2, <3>3
    <3> HIDE DEF q
    <3> QED BY <3>3, <3>4
  <2> QED BY <2>1, <2>2
<1> QED BY <1>3, <1>5, <1>6 DEF Pending

LEMMA ShrinksStill ==
    ASSUME NEW c, UNCHANGED <<channel[c], device[c], data[c]>>
    PROVE  Shrinks(c)
BY PendingStays DEF Shrinks

LEMMA ShrinksGone ==
    ASSUME NEW c, channel'[c] = NoChannel, device'[c] = <<>>, data'[c] = <<>>
    PROVE  Shrinks(c)
<1>1. DOMAIN <<>> = {}
  OBVIOUS
<1>2. Pending(c)' = {}
  BY <1>1 DEF Pending, Chunks
<1> QED BY <1>2 DEF Shrinks, NoChannel

LEMMA InputShrinks ==
    ASSUME TypeInv, NEW c \in ChannelId,
           InputDiscarded(c) \/ InputRelayed(c) \/ InputForFreedRequest(c) \/ InputSpins(c)
    PROVE  /\ \A d \in ChannelId : Shrinks(d)
           /\ data[c] # <<>> /\ Head(data[c]) \in Chunk /\ Head(data[c]).rpc \in Pending(c)
<1>1. /\ RelayTypes /\ channel[c] \in Channel /\ channel \in [ChannelId -> Channel]
      /\ device' = device /\ data \in [ChannelId -> Seq(Chunk)]
  BY RelayTyped DEF TypeInv, RelayTypes, DevicesOK, InputDiscarded, InputRelayed,
                    InputForFreedRequest, InputSpins
<1>2. data[c] # <<>> /\ data' = [data EXCEPT ![c] = Tail(@)]
  <2>1. Reading(c)
    BY DEF InputDiscarded, InputRelayed, InputForFreedRequest, InputSpins
  <2>2. Len(data[c]) > 0
    BY <1>1, <2>1, LenProperties DEF Reading, HasChunk
  <2>3. Len(<<>>) = 0
    OBVIOUS
  <2>4. data[c] # <<>>
    BY <2>2, <2>3
  <2> QED BY <2>1, <2>4 DEF Reading
<1>3. /\ data'[c] = Tail(data[c]) /\ \A d \in ChannelId \ {c} : data'[d] = data[d]
      /\ Head(data[c]) \in Chunk /\ Head(data[c]) = data[c][1] /\ 1 \in DOMAIN data[c]
  BY <1>1, <1>2, RestOfReply
<1>4. Pending(c)' \subseteq Pending(c)
  BY <1>1, <1>2, <1>3, PendingOfTail
<1>5. Head(data[c]).rpc \in Pending(c)
  BY <1>3 DEF Pending, Chunks
<1>6. \/ channel' = channel
      \/ \E k \in Channel : /\ channel' = [channel EXCEPT ![c] = k]
                            /\ k.client \in {None, channel[c].client}
                            /\ k.list = "inuse" => /\ channel[c].list = "inuse"
                                                   /\ k.session = channel[c].session
                                                   /\ k.request = channel[c].request
                            /\ k.list # "inuse" => k.client = None \/ channel[c].list # "inuse"
  <2>1. CASE InputDiscarded(c)
    <3> DEFINE k == Discard(channel[c], Head(data[c]))
    <3>1. channel' = [channel EXCEPT ![c] = k]
      BY <2>1 DEF InputDiscarded
    <3>2. /\ k \in Channel /\ k.session = channel[c].session
          /\ \/ k.list = channel[c].list /\ k.client = channel[c].client
                /\ k.request = channel[c].request
             \/ k.list = "released" /\ k.client = None
      BY <1>1, <1>3, DiscardEffect
    <3> HIDE DEF k
    <3> QED BY <3>1, <3>2
  <2>2. CASE InputRelayed(c)
    <3> DEFINE a == ReleasedFrom([channel[c] EXCEPT !.state = "RPC_COMPLETE", !.eoframe = FALSE])
               b == [channel[c] EXCEPT !.state = "RPC_IDLE"]
    <3>1. /\ a \in Channel /\ a.client = None /\ a.list = "released"
          /\ b \in Channel /\ b.client = channel[c].client /\ b.list = channel[c].list
          /\ b.session = channel[c].session /\ b.request = channel[c].request
      BY <1>1 DEF Channel, ChannelState, ReleasedFrom
    <3>2. channel' \in {[channel EXCEPT ![c] = a], [channel EXCEPT ![c] = b]}
      BY <2>2 DEF InputRelayed
    <3> HIDE DEF a, b
    <3> QED BY <3>1, <3>2
  <2>3. CASE InputForFreedRequest(c) \/ InputSpins(c)
    BY <2>3 DEF InputForFreedRequest, InputSpins, memory
  <2> QED BY <2>1, <2>2, <2>3
<1>7. /\ channel'[c].client \in {None, channel[c].client}
      /\ channel'[c].list = "inuse" => /\ channel[c].list = "inuse"
                                       /\ channel'[c].session = channel[c].session
                                       /\ channel'[c].request = channel[c].request
      /\ channel[c].list = "inuse" /\ channel'[c].list # "inuse" => channel'[c].client = None
      /\ \A d \in ChannelId \ {c} : channel'[d] = channel[d]
  BY <1>1, <1>6
<1>8. Shrinks(c)
  BY <1>4, <1>7 DEF Shrinks
<1>9. \A d \in ChannelId \ {c} : Shrinks(d)
  BY <1>1, <1>3, <1>7, ShrinksStill
<1> QED BY <1>2, <1>3, <1>5, <1>8, <1>9

LEMMA DeviceRepliesShrinks ==
    ASSUME TypeInv, NEW c \in ChannelId, DeviceReplies(c)
    PROVE  \A d \in ChannelId : Shrinks(d)
<1>1. RelayTypes /\ channel' = channel
  BY RelayTyped DEF TypeInv, DeviceReplies, memory
<1>2. \A d \in ChannelId \ {c} : data'[d] = data[d] /\ device'[d] = device[d]
  BY <1>1 DEF DeviceReplies, RelayTypes, DevicesOK
<1>3. Pending(c)' \subseteq Pending(c)
  BY <1>1, PendingOfReplies
<1> QED BY <1>1, <1>2, <1>3, ShrinksStill DEF Shrinks

LEMMA CloseSessionShrinks ==
    ASSUME NEW s, NEW R, NEW sk, NEW D, CloseSession(s, R, sk, D)
    PROVE  \A c \in ChannelId : Shrinks(c)
<1> DEFINE gone == InUse(s) \cup Released(s)
<1>1. ASSUME NEW c \in ChannelId
      PROVE  /\ channel'[c] = IF c \in gone THEN NoChannel ELSE channel[c]
             /\ device'[c] = IF c \in gone THEN <<>> ELSE device[c]
             /\ data'[c] = IF c \in gone THEN <<>> ELSE data[c]
  BY DEF CloseSession
<1> HIDE DEF gone
<1> QED BY <1>1, ShrinksStill, ShrinksGone

LEMMA CloseWebsocketShrinks ==
    ASSUME TypeInv, NEW w \in SockId, CloseWebsocket(w)
    PROVE  \A c \in ChannelId : Shrinks(c)
<1>1. PICK release :
         channel' = [c \in ChannelId |->
               IF c \in release
               THEN [channel[c] EXCEPT !.list = IF @ = "none" THEN @ ELSE "released",
                                       !.client = None, !.request = None]
               ELSE IF channel[c].client = w THEN [channel[c] EXCEPT !.client = None]
               ELSE channel[c]]
  BY DEF CloseWebsocket
<1>2. UNCHANGED <<device, data>> /\ channel \in [ChannelId -> Channel]
  BY RelayTyped DEF CloseWebsocket, devices, TypeInv
<1>3. ASSUME NEW c \in ChannelId PROVE Shrinks(c)
  <2>1. channel[c] \in Channel /\ Pending(c)' = Pending(c)
    BY <1>2, PendingStays
  <2>2. CASE c \in release
    BY <1>1, <2>1, <2>2 DEF Channel, Shrinks
  <2>3. CASE c \notin release
    BY <1>1, <2>1, <2>3 DEF Channel, Shrinks
  <2> QED BY <2>2, <2>3
<1> QED BY <1>3

LEMMA DrainShrinks ==
    ASSUME TypeInv, NEW s \in SockId, Drain(s)
    PROVE  \A c \in ChannelId : Shrinks(c)
<1> DEFINE noisy == {c \in Released(s) : data[c] # <<>> \/ c \in eof}
           heard == {c \in noisy : HasChunk(c)}
<1>1. RelayTypes /\ channel \in [ChannelId -> Channel] /\ data \in [ChannelId -> Seq(Chunk)]
      /\ device \in [ChannelId -> Seq([rpc : RequestId, left : Nat \ {0}])]
  BY RelayTyped DEF TypeInv, RelayTypes, DevicesOK
<1>2. CASE noisy = {}
  BY <1>2, ShrinksStill DEF Drain
<1>3. ASSUME noisy # {}, NEW c \in ChannelId PROVE Shrinks(c)
  <2>1. PICK dead \in noisy :
         /\ channel' = [x \in ChannelId |-> IF x = dead THEN NoChannel
                                           ELSE IF x \in heard THEN Discard(channel[x], Head(data[x]))
                                           ELSE channel[x]]
         /\ data'    = [x \in ChannelId |-> IF x = dead \/ (x \in noisy /\ x \notin heard) THEN <<>>
                                           ELSE IF x \in heard THEN Tail(data[x]) ELSE data[x]]
         /\ device'  = [device EXCEPT ![dead] = <<>>]
    BY <1>3 DEF Drain
  <2>2. dead \in ChannelId /\ \A x \in heard : x \in noisy /\ Len(data[x]) > 0
    BY <1>1, LenProperties DEF Released, HasChunk
  <2>3. \A x \in noisy : channel[x].list = "released"
    BY DEF Released
  <2> HIDE DEF noisy, heard
  <2>4. channel[c] \in Channel /\ data[c] \in Seq(Chunk)
    BY <1>1
  <2>5. CASE c = dead
    BY <1>1, <2>1, <2>2, <2>5, ShrinksGone
  <2>6. CASE c # dead /\ c \in heard
    <3>1. data[c] # <<>>
      <4>1. Len(<<>>) = 0
        OBVIOUS
      <4> QED BY <2>2, <2>6, <4>1
    <3>2. /\ channel'[c] = Discard(channel[c], Head(data[c])) /\ data'[c] = Tail(data[c])
          /\ device'[c] = device[c] /\ Head(data[c]) \in Chunk
      BY <1>1, <2>1, <2>4, <2>6, <3>1, HeadTailProperties
    <3>3. Pending(c)' \subseteq Pending(c)
      BY <1>1, <3>1, <3>2, PendingOfTail
    <3>4. /\ channel[c].list = "released" /\ channel'[c].list = "released"
          /\ channel'[c].client \in {None, channel[c].client}
      BY <2>2, <2>3, <2>4, <2>6, <3>2, DiscardEffect
    <3> QED BY <3>3, <3>4 DEF Shrinks
  <2>7. CASE c # dead /\ c \notin heard
    <3>1. channel'[c] = channel[c] /\ device'[c] = device[c]
          /\ data'[c] = IF c \in noisy THEN <<>> ELSE data[c]
      BY <1>1, <2>1, <2>7
    <3>2. CASE c \notin noisy
      BY <3>1, <3>2, ShrinksStill
    <3>3. CASE c \in noisy
      <4>1. DOMAIN <<>> = {}
        OBVIOUS
      <4>2. Pending(c)' \subseteq Pending(c)
        BY <3>1, <3>3, <4>1 DEF Pending, Chunks
      <4> QED BY <3>1, <4>2 DEF Shrinks
    <3> QED BY <3>2, <3>3
  <2> QED BY <2>5, <2>6, <2>7
<1> QED BY <1>2, <1>3

\* The channel that an RPC is sent on gets its reply to carry
LEMMA SendPending ==
    ASSUME TypeOK, NEW id \in RequestId, NEW s \in SockId, NEW w \in SockId \cup {None},
           NEW c \in ChannelFor(s) \cup {None}, SendRpc(id, c, s, w), data' = data
    PROVE  /\ c \in ChannelId \cup {None}
           /\ \A d \in ChannelId : d # c => Shrinks(d)
           /\ c # None => Pending(c)' \subseteq Pending(c) \cup {id}
<1>1. c \in ChannelId \cup {None} /\ None \notin ChannelId
  BY ChannelForTypes DEF None, ChannelId
<1>2. ASSUME NEW d \in ChannelId, d # c PROVE Shrinks(d)
  <2>1. channel'[d] = channel[d] /\ device'[d] = device[d]
    BY <1>1, <1>2, SendOthers
  <2> QED BY <2>1, ShrinksStill
<1>3. ASSUME c # None PROVE Pending(c)' \subseteq Pending(c) \cup {id}
  <2> DEFINE m == [rpc |-> id, left |-> ReplyChunks]
             Reply == [rpc : RequestId, left : Nat \ {0}]
             q == device[c]
  <2>1. q \in Seq(Reply) /\ m \in Reply /\ m.rpc = id /\ device'[c] \in {q, Append(q, m)}
    BY <1>1, <1>3, RelayTyped, SendEffect, Bounds
  <2> HIDE DEF q, m, Reply
  <2>2. /\ Len(Append(q, m)) = Len(q) + 1 /\ Append(q, m)[Len(q) + 1] = m /\ Len(q) \in Nat
        /\ \A i \in 1..Len(q) : Append(q, m)[i] = q[i]
        /\ Append(q, m) \in Seq(Reply)
    BY <2>1, AppendProperties, LenProperties
  <2>3. DOMAIN Append(q, m) = 1..(Len(q) + 1) /\ DOMAIN q = 1..Len(q)
    BY <2>1, <2>2, LenProperties
  <2>4. \A i \in DOMAIN Append(q, m) : Append(q, m)[i].rpc \in {q[j].rpc : j \in DOMAIN q} \cup {id}
    BY <2>1, <2>2, <2>3
  <2>5. \A i \in DOMAIN device'[c] : device'[c][i].rpc \in {q[j].rpc : j \in DOMAIN q} \cup {id}
    BY <2>1, <2>4
  <2> QED BY <2>5 DEF Pending, Chunks, q
<1> QED BY <1>1, <1>2, <1>3

-----------------------------------------------------------------------------
(* Steps that send no RPC *)

\* Channel c is the one that request r runs on
Works(c, r) == channel[c].list = "inuse" /\ channel[c].request = r

Completed(r) == "complete" \in {answers[r][i] : i \in DOMAIN answers[r]}

\* Request r is what it was, or has lost its client, session and channel
Fades(r) ==
    /\ request'[r].target = request[r].target
    /\ request'[r].client  \in {None, request[r].client}
    /\ request'[r].channel \in {None, request[r].channel}
    /\ request'[r].state \in Prompting /\ pc' # "crashed" =>
          \/ request[r].state \in Prompting /\ pc # "crashed"
          \/ request[r].channel # None
    /\ NoData => /\ request'[r].session \in {None, request[r].session}
                 /\ request'[r].state \in Prompting => request[r].state \in Prompting

\* Request r is told of an error: it is over, and so is the session it ran on
Told(r) ==
    /\ Completed(r)' => Completed(r)
    /\ r \in requests' => /\ request'[r].state \notin Prompting
                          /\ request[r].session # None
                          /\ \A c \in ChannelId : Works(c, r)'
                                => channel'[c].session # request[r].session

\* The sockets S excepted, nothing is counted
CountersKept(S) ==
    /\ \A x \in 1..lastSock \ S : /\ sock'[x].kind = sock[x].kind
                                  /\ sock'[x].made = sock[x].made
                                  /\ sock'[x].complete = sock[x].complete
    /\ lastSock <= lastSock'
    /\ \A x \in 1..lastSock' : x > lastSock => sock'[x].made = 0 /\ sock'[x].complete = 0

\* What every step does that sends no RPC, takes no request and completes none
Winds ==
    /\ requests' \subseteq requests /\ lastRequest' = lastRequest
    /\ \A c \in ChannelId : Shrinks(c)
    /\ \A r \in requests' : Fades(r)
    /\ CountersKept({})
    /\ \A r \in RequestId : /\ got[r] \subseteq got'[r]
                            /\ \/ answers'[r] = answers[r]
                               \/ r \in requests /\ (NoData => Told(r))

\* Nothing happens to the requests, but that some leave the list
LEMMA WindsOn ==
    ASSUME requests' \subseteq requests, UNCHANGED <<request, lastRequest, answers>>,
           \A c \in ChannelId : Shrinks(c), CountersKept({}),
           \A r \in RequestId : got[r] \subseteq got'[r],
           pc' # "crashed" => pc # "crashed"
    PROVE  Winds
BY DEF Winds, Fades

LEMMA CountersStay ==
    ASSUME SocksOK, UNCHANGED lastSock,
           \/ sock' = sock \/ \E x \in SockId : \E st : sock' = [sock EXCEPT ![x].state = st]
    PROVE  CountersKept({})
<1>1. lastSock \in Nat /\ sock \in [SockId -> Sock] /\ 1..lastSock \subseteq SockId
  BY Bounds DEF SocksOK, SockId
<1>2. \A x \in SockId : /\ sock'[x].kind = sock[x].kind
                        /\ sock'[x].made = sock[x].made
                        /\ sock'[x].complete = sock[x].complete
  BY <1>1 DEF Sock
<1> QED BY <1>1, <1>2 DEF CountersKept

LEMMA ClientsWind ==
    ASSUME TypeInv, Environment \/ UNCHANGED vars
    PROVE  Winds
<1>1. UNCHANGED <<requests, request, lastRequest, answers, got, sock, lastSock, pc, channel>>
  BY DEF Environment, ClientRequests, ClientAnswers, ClientFollowsUp, ClientLeaves,
         DeviceReplies, DeviceEndsChannel, DeviceGoes, ClientUnchanged, memory, loop,
         history, lasts, vars
<1>2. CountersKept({})
  BY <1>1, CountersStay DEF TypeInv, TypeOK
<1>3. CASE \E c \in ChannelId : DeviceReplies(c)
  BY <1>1, <1>2, <1>3, DeviceRepliesShrinks, WindsOn
<1>4. CASE ~ \E c \in ChannelId : DeviceReplies(c)
  <2>1. UNCHANGED <<device, data>>
    BY <1>4 DEF Environment, ClientRequests, ClientAnswers, ClientFollowsUp, ClientLeaves,
         DeviceEndsChannel, DeviceGoes, ClientUnchanged, devices, vars
  <2>2. \A c \in ChannelId : Shrinks(c)
    BY <1>1, <2>1, ShrinksStill
  <2> QED BY <1>1, <1>2, <2>2, WindsOn
<1> QED BY <1>3, <1>4

LEMMA PollersWind ==
    ASSUME TypeInv,
           \/ Poll
           \/ \E s \in SockId : \/ WebsocketReceives(s) \/ WebsocketDisconnects(s)
                                \/ WebsocketReadError(s) \/ WebsocketMispolled(s)
                                \/ VisitFailed(s) \/ VisitSession(s) \/ SessionPoller(s)
    PROVE  Winds
<1>1. UNCHANGED <<requests, request, lastRequest, answers, got, lastSock>> /\ pc # "crashed"
  BY DEF Poll, WebsocketReceives, WebsocketDisconnects, WebsocketReadError, WebsocketMispolled,
         VisitFailed, VisitSession, SessionPoller, InputDone, Drain, Visiting, memory, lasts,
         history
<1>2. sock' = sock \/ \E x \in SockId : \E st : sock' = [sock EXCEPT ![x].state = st]
  BY DEF Poll, WebsocketReceives, WebsocketDisconnects, WebsocketReadError, WebsocketMispolled,
         VisitFailed, VisitSession, SessionPoller, InputDone, Drain, memory
<1>3. CountersKept({})
  BY <1>1, <1>2, CountersStay DEF TypeInv, TypeOK
<1>4. CASE \E s \in SockId : Drain(s)
  BY <1>1, <1>3, <1>4, DrainShrinks, WindsOn
<1>5. CASE ~ \E s \in SockId : Drain(s)
  <2>1. UNCHANGED <<channel, device, data>>
    BY <1>5 DEF Poll, WebsocketReceives, WebsocketDisconnects, WebsocketReadError,
                WebsocketMispolled, VisitFailed, VisitSession, SessionPoller, InputDone,
                memory, devices
  <2>2. \A c \in ChannelId : Shrinks(c)
    BY <2>1, ShrinksStill
  <2> QED BY <1>1, <1>3, <2>2, WindsOn
<1> QED BY <1>4, <1>5

LEMMA InputWinds ==
    ASSUME TypeInv, NEW c \in ChannelId,
           \/ InputDiscarded(c) \/ InputForFreedRequest(c) \/ InputSpins(c)
           \/ InputRelayed(c) /\ ~ AtEndOfFrame(c)
    PROVE  Winds
<1>1. UNCHANGED <<requests, request, lastRequest, answers, sock, lastSock>> /\ pc # "crashed"
  BY DEF InputDiscarded, InputForFreedRequest, InputSpins, InputRelayed, Reading, memory, lasts,
         history
<1>2. \A r \in RequestId : got[r] \subseteq got'[r]
  <2>1. got \in [RequestId -> SUBSET RequestId]
    BY DEF TypeInv, TypeOK, HistoryOK
  <2>2. \/ got' = got
        \/ \E id, x : got' = [got EXCEPT ![id] = @ \cup {x}]
    BY DEF InputDiscarded, InputForFreedRequest, InputSpins, InputRelayed, history
  <2> QED BY <2>1, <2>2
<1>3. CountersKept({})
  BY <1>1, CountersStay DEF TypeInv, TypeOK
<1>4. \A d \in ChannelId : Shrinks(d)
  BY InputShrinks
<1> QED BY <1>1, <1>2, <1>3, <1>4, WindsOn

LEMMA EndPassWinds ==
    ASSUME SafetyInv, EndPassIdle \/ EndPassAccepts
    PROVE  Winds
<1>1. /\ requests' \subseteq requests /\ UNCHANGED <<request, lastRequest, answers, got>>
      /\ UNCHANGED <<channel, device, data>> /\ pc # "crashed"
  BY DEF EndPassIdle, EndPassAccepts, EndPass, Freed, devices, history
<1>2. \A c \in ChannelId : Shrinks(c)
  BY <1>1, ShrinksStill
<1>3. /\ HealthySocks \in [SockId -> Sock] /\ sock \in [SockId -> Sock]
      /\ lastSock \in Nat /\ 1..lastSock \subseteq SockId
  BY HealthyStateTypes, SockWithState, Bounds
  DEF HealthySocks, SafetyInv, TypeInv, TypeOK, SocksOK, SockId
<1>4. \A x \in SockId : /\ HealthySocks[x].kind = sock[x].kind
                        /\ HealthySocks[x].made = sock[x].made
                        /\ HealthySocks[x].complete = sock[x].complete
  BY <1>3 DEF HealthySocks, Sock
<1>5. CASE EndPassIdle
  <2>1. CountersKept({})
    BY <1>3, <1>4, <1>5 DEF EndPassIdle, CountersKept
  <2> QED BY <1>1, <1>2, <2>1, WindsOn
<1>6. CASE EndPassAccepts
  <2> DEFINE w == lastSock + 1
  <2>1. /\ lastSock' = w /\ w \in SockId /\ sock' = [HealthySocks EXCEPT ![w] = NewWebsocket]
    BY <1>3, <1>6, Bounds DEF EndPassAccepts, SockId
  <2>2. sock'[w] = NewWebsocket /\ \A x \in SockId \ {w} : sock'[x] = HealthySocks[x]
    BY <1>3, <2>1
  <2>3. NewWebsocket.made = 0 /\ NewWebsocket.complete = 0
    BY DEF NewWebsocket
  <2>4. CountersKept({})
    BY <1>3, <1>4, <2>1, <2>2, <2>3 DEF CountersKept
  <2> QED BY <1>1, <1>2, <2>4, WindsOn
<1> QED BY <1>5, <1>6

\* What fails loses client, session and channel
LEMMA FailedFades ==
    ASSUME NEW r \in RequestId, request[r] \in Request,
           request'[r] = request[r] \/ request'[r] = Failed(request[r]), pc # "crashed"
    PROVE  /\ Fades(r)
           /\ request'[r] # request[r] => request'[r].state = "FAILED"
<1>1. /\ Failed(request[r]).state = "FAILED" /\ Failed(request[r]).client = None
      /\ Failed(request[r]).session = None /\ Failed(request[r]).channel = None
      /\ Failed(request[r]).target = request[r].target
  BY DEF Failed, Request
<1>2. CASE request'[r] = request[r]
  BY <1>2 DEF Fades
<1>3. CASE request'[r] = Failed(request[r])
  BY <1>1, <1>3 DEF Fades, Prompting
<1> QED BY <1>1, <1>2, <1>3

LEMMA CloseWebsocketWinds ==
    ASSUME TypeInv, NEW w \in SockId, CloseWebsocket(w), pc # "crashed"
    PROVE  Winds
<1>1. /\ requests' = requests /\ UNCHANGED <<sock, lastSock, lastRequest, answers, got>>
      /\ requests \subseteq RequestId /\ request \in [RequestId -> Request]
  BY RelayTyped DEF CloseWebsocket, lasts, TypeInv
<1>2. \A r \in RequestId : request'[r] = request[r] \/ request'[r] = Failed(request[r])
  BY DEF CloseWebsocket
<1>3. \A r \in requests' : Fades(r)
  BY <1>1, <1>2, FailedFades
<1>4. \A c \in ChannelId : Shrinks(c)
  BY CloseWebsocketShrinks
<1>5. CountersKept({})
  BY <1>1, CountersStay DEF TypeInv, TypeOK
<1> QED BY <1>1, <1>3, <1>4, <1>5 DEF Winds

\* An error is not a completion
LEMMA ErrorsEffect ==
    ASSUME TypeOK, NEW R, NEW n \in Nat, answers' = Errors(R, n), NEW r \in RequestId
    PROVE  /\ r \notin R => answers'[r] = answers[r]
           /\ \A i \in DOMAIN answers'[r] : answers'[r][i] = "complete"
                                          => i \in DOMAIN answers[r] /\ answers[r][i] = "complete"
           /\ Completed(r)' => Completed(r)
<1> DEFINE a == answers[r]
           e == [i \in 1..n |-> "error"]
<1>1. a \in Seq(Answer) /\ answers'[r] = a \o (IF r \in R THEN e ELSE <<>>)
  BY DEF TypeOK, HistoryOK, Errors
<1>2. e \in Seq(Answer) /\ Len(e) = n /\ \A i \in 1..n : e[i] = "error"
  BY DEF Answer
<1> HIDE DEF a, e
<1>3. a \o <<>> = a
  BY <1>1, ConcatEmptySeq
<1>4. CASE r \notin R
  <2>1. answers'[r] = answers[r]
    BY <1>1, <1>3, <1>4 DEF a
  <2> QED BY <1>4, <2>1 DEF Completed
<1>5. CASE r \in R
  <2>1. /\ a \o e \in Seq(Answer) /\ Len(a \o e) = Len(a) + n /\ Len(a) \in Nat
        /\ \A i \in 1..(Len(a) + n) : (a \o e)[i] = IF i <= Len(a) THEN a[i] ELSE e[i - Len(a)]
    <3>1. /\ a \o e \in Seq(Answer) /\ Len(a \o e) = Len(a) + Len(e)
          /\ \A i \in 1..(Len(a) + Len(e)) : (a \o e)[i] = IF i <= Len(a) THEN a[i]
                                                                          ELSE e[i - Len(a)]
      BY <1>1, <1>2, ConcatProperties
    <3>2. Len(a) \in Nat
      BY <1>1, LenProperties
    <3> QED BY <1>2, <3>1, <3>2
  <2>2. DOMAIN (a \o e) = 1..(Len(a) + n) /\ DOMAIN a = 1..Len(a)
    BY <1>1, <2>1, LenProperties
  <2>3. ASSUME NEW i \in DOMAIN (a \o e), (a \o e)[i] = "complete"
        PROVE  i \in DOMAIN a /\ a[i] = "complete"
    <3>1. CASE i <= Len(a)
      BY <2>1, <2>2, <2>3, <3>1
    <3>2. CASE i > Len(a)
      <4>1. i - Len(a) \in 1..n /\ ~ i <= Len(a)
        BY <2>1, <2>2, <3>2
      <4> QED BY <1>2, <2>1, <2>2, <2>3, <4>1
    <3> QED BY <2>1, <2>2, <3>1, <3>2
  <2>4. answers'[r] = a \o e
    BY <1>1, <1>5
  <2> QED BY <1>5, <2>3, <2>4 DEF Completed, a
<1> QED BY <1>4, <1>5

\* The close of a session tells the requests that ran on it
LEMMA CloseSessionWinds ==
    ASSUME TypeInv, NEW s, NEW R \in SUBSET requests, NEW sk \in [SockId -> Sock], NEW D,
           CloseSession(s, R, sk, D), D \subseteq requests \ R, pc # "crashed",
           \A x \in SockId : /\ sk[x].kind = sock[x].kind /\ sk[x].made = sock[x].made
                             /\ sk[x].complete = sock[x].complete
    PROVE  Winds
<1> DEFINE mine == {r \in R : s # None /\ request[r].session = s}
           told == {r \in mine : request[r].client # None}
<1>1. /\ requests' = R /\ UNCHANGED <<lastSock, lastRequest, got>>
      /\ requests \subseteq RequestId /\ request \in [RequestId -> Request]
  BY RelayTyped DEF CloseSession, lasts, TypeInv
<1>2. \A r \in RequestId : request'[r] = IF r \in mine THEN Failed(request[r]) ELSE request[r]
  BY DEF CloseSession
<1>3. \A r \in requests' : Fades(r)
  <2> HIDE DEF mine
  <2> QED BY <1>1, <1>2, FailedFades
<1>4. \A c \in ChannelId : Shrinks(c)
  BY CloseSessionShrinks
<1>5. CountersKept({})
  <2>1. ASSUME NEW x \in SockId
        PROVE  sock'[x] = sk[x] \/ sock'[x] = [sk[x] EXCEPT !.state = "ERROR"]
    BY DEF CloseSession
  <2>2. \A k \in Sock : LET e == [k EXCEPT !.state = "ERROR"]
                        IN  e.kind = k.kind /\ e.made = k.made /\ e.complete = k.complete
    BY DEF Sock
  <2>3. \A x \in SockId : /\ sock'[x].kind = sock[x].kind /\ sock'[x].made = sock[x].made
                          /\ sock'[x].complete = sock[x].complete
    <3> SUFFICES ASSUME NEW x \in SockId
                 PROVE  /\ sock'[x].kind = sk[x].kind /\ sock'[x].made = sk[x].made
                        /\ sock'[x].complete = sk[x].complete
      OBVIOUS
    <3>1. sk[x] \in Sock
      OBVIOUS
    <3> QED BY <2>1, <2>2, <3>1
  <2>4. lastSock \in Nat /\ 1..lastSock \subseteq SockId
    BY Bounds DEF TypeInv, TypeOK, SocksOK, SockId
  <2> QED BY <1>1, <2>3, <2>4 DEF CountersKept
<1>6. \A r \in RequestId : /\ r \notin told \cup D => answers'[r] = answers[r]
                           /\ Completed(r)' => Completed(r)
  <2>1. answers' = Errors(told \cup D, 1)
    BY DEF CloseSession
  <2> HIDE DEF told
  <2> QED BY <2>1, ErrorsEffect DEF TypeInv
<1>7. ASSUME NEW r \in told \cup D PROVE r \in requests /\ Told(r)
  <2>1. CASE r \in told
    <3>1. /\ r \in requests /\ r \in RequestId /\ request[r] \in Request /\ request[r].session = s
          /\ s # None /\ request'[r] = Failed(request[r])
      BY <1>1, <1>2, <2>1
    <3>2. request'[r].state \notin Prompting
      BY <3>1 DEF Failed, Request, Prompting
    <3>3. ASSUME NEW c \in ChannelId, Works(c, r)' PROVE channel'[c].session # s
      <4>1. channel'[c] # NoChannel
        BY <3>3 DEF Works, NoChannel
      <4>2. c \notin InUse(s) /\ channel'[c] = channel[c]
        BY <4>1 DEF CloseSession
      <4> QED BY <3>3, <4>2 DEF InUse, Works
    <3> QED BY <1>6, <3>1, <3>2, <3>3 DEF Told
  <2>2. CASE r \in D
    BY <1>1, <1>6, <2>2 DEF Told
  <2> QED BY <2>1, <2>2
<1> HIDE DEF told
<1> QED BY <1>1, <1>3, <1>4, <1>5, <1>6, <1>7 DEF Winds

LEMMA SetStateCounts ==
    ASSUME SocksOK, NEW S, NEW st
    PROVE  \A x \in SockId : /\ SetState(S, st)[x].kind = sock[x].kind
                             /\ SetState(S, st)[x].made = sock[x].made
                             /\ SetState(S, st)[x].complete = sock[x].complete
BY DEF SocksOK, SetState, Sock

LEMMA SocketsCloseWind ==
    ASSUME TypeInv, \/ PrepFails \/ ClosesVisited \/ \E c \in ChannelId : InputAtEof(c)
    PROVE  Winds
<1>1. pc # "crashed" /\ requests \in SUBSET requests /\ sock \in [SockId -> Sock]
  BY DEF PrepFails, ClosesVisited, InputAtEof, TypeInv, TypeOK, SocksOK
<1>2. ASSUME NEW s, CloseSession(s, requests, sock, {}) PROVE Winds
  BY <1>1, <1>2, CloseSessionWinds
<1>3. CASE PrepFails \/ ClosesVisited
  <2>1. PICK s \in SockId : Close(s)
    BY <1>3, ClosedIsSock
  <2> QED BY <1>1, <1>2, <2>1, CloseWebsocketWinds DEF Close
<1> QED BY <1>2, <1>3 DEF InputAtEof

LEMMA MessagesWind ==
    ASSUME SafetyInv, NEW w \in SockId,
           \/ HandleHostkeyDeclined(w) \/ HandleError(w) \/ HandleAnswerIgnored(w)
           \/ HandleDataUnknown(w) \/ HandleDataSent(w)
    PROVE  Winds
<1>1. pc = "handle" /\ TypeInv /\ SocksOK
  BY DEF HandleHostkeyDeclined, HandleError, HandleAnswerIgnored, HandleDataUnknown,
         HandleDataSent, Awaiting, Handling, SafetyInv, TypeInv, TypeOK
<1>2. CASE /\ UNCHANGED <<requests, request, lastRequest, answers, got, lastSock, channel, device, data>>
           /\ sock' = sock \/ sock' = [sock EXCEPT ![w].state = "FAILED"]
  <2>1. CountersKept({})
    BY <1>1, <1>2, CountersStay
  <2>2. \A c \in ChannelId : Shrinks(c)
    BY <1>2, ShrinksStill
  <2> QED BY <1>1, <1>2, <2>1, <2>2, WindsOn
<1>3. CASE /\ Addressed # None
           /\ \E st \in SockState, D \in {{}, {Addressed}} : \E c, s :
                 CloseSession(s, Freed({Addressed}), SetState({c, s}, st), D)
  <2>0. PICK st \in SockState, D \in {{}, {Addressed}} :
           \E c, s : CloseSession(s, Freed({Addressed}), SetState({c, s}, st), D)
    BY <1>3
  <2>1. PICK c, s : CloseSession(s, Freed({Addressed}), SetState({c, s}, st), D)
    BY <2>0
  <2>2. Addressed \in requests
    BY <1>1, <1>3, AddressedTypes DEF TypeInv
  <2> DEFINE sk == SetState({c, s}, st)
             R  == Freed({Addressed})
  <2>3. sk \in [SockId -> Sock] /\ R \in SUBSET requests /\ D \subseteq requests \ R
    BY <1>1, <2>2, SetStateTypes DEF Freed
  <2>4. \A x \in SockId : /\ sk[x].kind = sock[x].kind /\ sk[x].made = sock[x].made
                          /\ sk[x].complete = sock[x].complete
    BY <1>1, SetStateCounts
  <2>5. CloseSession(s, R, sk, D)
    BY <2>1
  <2> HIDE DEF sk, R
  <2> QED BY <1>1, <2>3, <2>4, <2>5, CloseSessionWinds
<1>4. HandleHostkeyDeclined(w) => Addressed # None
  BY DEF HandleHostkeyDeclined, Awaiting, Waits
<1>5. CASE HandleHostkeyDeclined(w) \/ HandleError(w)
  BY <1>2, <1>3, <1>4, <1>5 DEF HandleHostkeyDeclined, HandleError, SockState, memory, lasts,
                                devices, history
<1>6. CASE HandleAnswerIgnored(w) \/ HandleDataUnknown(w) \/ HandleDataSent(w)
  BY <1>2, <1>6 DEF HandleAnswerIgnored, HandleDataUnknown, HandleDataSent, memory, lasts,
                    devices, history
<1> QED BY <1>5, <1>6

LEMMA DataFailsWinds ==
    ASSUME SafetyInv, NEW w \in SockId, HandleDataFails(w)
    PROVE  Winds
<1> DEFINE id == Addressed
           r  == request[id]
<1>1. PICK n \in {1, 2} : DataFails(id, n)
  BY DEF HandleDataFails
<1>2. /\ pc = "handle" /\ TypeOK /\ SocksOK /\ ~ NoData /\ id \in requests /\ id \in RequestId
      /\ requests \subseteq RequestId /\ request \in [RequestId -> Request]
  BY HandlingFacts, AddressedTypes, RelayTyped DEF HandleDataFails, SafetyInv, TypeInv, TypeOK
<1>3. /\ UNCHANGED <<requests, lastRequest, lastSock, got, channel, device, data>>
      /\ \/ UNCHANGED <<sock, request, answers>>
         \/ /\ sock' = SetState({r.client, r.session}, "ERROR")
            /\ request' = [request EXCEPT ![id].state = "ERROR"]
            /\ answers' = Errors({id}, n)
  BY <1>1 DEF DataFails, lasts, devices
<1>4. \A c \in ChannelId : Shrinks(c)
  BY <1>3, ShrinksStill
<1>5. CountersKept({})
  <2>1. \A x \in SockId : /\ sock'[x].kind = sock[x].kind /\ sock'[x].made = sock[x].made
                          /\ sock'[x].complete = sock[x].complete
    BY <1>2, <1>3, SetStateCounts
  <2>2. lastSock \in Nat /\ 1..lastSock \subseteq SockId
    BY <1>2, Bounds DEF SocksOK, SockId
  <2> QED BY <1>3, <2>1, <2>2 DEF CountersKept
<1>6. \A q \in requests : Fades(q)
  <2> SUFFICES ASSUME NEW q \in requests PROVE Fades(q)
    OBVIOUS
  <2>1. CASE request'[q] = request[q]
    BY <1>2, <2>1 DEF Fades
  <2>2. CASE q = id /\ request' = [request EXCEPT ![id].state = "ERROR"]
    <3>1. /\ request'[q].state = "ERROR" /\ request'[q].client = request[q].client
          /\ request'[q].channel = request[q].channel /\ request'[q].target = request[q].target
      BY <1>2, <2>2 DEF Request
    <3> QED BY <1>2, <3>1 DEF Fades, Prompting
  <2> HIDE DEF id
  <2> QED BY <1>2, <1>3, <2>1, <2>2
<1>7. \A q \in RequestId : answers'[q] = answers[q] \/ q \in requests
  <2> HIDE DEF id
  <2> QED BY <1>2, <1>3, ErrorsEffect
<1> QED BY <1>2, <1>3, <1>4, <1>5, <1>6, <1>7 DEF Winds

LEMMA DataOpensWinds ==
    ASSUME SafetyInv, NEW w \in SockId, HandleDataOpens(w)
    PROVE  Winds
<1> DEFINE id    == Addressed
           r     == request[id]
           s     == lastSock + 1
           fails == r.channel = None /\ r.client # None
<1>1. /\ pc = "handle" /\ TypeOK /\ SocksOK /\ ~ NoData /\ id \in requests /\ id \in RequestId
      /\ requests \subseteq RequestId /\ request \in [RequestId -> Request]
  BY HandlingFacts, AddressedTypes, RelayTyped DEF HandleDataOpens, SafetyInv, TypeInv, TypeOK
<1>2. /\ UNCHANGED <<requests, lastRequest, got, channel, device, data>> /\ lastSock' = s
      /\ answers' = (IF fails THEN Errors({id}, 1) ELSE answers)
      /\ lastSock < MaxSock
  BY DEF HandleDataOpens, devices
<1>3. PICK o \in OpenOutcomes(r) :
         LET st == IF fails THEN "ERROR" ELSE o.state
         IN  /\ request' = [request EXCEPT ![id].state = st, ![id].session = s]
             /\ sock'    = [SetState({r.client}, st) EXCEPT
                               ![s] = [NewSession(r.target, o) EXCEPT !.state = st]]
             /\ IF o.crash \/ (r.channel # None /\ channel[r.channel].list = "none")
                THEN Crash ELSE IF r.channel = None THEN Abandon ELSE Consume
  BY DEF HandleDataOpens
<1> DEFINE st == IF fails THEN "ERROR" ELSE o.state
<1>4. o.crash \/ o.state \notin Prompting \/ r.client # None
  BY <1>1, OpenOutcome
<1>5. \A c \in ChannelId : Shrinks(c)
  BY <1>2, ShrinksStill
<1>6. CountersKept({})
  <2>1. lastSock \in Nat /\ s \in SockId /\ 1..lastSock \subseteq SockId
    BY <1>1, <1>2, Bounds DEF SocksOK, SockId
  <2>2. \A x \in SockId : /\ SetState({r.client}, st)[x].kind = sock[x].kind
                          /\ SetState({r.client}, st)[x].made = sock[x].made
                          /\ SetState({r.client}, st)[x].complete = sock[x].complete
    BY <1>1, SetStateCounts
  <2>3. DOMAIN SetState({r.client}, st) = SockId
    BY DEF SetState
  <2> DEFINE k == [NewSession(r.target, o) EXCEPT !.state = st]
  <2>4. k.made = 0 /\ k.complete = 0
    BY DEF NewSession
  <2>5. sock' = [SetState({r.client}, st) EXCEPT ![s] = k]
    BY <1>3
  <2> HIDE DEF k, st, r
  <2>6. /\ sock'[s] = k
        /\ \A x \in SockId \ {s} : sock'[x] = SetState({r.client}, st)[x]
    BY <2>1, <2>3, <2>5
  <2>7. \A x \in 1..lastSock : x \in SockId \ {s}
    BY <2>1
  <2>8. \A x \in 1..lastSock' : x > lastSock => x = s
    BY <1>2, <2>1
  <2>9. lastSock <= lastSock'
    BY <1>2, <2>1
  <2>10. \A x \in 1..lastSock : /\ sock'[x].kind = sock[x].kind
                                /\ sock'[x].made = sock[x].made
                                /\ sock'[x].complete = sock[x].complete
    BY <2>2, <2>6, <2>7
  <2> HIDE DEF s
  <2> QED BY <2>4, <2>6, <2>8, <2>9, <2>10 DEF CountersKept
<1>7. \A q \in requests : Fades(q)
  <2>1. request[id] \in Request /\ request'[id] = [request[id] EXCEPT !.state = st, !.session = s]
        /\ \A q \in requests \ {id} : request'[q] = request[q]
    BY <1>1, <1>3
  <2>2. st \in Prompting /\ pc' # "crashed" => r.channel # None
    <3>1. o.crash => pc' = "crashed"
      BY <1>3 DEF Crash
    <3> QED BY <1>4, <3>1 DEF Prompting
  <2>3. Fades(id)
    <3>1. /\ request'[id].state = st /\ request'[id].client = request[id].client
          /\ request'[id].channel = request[id].channel
          /\ request'[id].target = request[id].target
      BY <2>1 DEF Request
    <3> HIDE DEF st
    <3>2. request'[id].state \in Prompting /\ pc' # "crashed" => request[id].channel # None
      BY <2>2, <3>1
    <3> HIDE DEF r, id
    <3> QED BY <1>1, <3>1, <3>2 DEF Fades
  <2>4. \A q \in requests \ {id} : Fades(q)
    BY <1>1, <2>1 DEF Fades
  <2> QED BY <2>3, <2>4
<1>8. \A q \in RequestId : answers'[q] = answers[q] \/ q \in requests
  <2> HIDE DEF id
  <2> QED BY <1>1, <1>2, ErrorsEffect
<1> QED BY <1>1, <1>2, <1>5, <1>6, <1>7, <1>8 DEF Winds

-----------------------------------------------------------------------------
(* Steps that take a request or send an RPC *)

\* A request of w that was not there before; it counts if it names a device
Asked(id, w) ==
    /\ id = lastRequest + 1 /\ lastRequest' = id /\ requests' = requests \cup {id}
    /\ CountersKept({w})
    /\ sock'[w].kind = "websocket" /\ sock'[w].complete = sock[w].complete
    /\ \/ request'[id].target # NoTarget /\ sock'[w].made = sock[w].made + 1
       \/ /\ request'[id].target = NoTarget /\ sock'[w].made = sock[w].made
          /\ request'[id].state = "NORMAL" /\ request'[id].channel = None

\* A request of w that waited for its user goes on
Resumed(id, w) ==
    /\ id \in requests /\ requests' = requests /\ lastRequest' = lastRequest
    /\ request[id].state \in Prompting /\ request[id].client = w
    /\ request'[id].target = request[id].target
    /\ CountersKept({})

\* Of all channels c alone is taken, and it was not in use
Takes(c) ==
    /\ lastChannel <= lastChannel'
    /\ \A d \in ChannelId : d # c => channel'[d] = channel[d]
    /\ c # None => /\ c <= lastChannel'
                   /\ channel[c].list = "released" \/ c > lastChannel

\* Request id of w is taken or goes on, on session s, and its RPC is sent on
\* channel c if that is not None
Starts(id, c, s, w) ==
    /\ IsWebsocket(w) /\ pc # "crashed"
    /\ \/ Asked(id, w)   /\ request'[id].channel = c
       \/ Resumed(id, w) /\ request'[id].channel = IF c = None THEN request[id].channel ELSE c
    /\ request'[id].client = w /\ request'[id].session \in {None, s}
    /\ c # None => request'[id].state \in {"NORMAL", "ESTABLISHED"}
    /\ \A r \in requests \ {id} : request'[r] = request[r]
    /\ \A d \in ChannelId : d # c => Shrinks(d)
    /\ Takes(c)
    /\ c # None => /\ Pending(c)' \subseteq Pending(c) \cup {id} /\ Works(c, id)'
                   /\ channel'[c].session = s /\ channel'[c].client = w
    /\ \A r \in RequestId : /\ got'[r] = got[r]
                            /\ \/ answers'[r] = answers[r]
                               \/ /\ r = id /\ id \notin requests
                                  /\ Completed(id)' => Completed(id)
                                  /\ request'[id].state = "ERROR"

\* The reply on channel c ends: its request is answered, and its client counts it
Completes(c) ==
    LET w  == channel[c].client
        id == channel[c].request
    IN  /\ w # None /\ pc # "crashed"
        /\ id \in requests /\ requests' = requests \ {id}
        /\ UNCHANGED <<request, lastRequest, lastSock, lastChannel, tainted>>
        /\ \A d \in ChannelId : d # c => channel'[d] = channel[d]
        /\ channel'[c].list = "released" /\ channel'[c].client = None
        /\ \A d \in ChannelId : Shrinks(d)
        /\ answers' = [answers EXCEPT ![id] = Append(@, "complete")]
        /\ \A r \in RequestId : got[r] \subseteq got'[r]
        /\ CountersKept({w})
        /\ sock'[w].kind = sock[w].kind /\ sock'[w].made = sock[w].made
        /\ sock'[w].complete = sock[w].complete + 1
        /\ c \notin tainted => id \in got'[id] /\ id \in Pending(c) /\ Pending(c)' = {}

\* What CreateRequest adds to the list
LEMMA NewRequest ==
    ASSUME TypeOK, NEW r, CreateRequest(r)
    PROVE  LET id == lastRequest + 1
           IN  /\ id \in RequestId /\ id \notin requests /\ lastRequest' = id
               /\ requests' = requests \cup {id} /\ request'[id] = r
               /\ \A q \in requests : request'[q] = request[q]
<1>1. /\ lastRequest \in Nat /\ requests \subseteq 1..lastRequest /\ requests \subseteq RequestId
      /\ request \in [RequestId -> Request]
  BY RelayTyped, Bounds DEF TypeOK, RequestsOK
<1>2. lastRequest + 1 \in RequestId /\ lastRequest + 1 \notin requests
  BY <1>1, Bounds DEF CreateRequest, RequestId
<1> QED BY <1>1, <1>2 DEF CreateRequest

\* An RPC is for a device; what becomes of it is up to its handler
LEMMA LetterCreates ==
    ASSUME MailInv, rbuf # <<>>, NEW w
    PROVE  /\ Created(w).target = Incoming.target /\ Created(w).client = w
           /\ Created(w).session = None /\ Created(w).channel = None
           /\ Created(w).state = "NORMAL"
           /\ Incoming.op = "rpc" => Incoming.target # NoTarget
           /\ Incoming.op = "authinit" => Incoming.target = NoTarget
<1>1. Head(rbuf) \in Letter
  BY HeadTailProperties DEF MailInv
<1>2. NoTarget \notin Target
  BY ConstantsAssumption DEF NoTarget
<1> QED BY <1>1, <1>2 DEF Incoming, Letter, Created

\* Counting a request counts nothing else
LEMMA MadeCounts ==
    ASSUME SocksOK, NEW w \in SockId, NEW st,
           UNCHANGED lastSock, sock' = [sock EXCEPT ![w] = CountMade(w, st)]
    PROVE  /\ CountersKept({w}) /\ sock'[w].kind = sock[w].kind
           /\ sock'[w].complete = sock[w].complete /\ sock'[w].made = sock[w].made + 1
<1>1. lastSock \in Nat /\ sock \in [SockId -> Sock] /\ 1..lastSock \subseteq SockId
  BY Bounds DEF SocksOK, SockId
<1>2. sock'[w] = CountMade(w, st) /\ \A x \in SockId \ {w} : sock'[x] = sock[x]
  BY <1>1
<1>3. /\ CountMade(w, st).kind = sock[w].kind /\ CountMade(w, st).complete = sock[w].complete
      /\ CountMade(w, st).made = sock[w].made + 1
  BY <1>1 DEF CountMade, Sock
<1> QED BY <1>1, <1>2, <1>3 DEF CountersKept

LEMMA RefusedStarts ==
    ASSUME SafetyInv, MailInv, NEW w \in SockId, HandleRpcNoCreate(w) \/ HandleRpcOpenFails(w),
           NEW id, id = lastRequest + 1
    PROVE  Starts(id, None, w, w)
<1> DEFINE r == [Created(w) EXCEPT !.state = "ERROR"]
<1>1. /\ TypeOK /\ SocksOK /\ IsWebsocket(w) /\ pc = "handle" /\ rbuf # <<>> /\ Incoming.op = "rpc"
  BY HandlingFacts DEF HandleRpcNoCreate, HandleRpcOpenFails, Handling, SafetyInv, TypeInv, TypeOK
<1>2. /\ CreateRequest(r) /\ sock' = [sock EXCEPT ![w] = CountMade(w, "ERROR")]
      /\ UNCHANGED <<lastSock, lastChannel, channel, device, data, got>>
      /\ \E n \in {1, 2} : answers' = Errors({id}, n)
  BY DEF HandleRpcNoCreate, HandleRpcOpenFails, devices
<1>3. /\ r.state = "ERROR" /\ r.client = w /\ r.session = None /\ r.channel = None
      /\ r.target # NoTarget
  BY <1>1, LetterCreates DEF Created
<1>4. /\ id \in RequestId /\ id \notin requests /\ lastRequest' = id
      /\ requests' = requests \cup {id} /\ request'[id] = r
      /\ \A q \in requests : request'[q] = request[q]
  BY <1>1, <1>2, NewRequest
<1>5. \A d \in ChannelId : Shrinks(d)
  BY <1>2, ShrinksStill
<1>6. /\ CountersKept({w}) /\ sock'[w].kind = "websocket"
      /\ sock'[w].complete = sock[w].complete /\ sock'[w].made = sock[w].made + 1
  BY <1>1, <1>2, MadeCounts DEF IsWebsocket
<1>7. /\ \A q \in RequestId : q # id => answers'[q] = answers[q]
      /\ Completed(id)' => Completed(id)
  <2>1. PICK n \in {1, 2} : answers' = Errors({id}, n)
    BY <1>2
  <2>2. TypeOK /\ n \in Nat /\ id \in RequestId
    BY <1>1, <1>4
  <2>3. \A q \in RequestId : q # id => answers'[q] = answers[q]
    BY <2>1, <2>2, ErrorsEffect
  <2>4. Completed(id)' => Completed(id)
    BY <2>1, <2>2, ErrorsEffect DEF Completed
  <2> QED BY <2>3, <2>4
<1>8. Asked(id, w)
  BY <1>3, <1>4, <1>6 DEF Asked
<1>9. /\ request'[id].channel = None /\ request'[id].client = w
      /\ request'[id].session \in {None, w} /\ request'[id].state = "ERROR"
  BY <1>3, <1>4
<1> HIDE DEF r
<1>10. IsWebsocket(w) /\ pc # "crashed" /\ \A q \in requests \ {id} : request'[q] = request[q]
  BY <1>1, <1>4
<1>11. Takes(None)
  BY <1>1, <1>2, RelayTyped DEF Takes
<1> QED BY <1>2, <1>4, <1>5, <1>7, <1>8, <1>9, <1>10, <1>11 DEF Starts


LEMMA SendWorks ==
    ASSUME TypeOK, NEW id \in RequestId, NEW s \in SockId, NEW w \in SockId \cup {None},
           NEW c \in ChannelFor(s) \cup {None}, SendRpc(id, c, s, w), data' = data
    PROVE  /\ c \in ChannelId \cup {None}
           /\ \A d \in ChannelId : d # c => Shrinks(d)
           /\ Takes(c)
           /\ c # None => /\ Pending(c)' \subseteq Pending(c) \cup {id} /\ Works(c, id)'
                          /\ channel'[c].session = s /\ channel'[c].client = w
<1>1. /\ c \in ChannelId \cup {None}
      /\ \A d \in ChannelId : d # c => Shrinks(d)
      /\ c # None => Pending(c)' \subseteq Pending(c) \cup {id}
  BY SendPending
<1>2. ASSUME c # None
      PROVE  /\ channel'[c].list = "inuse" /\ channel'[c].request = id
             /\ channel'[c].session = s /\ channel'[c].client = w
  <2>1. /\ c <= lastChannel'
        /\ channel[c].list = "released" \/ c = lastChannel + 1
        /\ channel'[c].list = "inuse" /\ channel'[c].state = "RPC_INITIAL"
        /\ channel'[c].session = s /\ channel'[c].client = w /\ channel'[c].request = id
        /\ channel'[c].eoframe = channel[c].eoframe
        /\ device'[c] \in {device[c], Append(device[c], [rpc |-> id, left |-> ReplyChunks])}
    BY <1>2, SendEffect
  <2> QED BY <2>1
<1>3. Takes(c)
  <2>1. c \in ChannelId \cup {None} /\ lastChannel \in Nat /\ \A d \in ChannelId : d \in Nat
    BY <1>1, RelayTyped DEF ChannelId
  <2>2. \A d \in ChannelId : d # c => channel'[d] = channel[d]
    BY <2>1, SendOthers
  <2>3. lastChannel <= lastChannel' /\ (c # None => c <= lastChannel')
    BY <2>1 DEF SendRpc, None
  <2>4. c # None => channel[c].list = "released" \/ c > lastChannel
    BY <2>1 DEF ChannelFor, Released
  <2> QED BY <2>2, <2>3, <2>4 DEF Takes
<1> QED BY <1>1, <1>2, <1>3 DEF Works

LEMMA ReuseStarts ==
    ASSUME SafetyInv, MailInv, NEW w \in SockId, HandleRpcReuse(w),
           NEW id, id = lastRequest + 1
    PROVE  \E s \in SockId, c \in ChannelId \cup {None} : Starts(id, c, s, w)
<1>1. /\ TypeOK /\ SocksOK /\ IsWebsocket(w) /\ pc = "handle" /\ rbuf # <<>> /\ Incoming.op = "rpc"
  BY HandlingFacts DEF HandleRpcReuse, Handling, SafetyInv, TypeInv, TypeOK
<1> DEFINE s0 == SessionFind(Incoming.target)
<1>2. s0 \in SockId
  BY <1>1, SessionFindTypes DEF HandleRpcReuse
<1>3. PICK s \in SockId : s = s0
  BY <1>2
<1>4. PICK c \in ChannelFor(s) : /\ CreateRequest([Created(w) EXCEPT !.channel = c])
                                 /\ SendRpc(id, c, s, w)
  BY <1>3 DEF HandleRpcReuse
<1>5. UNCHANGED <<lastSock, data, got, answers>> /\ sock' = [sock EXCEPT ![w] = CountMade(w, @.state)]
  BY DEF HandleRpcReuse, history
<1> DEFINE r == [Created(w) EXCEPT !.channel = c]
<1>6. /\ r.state = "NORMAL" /\ r.client = w /\ r.session = None /\ r.channel = c
      /\ r.target # NoTarget
  BY <1>1, LetterCreates DEF Created
<1>7. /\ id \in RequestId /\ id \notin requests /\ lastRequest' = id
      /\ requests' = requests \cup {id} /\ request'[id] = r
      /\ \A q \in requests : request'[q] = request[q]
  BY <1>1, <1>4, NewRequest
<1>8. /\ c \in ChannelId \cup {None}
      /\ \A d \in ChannelId : d # c => Shrinks(d)
      /\ Takes(c)
      /\ c # None => /\ Pending(c)' \subseteq Pending(c) \cup {id} /\ Works(c, id)'
                     /\ channel'[c].session = s /\ channel'[c].client = w
  BY <1>1, <1>4, <1>5, <1>7, SendWorks
<1>9. /\ CountersKept({w}) /\ sock'[w].kind = "websocket"
      /\ sock'[w].complete = sock[w].complete /\ sock'[w].made = sock[w].made + 1
  <2>1. sock' = [sock EXCEPT ![w] = CountMade(w, sock[w].state)]
    BY <1>5
  <2> QED BY <1>1, <1>5, <2>1, MadeCounts DEF IsWebsocket
<1>10. /\ request'[id].target # NoTarget /\ request'[id].channel = c /\ request'[id].client = w
       /\ request'[id].session \in {None, s} /\ request'[id].state = "NORMAL"
  BY <1>6, <1>7
<1>11. Asked(id, w)
  BY <1>7, <1>9, <1>10 DEF Asked
<1>12. Starts(id, c, s, w)
  BY <1>1, <1>5, <1>7, <1>8, <1>10, <1>11 DEF Starts
<1> QED BY <1>8, <1>12

LEMMA AuthinitStarts ==
    ASSUME SafetyInv, MailInv, NEW w \in SockId, HandleAuthinit(w),
           NEW id, id = lastRequest + 1
    PROVE  Starts(id, None, w, w)
<1>1. /\ TypeOK /\ SocksOK /\ IsWebsocket(w) /\ pc = "handle" /\ rbuf # <<>>
      /\ Incoming.op = "authinit"
  BY HandlingFacts DEF HandleAuthinit, Handling, SafetyInv, TypeInv, TypeOK
<1>2. /\ CreateRequest(Created(w))
      /\ UNCHANGED <<sock, lastSock, lastChannel, channel, device, data, got, answers>>
  BY DEF HandleAuthinit, devices, history
<1>3. /\ Created(w).state = "NORMAL" /\ Created(w).client = w /\ Created(w).session = None
      /\ Created(w).channel = None /\ Created(w).target = NoTarget
  BY <1>1, LetterCreates
<1>4. /\ id \in RequestId /\ id \notin requests /\ lastRequest' = id
      /\ requests' = requests \cup {id} /\ request'[id] = Created(w)
      /\ \A q \in requests : request'[q] = request[q]
  BY <1>1, <1>2, NewRequest
<1>5. \A d \in ChannelId : Shrinks(d)
  BY <1>2, ShrinksStill
<1>6. CountersKept({w})
  BY <1>1, <1>2, CountersStay DEF CountersKept
<1>7. Asked(id, w)
  BY <1>1, <1>2, <1>3, <1>4, <1>6 DEF Asked, IsWebsocket
<1>8. Takes(None)
  BY <1>1, <1>2, RelayTyped DEF Takes
<1> QED BY <1>1, <1>2, <1>3, <1>4, <1>5, <1>7, <1>8 DEF Starts


LEMMA OpenStarts ==
    ASSUME SafetyInv, MailInv, NEW w \in SockId, HandleRpcOpen(w),
           NEW id, id = lastRequest + 1
    PROVE  \E s \in SockId, c \in ChannelId \cup {None} : Starts(id, c, s, w)
<1> DEFINE r == Created(w)
<1>1. /\ TypeOK /\ SocksOK /\ IsWebsocket(w) /\ pc = "handle" /\ rbuf # <<>> /\ Incoming.op = "rpc"
  BY HandlingFacts DEF HandleRpcOpen, Handling, SafetyInv, TypeInv, TypeOK
<1>2. /\ lastSock \in Nat /\ lastSock + 1 \in SockId /\ 1..lastSock \subseteq SockId
      /\ sock \in [SockId -> Sock]
  BY <1>1, Bounds DEF HandleRpcOpen, SocksOK, SockId
<1>3. PICK s \in SockId : s = lastSock + 1
  BY <1>2
<1>4. /\ lastSock' = s /\ UNCHANGED <<data, got, answers>>
      /\ \E o \in OpenOutcomes(r) :
            \E c \in IF o.state = "ESTABLISHED" THEN ChannelFor(s) ELSE {None} :
               /\ CreateRequest([r EXCEPT !.state = o.state, !.session = s, !.channel = c])
               /\ sock' = [sock EXCEPT ![w] = CountMade(w, o.state),
                                       ![s] = NewSession(r.target, o)]
               /\ SendRpc(id, c, s, w)
  BY <1>3 DEF HandleRpcOpen
<1>5. PICK o \in OpenOutcomes(r), c \in ChannelFor(s) \cup {None} :
         /\ c # None => o.state = "ESTABLISHED"
         /\ CreateRequest([r EXCEPT !.state = o.state, !.session = s, !.channel = c])
         /\ sock' = [sock EXCEPT ![w] = CountMade(w, o.state), ![s] = NewSession(r.target, o)]
         /\ SendRpc(id, c, s, w)
  BY <1>4
<1> DEFINE q == [r EXCEPT !.state = o.state, !.session = s, !.channel = c]
<1>6. /\ q.state = o.state /\ q.client = w /\ q.session = s /\ q.channel = c
      /\ q.target # NoTarget
  BY <1>1, LetterCreates DEF Created
<1>7. /\ id \in RequestId /\ id \notin requests /\ lastRequest' = id
      /\ requests' = requests \cup {id} /\ request'[id] = q
      /\ \A x \in requests : request'[x] = request[x]
  BY <1>1, <1>5, NewRequest
<1>8. /\ c \in ChannelId \cup {None}
      /\ \A d \in ChannelId : d # c => Shrinks(d)
      /\ Takes(c)
      /\ c # None => /\ Pending(c)' \subseteq Pending(c) \cup {id} /\ Works(c, id)'
                     /\ channel'[c].session = s /\ channel'[c].client = w
  BY <1>1, <1>4, <1>5, <1>7, SendWorks
<1>9. /\ CountersKept({w}) /\ sock'[w].kind = "websocket"
      /\ sock'[w].complete = sock[w].complete /\ sock'[w].made = sock[w].made + 1
  <2> DEFINE m == CountMade(w, o.state)
             n == NewSession(r.target, o)
  <2>1. n.made = 0 /\ n.complete = 0
    BY DEF NewSession
  <2>2. m.kind = "websocket" /\ m.complete = sock[w].complete /\ m.made = sock[w].made + 1
    BY <1>1, <1>2 DEF CountMade, Sock, IsWebsocket
  <2>3. sock' = [sock EXCEPT ![w] = m, ![s] = n]
    BY <1>5
  <2>4. w \in 1..lastSock /\ w # s /\ s \notin 1..lastSock /\ lastSock <= lastSock'
        /\ \A x \in 1..lastSock' : x > lastSock => x = s
    BY <1>1, <1>2, <1>3, <1>4 DEF IsWebsocket
  <2> HIDE DEF m, n
  <2>5. sock'[w] = m /\ sock'[s] = n /\ \A x \in SockId : x # w /\ x # s => sock'[x] = sock[x]
    BY <1>2, <2>3, <2>4
  <2>6. CountersKept({w})
    BY <1>2, <2>1, <2>4, <2>5 DEF CountersKept
  <2> QED BY <2>2, <2>5, <2>6
<1> HIDE DEF q
<1>10. /\ request'[id].target # NoTarget /\ request'[id].channel = c /\ request'[id].client = w
       /\ request'[id].session \in {None, s} /\ request'[id].state = o.state
  BY <1>6, <1>7
<1>11. Asked(id, w)
  BY <1>7, <1>9, <1>10 DEF Asked
<1>12. Starts(id, c, s, w)
  BY <1>1, <1>4, <1>5, <1>7, <1>8, <1>10, <1>11 DEF Starts
<1> QED BY <1>8, <1>12

\* An answer to a prompt lets its request go on
LEMMA AuthenticateStarts ==
    ASSUME SafetyInv, MailInv, pc = "handle", NEW id \in requests,
           request[id].state \in Prompting, NEW r \in Request, NEW trust,
           r.session = request[id].session, r.client = request[id].client,
           r.target = request[id].target, r.channel = request[id].channel,
           Authenticate(id, r, trust),
           UNCHANGED <<requests, lastSock, lastRequest, data, got, answers>>
    PROVE  \E s, w \in SockId, c \in ChannelId \cup {None} : Starts(id, c, s, w)
<1>1. /\ TypeOK /\ SocksOK /\ id \in RequestId /\ request[id].session \in SockId
      /\ request \in [RequestId -> Request] /\ requests \subseteq RequestId
  <2>1. TypeOK /\ SocksOK /\ request[id].session \in SockId
    BY ActiveSession DEF SafetyInv, TypeInv, TypeOK, Active
  <2> QED BY <2>1, RelayTyped
<1>2. IsWebsocket(request[id].client) /\ request[id].client \in SockId
  <2>1. request[id].client # None
    BY DEF SafetyInv, TypeInv, WaitingIsAttached, Prompting
  <2>2. IsWebsocket(request[id].client)
    BY <2>1 DEF SafetyInv, KindsAreKept
  <2> QED BY <1>1, <2>1, <2>2, Bounds DEF Request
<1>3. PICK s \in SockId, w \in SockId : s = r.session /\ w = r.client
  BY <1>1, <1>2
<1>4. PICK o \in AuthOutcomes(sock[s].pwfail, r.passphrase, r.password, r.target, trust),
           c \in ChannelFor(s) \cup {None} :
         /\ c # None => o.state = "ESTABLISHED"
         /\ request' = [request EXCEPT ![id] = [r EXCEPT !.state = o.state,
                                              !.channel = IF c = None THEN @ ELSE c]]
         /\ sock' = [SetState({w, s}, o.state) EXCEPT ![s].pwfail = o.pwfail]
         /\ SendRpc(id, c, s, w)
  BY <1>3 DEF Authenticate
<1> DEFINE q == [r EXCEPT !.state = o.state, !.channel = IF c = None THEN @ ELSE c]
<1>5. /\ q.state = o.state /\ q.client = w /\ q.session = s /\ q.target = request[id].target
      /\ q.channel = IF c = None THEN request[id].channel ELSE c
  BY <1>3 DEF Request
<1>6. request' = [request EXCEPT ![id] = q]
  BY <1>4
<1> HIDE DEF q
<1>7. /\ request'[id] = q /\ \A x \in requests \ {id} : request'[x] = request[x]
  BY <1>1, <1>6
<1>8. /\ c \in ChannelId \cup {None}
      /\ \A d \in ChannelId : d # c => Shrinks(d)
      /\ Takes(c)
      /\ c # None => /\ Pending(c)' \subseteq Pending(c) \cup {id} /\ Works(c, id)'
                     /\ channel'[c].session = s /\ channel'[c].client = w
  BY <1>1, <1>4, SendWorks
<1>9. CountersKept({})
  <2> DEFINE k == SetState({w, s}, o.state)
  <2>1. /\ k \in [SockId -> {k[x] : x \in SockId}]
        /\ \A x \in SockId : /\ k[x].kind = sock[x].kind /\ k[x].made = sock[x].made
                             /\ k[x].complete = sock[x].complete
    BY <1>1, SetStateCounts DEF SetState
  <2>2. k[s] = [sock[s] EXCEPT !.state = o.state] /\ sock[s] \in Sock
    BY <1>1 DEF SetState, SocksOK
  <2> DEFINE e == [k[s] EXCEPT !.pwfail = o.pwfail]
  <2>3. e.kind = k[s].kind /\ e.made = k[s].made /\ e.complete = k[s].complete
    BY <2>2 DEF Sock
  <2>4. sock' = [k EXCEPT ![s] = e]
    BY <1>4
  <2> HIDE DEF k, e
  <2>5. \A x \in SockId : sock'[x] = IF x = s THEN e ELSE k[x]
    BY <2>1, <2>4
  <2>6. \A x \in SockId : /\ sock'[x].kind = sock[x].kind /\ sock'[x].made = sock[x].made
                          /\ sock'[x].complete = sock[x].complete
    BY <2>1, <2>3, <2>5
  <2>7. lastSock \in Nat /\ 1..lastSock \subseteq SockId
    BY <1>1, Bounds DEF SocksOK, SockId
  <2> QED BY <2>6, <2>7 DEF CountersKept
<1>10. /\ request'[id].target = request[id].target /\ request'[id].client = w
       /\ request'[id].session = s /\ request'[id].state = o.state
       /\ request'[id].channel = IF c = None THEN request[id].channel ELSE c
  BY <1>5, <1>7
<1>11. Resumed(id, w)
  BY <1>3, <1>9, <1>10 DEF Resumed
<1>12. IsWebsocket(w)
  BY <1>2, <1>3
<1>13. Starts(id, c, s, w)
  BY <1>4, <1>7, <1>8, <1>10, <1>11, <1>12 DEF Starts
<1> QED BY <1>8, <1>13

LEMMA AnswersStart ==
    ASSUME SafetyInv, MailInv, NEW w \in SockId,
           HandleHostkeyAccepted(w) \/ HandlePassphrase(w) \/ HandlePassword(w)
    PROVE  \E id \in RequestId, s, x \in SockId, c \in ChannelId \cup {None} : Starts(id, c, s, x)
<1>1. /\ pc = "handle" /\ TypeOK /\ rbuf # <<>> /\ Addressed # None
      /\ request[Addressed].state \in Prompting
      /\ HandlePassphrase(w) \/ HandlePassword(w) => Incoming.op \in {"psphrase", "psword"}
      /\ UNCHANGED <<requests, lastSock, lastRequest, data, got, answers>>
  BY PromptStates DEF HandleHostkeyAccepted, HandlePassphrase, HandlePassword, Awaiting, Waits,
                      Handling, SafetyInv, TypeInv
<1>2. PICK id \in requests : id = Addressed
  BY <1>1, AddressedTypes
<1>3. id \in RequestId /\ request[id] \in Request
  BY <1>1, RelayTyped
<1>4. ASSUME NEW r \in Request, NEW trust, Authenticate(id, r, trust),
             r.session = request[id].session, r.client = request[id].client,
             r.target = request[id].target, r.channel = request[id].channel
      PROVE  \E i \in RequestId, s, x \in SockId, c \in ChannelId \cup {None} : Starts(i, c, s, x)
  BY <1>1, <1>2, <1>3, <1>4, AuthenticateStarts
<1>5. CASE HandleHostkeyAccepted(w)
  BY <1>2, <1>3, <1>4, <1>5 DEF HandleHostkeyAccepted
<1>6. CASE HandlePassphrase(w)
  <2> DEFINE r == [request[id] EXCEPT !.passphrase = Incoming.arg]
  <2>1. Incoming.arg \in Credential
    BY <1>1, <1>6, IncomingTypes DEF TypeOK, Message
  <2>2. /\ r \in Request /\ r.session = request[id].session /\ r.client = request[id].client
        /\ r.target = request[id].target /\ r.channel = request[id].channel
    BY <1>3, <2>1 DEF Request
  <2>3. Authenticate(id, r, FALSE)
    BY <1>2, <1>6 DEF HandlePassphrase
  <2> HIDE DEF r
  <2> QED BY <1>4, <2>2, <2>3
<1>7. CASE HandlePassword(w)
  <2> DEFINE r == [request[id] EXCEPT !.password = Incoming.arg]
  <2>1. Incoming.arg \in Credential
    BY <1>1, <1>7, IncomingTypes DEF TypeOK, Message
  <2>2. /\ r \in Request /\ r.session = request[id].session /\ r.client = request[id].client
        /\ r.target = request[id].target /\ r.channel = request[id].channel
    BY <1>3, <2>1 DEF Request
  <2>3. Authenticate(id, r, FALSE)
    BY <1>2, <1>7 DEF HandlePassword
  <2> HIDE DEF r
  <2> QED BY <1>4, <2>2, <2>3
<1> QED BY <1>5, <1>6, <1>7

LEMMA RelayedCompletes ==
    ASSUME SafetyInv, CarriesInv, NEW c \in ChannelId, InputRelayed(c), AtEndOfFrame(c)
    PROVE  Completes(c)
<1> DEFINE w  == channel[c].client
           id == channel[c].request
           r  == request[id]
           st == IF r.state = "ESTABLISHED" THEN "ESTABLISHED" ELSE "NORMAL"
           k  == SetState({r.client, r.session}, st)
<1>1. /\ TypeInv /\ SocksOK /\ w # None /\ w \in SockId /\ id \in requests /\ id \in RequestId
      /\ lastSock \in Nat /\ 1..lastSock \subseteq SockId /\ got \in [RequestId -> SUBSET RequestId]
  <2>1. TypeInv /\ SocksOK /\ HistoryOK
    BY DEF SafetyInv, TypeInv, TypeOK
  <2>2. w \in SockId /\ id \in requests /\ id \in RequestId
    BY <2>1, RelayedChunk
  <2>3. w # None
    BY DEF InputRelayed
  <2>4. lastSock \in Nat /\ 1..lastSock \subseteq SockId /\ got \in [RequestId -> SUBSET RequestId]
    BY <2>1, Bounds DEF SocksOK, SockId, HistoryOK
  <2> QED BY <2>1, <2>2, <2>3, <2>4
<1>2. /\ requests' = requests \ {id} /\ UNCHANGED <<request, lastRequest, lastSock, tainted>>
      /\ answers' = [answers EXCEPT ![id] = Append(@, "complete")]
      /\ got'  = [got EXCEPT ![id] = @ \cup {Head(data[c]).rpc}]
      /\ sock' = IF sock[w].state = "READ_EOF"
                 THEN [[k EXCEPT ![w].complete = @ + 1] EXCEPT ![w].state = "FAILED"]
                 ELSE [k EXCEPT ![w].complete = @ + 1]
  BY DEF InputRelayed, Freed, lasts
<1>3. /\ \A d \in ChannelId : Shrinks(d)
      /\ Head(data[c]) \in Chunk /\ Head(data[c]).rpc \in Pending(c)
  BY <1>1, InputShrinks
<1>4. /\ CountersKept({w}) /\ sock'[w].kind = sock[w].kind /\ sock'[w].made = sock[w].made
      /\ sock'[w].complete = sock[w].complete + 1
  <2>1. \A x \in SockId : /\ k[x].kind = sock[x].kind /\ k[x].made = sock[x].made
                          /\ k[x].complete = sock[x].complete
    BY <1>1, SetStateCounts
  <2>2. k[w] \in Sock /\ DOMAIN k = SockId
    <3>1. sock[w] \in Sock /\ k[w] \in {sock[w], [sock[w] EXCEPT !.state = st]}
      BY <1>1 DEF SetState, SocksOK
    <3> QED BY <1>1, <3>1, SockWithState DEF SockState, SetState
  <2> DEFINE a == [k[w] EXCEPT !.complete = @ + 1]
             b == [a EXCEPT !.state = "FAILED"]
  <2>3. /\ a.kind = k[w].kind /\ a.made = k[w].made /\ a.complete = k[w].complete + 1
        /\ b.kind = a.kind /\ b.made = a.made /\ b.complete = a.complete
    BY <2>2 DEF Sock
  <2>4. [k EXCEPT ![w].complete = @ + 1] = [k EXCEPT ![w] = a]
    OBVIOUS
  <2>5. sock' = [k EXCEPT ![w] = a] \/ sock' = [k EXCEPT ![w] = b]
    <3> HIDE DEF k, w, r
    <3>1. [[k EXCEPT ![w] = a] EXCEPT ![w].state = "FAILED"] = [k EXCEPT ![w] = b]
      BY <1>1, <2>2
    <3> QED BY <1>2, <2>4, <3>1
  <2> HIDE DEF k, w, a, b
  <2>6. /\ \A x \in SockId \ {w} : sock'[x] = k[x]
        /\ sock'[w] \in {a, b}
    BY <1>1, <2>2, <2>5
  <2>7. /\ sock'[w].kind = sock[w].kind /\ sock'[w].made = sock[w].made
        /\ sock'[w].complete = sock[w].complete + 1
    BY <1>1, <2>1, <2>3, <2>6
  <2>8. lastSock' = lastSock /\ \A x \in 1..lastSock : x \in SockId
    BY <1>1, <1>2
  <2>9. \A x \in 1..lastSock \ {w} : /\ sock'[x].kind = sock[x].kind
                                    /\ sock'[x].made = sock[x].made
                                    /\ sock'[x].complete = sock[x].complete
    BY <2>1, <2>6, <2>8
  <2>10. CountersKept({w})
    BY <1>1, <2>8, <2>9 DEF CountersKept
  <2> QED BY <2>7, <2>10
<1>5. ASSUME c \notin tainted
      PROVE  Head(data[c]).rpc = id /\ Pending(c)' = {}
  <2>1. /\ Head(data[c]).rpc = id /\ ~ channel[c].eoframe
        /\ Head(data[c]).last => Silent(c)'
    BY <1>1, <1>5, RelayedChunk
  <2>2. Silent(c)'
    BY <2>1 DEF AtEndOfFrame
  <2>3. DOMAIN <<>> = {}
    OBVIOUS
  <2> QED BY <2>1, <2>2, <2>3 DEF Silent, Pending, Chunks
<1>6. /\ \A x \in RequestId : got[x] \subseteq got'[x]
      /\ Head(data[c]).rpc \in got'[id]
  <2> HIDE DEF id
  <2> QED BY <1>1, <1>2
<1>7. c \notin tainted => id \in got'[id] /\ id \in Pending(c) /\ Pending(c)' = {}
  BY <1>3, <1>5, <1>6
<1>8. pc # "crashed" /\ lastChannel' = lastChannel
  BY DEF InputRelayed, Reading, lasts
<1>9. /\ \A d \in ChannelId : d # c => channel'[d] = channel[d]
      /\ channel'[c].list = "released" /\ channel'[c].client = None
  <2> DEFINE a == ReleasedFrom([channel[c] EXCEPT !.state = "RPC_COMPLETE", !.eoframe = FALSE])
  <2>1. channel \in [ChannelId -> Channel] /\ channel[c] \in Channel
    BY <1>1, RelayTyped DEF TypeInv
  <2>2. channel' = [channel EXCEPT ![c] = a]
    BY DEF InputRelayed
  <2>3. a.list = "released" /\ a.client = None
    BY <2>1 DEF ReleasedFrom, Channel
  <2> HIDE DEF a
  <2> QED BY <2>1, <2>2, <2>3
<1> QED BY <1>1, <1>2, <1>3, <1>4, <1>6, <1>7, <1>8, <1>9 DEF Completes

\* Every step is of one of the three kinds
LEMMA Kinds ==
    ASSUME SafetyInv, CarriesInv, MailInv, [Next]_vars
    PROVE  \/ Winds
           \/ \E id \in RequestId, s, w \in SockId, c \in ChannelId \cup {None} : Starts(id, c, s, w)
           \/ \E c \in ChannelId : Completes(c)
<1>1. CASE Environment \/ UNCHANGED vars
  BY <1>1, ClientsWind DEF SafetyInv
<1>2. CASE \/ Poll
           \/ \E s \in SockId : \/ WebsocketReceives(s) \/ WebsocketDisconnects(s)
                                \/ WebsocketReadError(s) \/ WebsocketMispolled(s)
                                \/ VisitFailed(s) \/ VisitSession(s) \/ SessionPoller(s)
  BY <1>2, PollersWind DEF SafetyInv
<1>3. CASE PrepFails \/ ClosesVisited
  BY <1>3, SocketsCloseWind DEF SafetyInv
<1>4. CASE EndPassIdle \/ EndPassAccepts
  BY <1>4, EndPassWinds
<1>5. ASSUME NEW c \in ChannelId, ChannelInput(c)
      PROVE  Winds \/ Completes(c)
  <2>1. CASE InputAtEof(c)
    BY <2>1, SocketsCloseWind DEF SafetyInv
  <2>2. CASE InputRelayed(c) /\ AtEndOfFrame(c)
    BY <2>2, RelayedCompletes
  <2>3. CASE \/ InputDiscarded(c) \/ InputForFreedRequest(c) \/ InputSpins(c)
             \/ InputRelayed(c) /\ ~ AtEndOfFrame(c)
    BY <2>3, InputWinds DEF SafetyInv
  <2> QED BY <1>5, <2>1, <2>2, <2>3 DEF ChannelInput
<1>6. ASSUME NEW w \in SockId, HandleRequest(w)
      PROVE  \/ Winds
             \/ \E id \in RequestId, s, x \in SockId, c \in ChannelId \cup {None} : Starts(id, c, s, x)
  <2>1. CASE \/ HandleRpcReuse(w) \/ HandleRpcNoCreate(w) \/ HandleRpcOpenFails(w)
             \/ HandleRpcOpen(w) \/ HandleAuthinit(w)
    <3>1. lastRequest + 1 \in RequestId
      <4>1. TypeOK /\ \E r : CreateRequest(r)
        BY <2>1 DEF HandleRpcReuse, HandleRpcNoCreate, HandleRpcOpenFails, HandleRpcOpen,
                    HandleAuthinit, SafetyInv, TypeInv
      <4> QED BY <4>1, NewRequest
    <3>2. PICK id \in RequestId : id = lastRequest + 1
      BY <3>1
    <3>3. CASE HandleRpcReuse(w)
      BY <3>2, <3>3, ReuseStarts
    <3>4. CASE HandleRpcNoCreate(w) \/ HandleRpcOpenFails(w)
      BY <3>2, <3>4, RefusedStarts
    <3>5. CASE HandleRpcOpen(w)
      BY <3>2, <3>5, OpenStarts
    <3>6. CASE HandleAuthinit(w)
      BY <3>2, <3>6, AuthinitStarts
    <3> QED BY <2>1, <3>3, <3>4, <3>5, <3>6
  <2>2. CASE HandleHostkeyAccepted(w) \/ HandlePassphrase(w) \/ HandlePassword(w)
    BY <2>2, AnswersStart
  <2>3. CASE \/ HandleHostkeyDeclined(w) \/ HandleError(w) \/ HandleAnswerIgnored(w)
             \/ HandleDataUnknown(w) \/ HandleDataSent(w)
    BY <2>3, MessagesWind
  <2>4. CASE HandleDataFails(w) \/ HandleDataOpens(w)
    BY <2>4, DataFailsWinds, DataOpensWinds
  <2> QED BY <1>6, <2>1, <2>2, <2>3, <2>4 DEF HandleRequest
<1> QED BY <1>1, <1>2, <1>3, <1>4, <1>5, <1>6 DEF Next, Daemon, Pass


-----------------------------------------------------------------------------
(* Requests that are still to come *)

ReleasedInv == \A c \in ChannelId : channel[c].list # "inuse" => channel[c].client = None

\* Nothing is known of a request whose id was not given out
FreshInv ==
    \A r \in RequestId : r > lastRequest =>
       answers[r] = <<>> /\ \A c \in ChannelId : r \notin Pending(c) /\ ~ Works(c, r)

\* What a channel that shrinks still does
LEMMA ShrinkEffect ==
    ASSUME NEW c \in ChannelId, Shrinks(c), NEW r
    PROVE  /\ r \in Pending(c)' => r \in Pending(c)
           /\ Works(c, r)' => /\ Works(c, r) /\ channel'[c].session = channel[c].session
                              /\ channel'[c].client \in {None, channel[c].client}
BY DEF Shrinks, Works

\* Only a channel that an RPC is sent on works for another request than before
LEMMA StartsEffect ==
    ASSUME NEW id \in RequestId, NEW c \in ChannelId \cup {None}, NEW s \in SockId,
           NEW w \in SockId, Starts(id, c, s, w), NEW d \in ChannelId, NEW r
    PROVE  /\ r \in Pending(d)' => r \in Pending(d) \/ (d = c /\ r = id)
           /\ Works(d, r)' => \/ /\ d = c /\ r = id /\ channel'[d].session = s
                                 /\ channel'[d].client = w
                              \/ /\ d # c /\ Works(d, r)
                                 /\ channel'[d].session = channel[d].session
                                 /\ channel'[d].client \in {None, channel[d].client}
<1>1. CASE d = c
  <2>1. c # None
    BY <1>1 DEF ChannelId, None
  <2>2. Pending(d)' \subseteq Pending(d) \cup {id} /\ channel'[d].request = id
        /\ channel'[d].session = s /\ channel'[d].client = w
    BY <1>1, <2>1 DEF Starts, Works
  <2> QED BY <1>1, <2>2 DEF Works
<1>2. CASE d # c
  <2>1. Shrinks(d)
    BY <1>2 DEF Starts
  <2> QED BY <1>2, <2>1, ShrinkEffect
<1> QED BY <1>1, <1>2

LEMMA RequestIds ==
    TypeInv => /\ lastRequest \in Nat /\ requests \subseteq RequestId
               /\ \A r \in requests : r <= lastRequest
BY RelayTyped DEF TypeInv, TypeOK, RequestsOK

LEMMA ReleasedNext ==
    ASSUME SafetyInv, CarriesInv, MailInv, ReleasedInv, [Next]_vars
    PROVE  ReleasedInv'
<1>1. ASSUME NEW c \in ChannelId, Shrinks(c), channel'[c].list # "inuse"
      PROVE  channel'[c].client = None
  BY <1>1 DEF Shrinks, ReleasedInv
<1>2. CASE Winds
  BY <1>1, <1>2 DEF Winds, ReleasedInv
<1>3. ASSUME NEW c \in ChannelId, Completes(c) PROVE ReleasedInv'
  BY <1>1, <1>3 DEF Completes, ReleasedInv
<1>4. ASSUME NEW id \in RequestId, NEW s \in SockId, NEW w \in SockId,
             NEW c \in ChannelId \cup {None}, Starts(id, c, s, w)
      PROVE  ReleasedInv'
  <2> SUFFICES ASSUME NEW d \in ChannelId, channel'[d].list # "inuse"
               PROVE  channel'[d].client = None
    BY DEF ReleasedInv
  <2>1. d = c => channel'[d].list = "inuse"
    BY <1>4 DEF Starts, Works, ChannelId, None
  <2>2. d # c => Shrinks(d)
    BY <1>4 DEF Starts
  <2> QED BY <1>1, <2>1, <2>2
<1> QED BY <1>2, <1>3, <1>4, Kinds

LEMMA FreshNext ==
    ASSUME SafetyInv, CarriesInv, MailInv, FreshInv, [Next]_vars
    PROVE  FreshInv'
<1> SUFFICES ASSUME NEW r \in RequestId, r > lastRequest'
             PROVE  /\ answers'[r] = <<>>
                    /\ \A d \in ChannelId : r \notin Pending(d)' /\ ~ Works(d, r)'
  BY DEF FreshInv
<1>1. lastRequest \in Nat /\ requests \subseteq RequestId /\ \A q \in requests : q <= lastRequest
  BY RequestIds DEF SafetyInv
<1>2. ASSUME r > lastRequest
      PROVE  /\ answers[r] = <<>> /\ r \notin requests
             /\ \A d \in ChannelId : r \notin Pending(d) /\ ~ Works(d, r)
  BY <1>1, <1>2 DEF FreshInv, RequestId
<1>3. CASE Winds
  <2>1. r > lastRequest /\ \A d \in ChannelId : Shrinks(d)
    BY <1>3 DEF Winds
  <2>2. \A d \in ChannelId : r \notin Pending(d)' /\ ~ Works(d, r)'
    BY <1>2, <2>1, ShrinkEffect
  <2>3. answers'[r] = <<>>
    BY <1>2, <1>3, <2>1 DEF Winds
  <2> QED BY <2>2, <2>3
<1>4. ASSUME NEW c \in ChannelId, Completes(c)
      PROVE  /\ answers'[r] = <<>>
             /\ \A d \in ChannelId : r \notin Pending(d)' /\ ~ Works(d, r)'
  <2>1. /\ r > lastRequest /\ \A d \in ChannelId : Shrinks(d)
        /\ channel[c].request \in requests
        /\ answers' = [answers EXCEPT ![channel[c].request] = Append(@, "complete")]
        /\ answers \in [RequestId -> Seq(Answer)]
    BY <1>4 DEF Completes, SafetyInv, TypeInv, TypeOK, HistoryOK
  <2>2. \A d \in ChannelId : r \notin Pending(d)' /\ ~ Works(d, r)'
    BY <1>2, <2>1, ShrinkEffect
  <2> QED BY <1>2, <2>1, <2>2
<1>5. ASSUME NEW id \in RequestId, NEW s \in SockId, NEW w \in SockId,
             NEW c \in ChannelId \cup {None}, Starts(id, c, s, w)
      PROVE  /\ answers'[r] = <<>>
             /\ \A d \in ChannelId : r \notin Pending(d)' /\ ~ Works(d, r)'
  <2>1. r > lastRequest /\ r # id
    BY <1>1, <1>5 DEF Starts, Asked, Resumed, RequestId
  <2>2. \A d \in ChannelId : r \notin Pending(d)' /\ ~ Works(d, r)'
    BY <1>2, <1>5, <2>1, StartsEffect
  <2>3. answers'[r] = answers[r]
    BY <1>5, <2>1 DEF Starts
  <2> QED BY <1>2, <2>1, <2>2, <2>3
<1> QED BY <1>3, <1>4, <1>5, Kinds


-----------------------------------------------------------------------------
(* One answer to every request, after the whole reply *)

\* A request that waits for its user has no answer, and no channel runs it
WaitsUnanswered ==
    \A r \in requests : request[r].state \in Prompting =>
       answers[r] = <<>> /\ \A c \in ChannelId : r \notin Pending(c) /\ ~ Works(c, r)

\* A request whose reply is relayed has no answer: its session was not closed
RunsUnanswered ==
    \A r \in requests, c \in ChannelId : Works(c, r) /\ channel[c].client # None =>
       answers[r] = <<>> /\ request[r].session \in {None, channel[c].session}

CompletedIsGone == \A r \in RequestId : Completed(r) => r \notin requests

\* An RPC is sent once: its reply comes on one channel
RepliesApart == \A c, d \in ChannelId, r \in RequestId :
                   r \in Pending(c) /\ r \in Pending(d) => c = d

AnswerInv == /\ WaitsUnanswered /\ RunsUnanswered /\ CompletedIsGone /\ RepliesApart
             /\ CompleteIsFinal /\ CompleteIsWhole

LEMMA FinalMeans ==
    /\ CompleteIsFinal <=> \A r \in RequestId : Completed(r) => answers[r] = <<"complete">>
    /\ CompleteIsWhole <=> (tainted = {} => \A r \in RequestId : Completed(r) =>
                              r \in got[r] /\ \A c \in ChannelId : r \notin Pending(c))
BY DEF CompleteIsFinal, CompleteIsWhole, Completed

LEMMA AnswerWinds ==
    ASSUME NoData, TypeInv, AnswerInv, Winds, tainted' = {} => tainted = {}
    PROVE  AnswerInv'
<1>1. /\ requests' \subseteq requests /\ requests \subseteq RequestId
      /\ \A c \in ChannelId : Shrinks(c)
  BY RequestIds DEF Winds
<1>2. ASSUME NEW r \in requests'
      PROVE  /\ request'[r].session \in {None, request[r].session}
             /\ request'[r].state \in Prompting => request[r].state \in Prompting
  BY <1>2 DEF Winds, Fades
<1>3. ASSUME NEW r \in RequestId
      PROVE  answers'[r] = answers[r] \/ (r \in requests /\ Told(r))
  BY <1>3 DEF Winds
<1>4. ASSUME NEW r \in RequestId, Completed(r)'
      PROVE  Completed(r) /\ answers'[r] = answers[r]
  <2>1. CASE answers'[r] = answers[r]
    BY <1>4, <2>1 DEF Completed
  <2>2. CASE r \in requests /\ Told(r)
    BY <1>4, <2>2 DEF Told, AnswerInv, CompletedIsGone
  <2> QED BY <1>3, <2>1, <2>2
<1>5. WaitsUnanswered'
  <2> SUFFICES ASSUME NEW r \in requests', request'[r].state \in Prompting
               PROVE  /\ answers'[r] = <<>>
                      /\ \A c \in ChannelId : r \notin Pending(c)' /\ ~ Works(c, r)'
    BY DEF WaitsUnanswered
  <2>1. /\ r \in requests /\ r \in RequestId /\ answers[r] = <<>>
        /\ \A c \in ChannelId : r \notin Pending(c) /\ ~ Works(c, r)
    BY <1>1, <1>2 DEF AnswerInv, WaitsUnanswered
  <2>2. ~ Told(r)
    BY DEF Told
  <2> QED BY <1>1, <1>3, <2>1, <2>2, ShrinkEffect
<1>6. RunsUnanswered'
  <2> SUFFICES ASSUME NEW r \in requests', NEW c \in ChannelId, Works(c, r)',
                      channel'[c].client # None
               PROVE  answers'[r] = <<>> /\ request'[r].session \in {None, channel'[c].session}
    BY DEF RunsUnanswered
  <2>1. /\ r \in requests /\ r \in RequestId /\ Works(c, r) /\ channel[c].client # None
        /\ channel'[c].session = channel[c].session
    BY <1>1, ShrinkEffect
  <2>2. answers[r] = <<>> /\ request[r].session \in {None, channel[c].session}
    BY <2>1 DEF AnswerInv, RunsUnanswered
  <2>3. ~ Told(r)
    BY <2>1, <2>2 DEF Told
  <2> QED BY <1>2, <1>3, <2>1, <2>2, <2>3
<1>7. CompletedIsGone'
  BY <1>1, <1>4 DEF AnswerInv, CompletedIsGone
<1>8. RepliesApart'
  BY <1>1, ShrinkEffect DEF AnswerInv, RepliesApart
<1>9. CompleteIsFinal'
  <2>1. ASSUME NEW r \in RequestId, Completed(r)' PROVE answers'[r] = <<"complete">>
    BY <1>4, <2>1, FinalMeans DEF AnswerInv
  <2> QED BY <2>1 DEF CompleteIsFinal, Completed
<1>10. CompleteIsWhole'
  <2> SUFFICES ASSUME tainted' = {}, NEW r \in RequestId, Completed(r)'
               PROVE  r \in got'[r] /\ \A c \in ChannelId : r \notin Pending(c)'
    BY DEF CompleteIsWhole, Completed
  <2>1. r \in got[r] /\ \A c \in ChannelId : r \notin Pending(c)
    BY <1>4, FinalMeans DEF AnswerInv
  <2>2. got[r] \subseteq got'[r]
    BY DEF Winds
  <2> QED BY <1>1, <2>1, <2>2, ShrinkEffect
<1> QED BY <1>5, <1>6, <1>7, <1>8, <1>9, <1>10 DEF AnswerInv


LEMMA AnswerStarts ==
    ASSUME TypeInv, FreshInv, AnswerInv, NEW id \in RequestId, NEW s \in SockId, NEW w \in SockId,
           NEW c \in ChannelId \cup {None}, Starts(id, c, s, w), tainted' = {} => tainted = {}
    PROVE  AnswerInv'
<1>1. /\ requests \subseteq RequestId /\ requests' = requests \cup {id}
      /\ \A r \in requests \ {id} : request'[r] = request[r]
      /\ request'[id].session \in {None, s}
      /\ c # None => request'[id].state \in {"NORMAL", "ESTABLISHED"}
  BY RequestIds DEF Starts, Asked, Resumed
\* The id is new, or waits for its user: nothing is known of it
<1>2. /\ answers[id] = <<>> /\ ~ Completed(id)
      /\ \A d \in ChannelId : id \notin Pending(d) /\ ~ Works(d, id)
  <2>1. /\ answers[id] = <<>>
        /\ \A d \in ChannelId : id \notin Pending(d) /\ ~ Works(d, id)
    <3>1. CASE Asked(id, w)
      <4>1. id > lastRequest
        BY <3>1, RequestIds DEF Asked
      <4> QED BY <4>1 DEF FreshInv
    <3>2. CASE Resumed(id, w)
      BY <3>2 DEF Resumed, AnswerInv, WaitsUnanswered
    <3> QED BY <3>1, <3>2 DEF Starts
  <2>2. DOMAIN <<>> = {}
    OBVIOUS
  <2> QED BY <2>1, <2>2 DEF Completed
<1>3. /\ \A r \in RequestId : r # id => answers'[r] = answers[r]
      /\ answers'[id] = answers[id] \/ request'[id].state = "ERROR"
      /\ \A r \in RequestId : got'[r] = got[r]
  BY DEF Starts
<1>4. ~ Completed(id)'
  <2>1. answers'[id] = answers[id] \/ (Completed(id)' => Completed(id))
    BY DEF Starts
  <2> QED BY <1>2, <2>1 DEF Completed
<1>5. ASSUME NEW r \in RequestId, Completed(r)'
      PROVE  r # id /\ Completed(r) /\ answers'[r] = answers[r]
  <2>1. r # id
    BY <1>4, <1>5
  <2> QED BY <1>3, <1>5, <2>1 DEF Completed
<1>6. WaitsUnanswered'
  <2> SUFFICES ASSUME NEW r \in requests', request'[r].state \in Prompting
               PROVE  /\ answers'[r] = <<>>
                      /\ \A d \in ChannelId : r \notin Pending(d)' /\ ~ Works(d, r)'
    BY DEF WaitsUnanswered
  <2>1. CASE r = id
    <3>1. c = None /\ request'[id].state # "ERROR"
      BY <1>1, <2>1 DEF Prompting
    <3>2. c \notin ChannelId
      BY <3>1 DEF None, ChannelId
    <3>3. answers'[r] = <<>>
      BY <1>2, <1>3, <2>1, <3>1
    <3>4. ASSUME NEW d \in ChannelId PROVE r \notin Pending(d)' /\ ~ Works(d, r)'
      <4>1. d # c /\ r \notin Pending(d) /\ ~ Works(d, r)
        BY <1>2, <2>1, <3>2
      <4>2. /\ r \in Pending(d)' => r \in Pending(d) \/ d = c
            /\ Works(d, r)' => d = c \/ Works(d, r)
        BY StartsEffect
      <4> QED BY <4>1, <4>2
    <3> QED BY <3>3, <3>4
  <2>2. CASE r # id
    <3>1. /\ r \in requests /\ r \in RequestId /\ answers[r] = <<>>
          /\ \A d \in ChannelId : r \notin Pending(d) /\ ~ Works(d, r)
      BY <1>1, <2>2 DEF AnswerInv, WaitsUnanswered
    <3>2. ASSUME NEW d \in ChannelId PROVE r \notin Pending(d)' /\ ~ Works(d, r)'
      <4>1. r \notin Pending(d) /\ ~ Works(d, r)
        BY <3>1
      <4>2. /\ r \in Pending(d)' => r \in Pending(d) \/ r = id
            /\ Works(d, r)' => r = id \/ Works(d, r)
        BY StartsEffect
      <4> QED BY <2>2, <4>1, <4>2
    <3> QED BY <1>3, <2>2, <3>1, <3>2
  <2> QED BY <2>1, <2>2
<1>7. RunsUnanswered'
  <2> SUFFICES ASSUME NEW r \in requests', NEW d \in ChannelId, Works(d, r)',
                      channel'[d].client # None
               PROVE  answers'[r] = <<>> /\ request'[r].session \in {None, channel'[d].session}
    BY DEF RunsUnanswered
  <2>1. CASE r = id
    <3>1. d = c /\ channel'[d].session = s
      BY <1>2, <2>1, StartsEffect
    <3>2. c # None
      BY <3>1 DEF None, ChannelId
    <3>3. request'[id].state # "ERROR"
      BY <1>1, <3>2
    <3> QED BY <1>1, <1>2, <1>3, <2>1, <3>1, <3>3
  <2>2. CASE r # id
    <3>1. /\ Works(d, r) /\ channel'[d].session = channel[d].session
          /\ channel'[d].client \in {None, channel[d].client} /\ r \in requests /\ r \in RequestId
      BY <1>1, <2>2, StartsEffect
    <3>2. answers[r] = <<>> /\ request[r].session \in {None, channel[d].session}
      BY <3>1 DEF AnswerInv, RunsUnanswered
    <3> QED BY <1>1, <1>3, <2>2, <3>1, <3>2
  <2> QED BY <2>1, <2>2
<1>8. CompletedIsGone'
  BY <1>1, <1>5 DEF AnswerInv, CompletedIsGone
<1>9. RepliesApart'
  <2> SUFFICES ASSUME NEW d \in ChannelId, NEW e \in ChannelId, NEW r \in RequestId,
                      r \in Pending(d)', r \in Pending(e)'
               PROVE  d = e
    BY DEF RepliesApart
  <2>1. /\ r \in Pending(d) \/ (d = c /\ r = id)
        /\ r \in Pending(e) \/ (e = c /\ r = id)
    BY StartsEffect
  <2> QED BY <1>2, <2>1 DEF AnswerInv, RepliesApart
<1>10. CompleteIsFinal'
  <2>1. ASSUME NEW r \in RequestId, Completed(r)' PROVE answers'[r] = <<"complete">>
    BY <1>5, <2>1, FinalMeans DEF AnswerInv
  <2> QED BY <2>1 DEF CompleteIsFinal, Completed
<1>11. CompleteIsWhole'
  <2> SUFFICES ASSUME tainted' = {}, NEW r \in RequestId, Completed(r)'
               PROVE  r \in got'[r] /\ \A d \in ChannelId : r \notin Pending(d)'
    BY DEF CompleteIsWhole, Completed
  <2>1. r # id /\ r \in got[r] /\ \A d \in ChannelId : r \notin Pending(d)
    BY <1>5, FinalMeans DEF AnswerInv
  <2> QED BY <1>3, <2>1, StartsEffect
<1> QED BY <1>6, <1>7, <1>8, <1>9, <1>10, <1>11 DEF AnswerInv

LEMMA AnswerCompletes ==
    ASSUME TypeInv, ReleasedInv, AnswerInv, NEW c \in ChannelId, Completes(c)
    PROVE  AnswerInv'
<1> DEFINE id == channel[c].request
<1>1. /\ id \in requests /\ id \in RequestId /\ requests' = requests \ {id}
      /\ UNCHANGED <<request, tainted>>
      /\ answers' = [answers EXCEPT ![id] = Append(@, "complete")]
      /\ answers \in [RequestId -> Seq(Answer)]
      /\ requests \subseteq RequestId
  BY RequestIds DEF Completes, TypeInv, TypeOK, HistoryOK
<1>2. \A d \in ChannelId : Shrinks(d)
  BY DEF Completes
<1>3. answers[id] = <<>>
  <2>1. channel[c].client # None
    BY DEF Completes
  <2>2. Works(c, id)
    BY <2>1 DEF ReleasedInv, Works
  <2> QED BY <1>1, <2>1, <2>2 DEF AnswerInv, RunsUnanswered
<1> HIDE DEF id
<1>4. answers'[id] = <<"complete">> /\ \A r \in RequestId : r # id => answers'[r] = answers[r]
  <2>1. Append(<<>>, "complete") = <<"complete">>
    OBVIOUS
  <2> QED BY <1>1, <1>3, <2>1
<1>5. \A r \in requests' : r \in requests /\ r # id /\ answers'[r] = answers[r] /\ r \in RequestId
  BY <1>1, <1>4
<1>6. ASSUME NEW r \in RequestId, r # id, Completed(r)' PROVE Completed(r)
  BY <1>4, <1>6 DEF Completed
<1>7. WaitsUnanswered'
  <2> SUFFICES ASSUME NEW r \in requests', request'[r].state \in Prompting
               PROVE  /\ answers'[r] = <<>>
                      /\ \A d \in ChannelId : r \notin Pending(d)' /\ ~ Works(d, r)'
    BY DEF WaitsUnanswered
  <2>1. /\ answers[r] = <<>>
        /\ \A d \in ChannelId : r \notin Pending(d) /\ ~ Works(d, r)
    BY <1>1, <1>5 DEF AnswerInv, WaitsUnanswered
  <2> QED BY <1>2, <1>5, <2>1, ShrinkEffect
<1>8. RunsUnanswered'
  <2> SUFFICES ASSUME NEW r \in requests', NEW d \in ChannelId, Works(d, r)',
                      channel'[d].client # None
               PROVE  answers'[r] = <<>> /\ request'[r].session \in {None, channel'[d].session}
    BY DEF RunsUnanswered
  <2>1. /\ Works(d, r) /\ channel[d].client # None /\ channel'[d].session = channel[d].session
    BY <1>2, ShrinkEffect
  <2>2. answers[r] = <<>> /\ request[r].session \in {None, channel[d].session}
    BY <1>5, <2>1 DEF AnswerInv, RunsUnanswered
  <2> QED BY <1>1, <1>5, <2>1, <2>2
<1>9. CompletedIsGone'
  <2> SUFFICES ASSUME NEW r \in RequestId, Completed(r)' PROVE r \notin requests'
    BY DEF CompletedIsGone
  <2>1. CASE r = id
    BY <1>1, <2>1
  <2>2. CASE r # id
    BY <1>1, <1>6, <2>2 DEF AnswerInv, CompletedIsGone
  <2> QED BY <2>1, <2>2
<1>10. RepliesApart'
  BY <1>2, ShrinkEffect DEF AnswerInv, RepliesApart
<1>11. CompleteIsFinal'
  <2>1. ASSUME NEW r \in RequestId, Completed(r)' PROVE answers'[r] = <<"complete">>
    <3>1. CASE r = id
      BY <1>4, <3>1
    <3>2. CASE r # id
      BY <1>4, <1>6, <2>1, <3>2, FinalMeans DEF AnswerInv
    <3> QED BY <3>1, <3>2
  <2> QED BY <2>1 DEF CompleteIsFinal, Completed
<1>12. CompleteIsWhole'
  <2> SUFFICES ASSUME tainted' = {}, NEW r \in RequestId, Completed(r)'
               PROVE  r \in got'[r] /\ \A d \in ChannelId : r \notin Pending(d)'
    BY DEF CompleteIsWhole, Completed
  <2>1. CASE r = id
    <3>1. id \in got'[id] /\ id \in Pending(c) /\ Pending(c)' = {}
      BY <1>1 DEF Completes, id
    <3>2. \A d \in ChannelId \ {c} : id \notin Pending(d)
      BY <1>1, <3>1 DEF AnswerInv, RepliesApart
    <3>3. \A d \in ChannelId \ {c} : r \notin Pending(d)'
      BY <1>2, <2>1, <3>2, ShrinkEffect
    <3> QED BY <2>1, <3>1, <3>3
  <2>2. CASE r # id
    <3>1. r \in got[r] /\ \A d \in ChannelId : r \notin Pending(d)
      BY <1>1, <1>6, <2>2, FinalMeans DEF AnswerInv
    <3>2. got[r] \subseteq got'[r]
      BY DEF Completes
    <3> QED BY <1>2, <3>1, <3>2, ShrinkEffect
  <2> QED BY <2>1, <2>2
<1> QED BY <1>7, <1>8, <1>9, <1>10, <1>11, <1>12 DEF AnswerInv


LEMMA AnswersInit == Init => MailInv /\ ReleasedInv /\ FreshInv /\ AnswerInv
<1> SUFFICES ASSUME Init PROVE MailInv /\ ReleasedInv /\ FreshInv /\ AnswerInv
  OBVIOUS
<1>1. DOMAIN <<>> = {}
  OBVIOUS
<1>2. /\ requests = {} /\ \A r \in RequestId : answers[r] = <<>>
      /\ \A c \in ChannelId : channel[c] = NoChannel /\ device[c] = <<>> /\ data[c] = <<>>
  BY DEF Init
<1>3. \A c \in ChannelId, r \in RequestId : r \notin Pending(c) /\ ~ Works(c, r)
  BY <1>1, <1>2 DEF Pending, Chunks, Works, NoChannel
<1>4. \A r \in RequestId : ~ Completed(r)
  BY <1>1, <1>2 DEF Completed
<1>5. ReleasedInv
  BY <1>2 DEF ReleasedInv, NoChannel
<1>6. FreshInv
  BY <1>2, <1>3 DEF FreshInv
<1>7. MailInv
  <2>1. <<>> \in Seq(Letter)
    BY EmptySeq
  <2> QED BY <2>1 DEF Init, MailInv
<1>8. CompleteIsFinal /\ CompleteIsWhole
  BY <1>4, FinalMeans
<1>9. WaitsUnanswered /\ RunsUnanswered /\ CompletedIsGone /\ RepliesApart
  BY <1>2, <1>3 DEF WaitsUnanswered, RunsUnanswered, CompletedIsGone, RepliesApart
<1> QED BY <1>5, <1>6, <1>7, <1>8, <1>9 DEF AnswerInv

\* Relaying, and what the later invariants rest on
BasicInv == SafetyInv /\ CarriesInv /\ MailInv /\ ReleasedInv /\ FreshInv

LEMMA BasicInvariant == Spec => []BasicInv
<1>1. Init => MailInv /\ ReleasedInv /\ FreshInv
  BY AnswersInit
<1>2. SafetyInv /\ CarriesInv /\ MailInv /\ ReleasedInv /\ FreshInv /\ [Next]_vars
         => MailInv' /\ ReleasedInv' /\ FreshInv'
  BY MailNext, ReleasedNext, FreshNext DEF SafetyInv
<1>3. BasicInv <=> SafetyInv /\ CarriesInv /\ MailInv /\ ReleasedInv /\ FreshInv
  BY DEF BasicInv
<1> QED BY <1>1, <1>2, <1>3, SafetyInvariant, ChannelsCarry, PTL DEF Spec

\* A channel stays given up
LEMMA TaintStays == ASSUME [Next]_vars, tainted' = {} PROVE tainted = {}
<1>1. CASE \E c \in ChannelId : InputRelayed(c)
  BY <1>1 DEF InputRelayed
<1> QED BY <1>1, OnlyRelayingGives

LEMMA AnswersKept == ASSUME NoData PROVE Spec => []AnswerInv
<1>1. Init => AnswerInv
  BY AnswersInit
<1>2. BasicInv /\ AnswerInv /\ [Next]_vars => AnswerInv'
  <2> SUFFICES ASSUME BasicInv, AnswerInv, [Next]_vars PROVE AnswerInv'
    OBVIOUS
  <2>1. tainted' = {} => tainted = {}
    BY TaintStays
  <2>2. SafetyInv /\ TypeInv /\ CarriesInv /\ MailInv /\ ReleasedInv /\ FreshInv
    BY DEF BasicInv, SafetyInv
  <2>3. CASE Winds
    BY <2>1, <2>2, <2>3, AnswerWinds
  <2>4. ASSUME NEW c \in ChannelId, Completes(c) PROVE AnswerInv'
    BY <2>2, <2>4, AnswerCompletes
  <2>5. ASSUME NEW id \in RequestId, NEW s \in SockId, NEW w \in SockId,
               NEW c \in ChannelId \cup {None}, Starts(id, c, s, w)
        PROVE  AnswerInv'
    BY <2>1, <2>2, <2>5, AnswerStarts
  <2> QED BY <2>2, <2>3, <2>4, <2>5, Kinds
<1> QED BY <1>1, <1>2, BasicInvariant, PTL DEF Spec

\* When no client sends data messages, "complete" is the only answer a request
\* gets: mx_channel_handle_input says it once, and a session whose close would tell
\* of an error has the request no more.
THEOREM CompletionIsTheOnlyAnswer ==
    ASSUME "data" \notin Ops
    PROVE  Spec => []CompleteIsFinal
<1>1. AnswerInv => CompleteIsFinal
  BY DEF AnswerInv
<1>2. NoData
  BY DEF NoData
<1> QED BY <1>1, <1>2, AnswersKept, PTL

\* When no client sends data messages and none leaves during its RPC, a request is
\* completed after its whole reply was relayed, over all reuse of channels.
THEOREM CompletionIsWhole ==
    ASSUME "data" \notin Ops
    PROVE  Spec => []CompleteIsWhole
<1>1. AnswerInv => CompleteIsWhole
  BY DEF AnswerInv
<1>2. NoData
  BY DEF NoData
<1> QED BY <1>1, <1>2, AnswersKept, PTL


-----------------------------------------------------------------------------
(* No more completions than requests *)

\* The requests that may still count as completed for websocket w: it made them,
\* or a channel on which their reply comes is its own
Owed(w) == {r \in requests :
              /\ request[r].target # NoTarget
              /\ \/ request[r].client = w
                 \/ \E c \in ChannelId : Works(c, r) /\ channel[c].client = w}

\* What was completed and what may still be was all asked for; and only what names
\* a device waits for its user or has a channel.
CountInv ==
    /\ \A w \in 1..lastSock : sock[w].complete + Cardinality(Owed(w)) <= sock[w].made
    /\ \A c \in ChannelId : channel[c].client = None \/ IsWebsocket(channel[c].client)
    /\ \A r \in requests, c \in ChannelId :
          Works(c, r) /\ channel[c].client # None => request[r].target # NoTarget
    /\ \A r \in requests :
          \/ request[r].state \in Prompting /\ pc # "crashed"
          \/ request[r].channel # None
          => request[r].target # NoTarget

LEMMA OwedIsFinite ==
    ASSUME TypeInv, NEW w, NEW S, S \subseteq Owed(w)
    PROVE  /\ IsFiniteSet(Owed(w)) /\ Cardinality(Owed(w)) \in Nat
           /\ Cardinality(S) \in Nat /\ Cardinality(S) <= Cardinality(Owed(w))
<1>1. lastRequest \in Nat /\ Owed(w) \subseteq 1..lastRequest
  BY RelayTyped DEF TypeInv, TypeOK, RequestsOK, Owed
<1>2. IsFiniteSet(1..lastRequest)
  BY <1>1, FS_Interval
<1>3. IsFiniteSet(Owed(w))
  BY <1>1, <1>2, FS_Subset
<1>4. IsFiniteSet(S) /\ Cardinality(S) <= Cardinality(Owed(w))
  BY <1>3, FS_Subset
<1> QED BY <1>3, <1>4, FS_CardinalityType

LEMMA CountTypes ==
    TypeInv => /\ lastSock \in Nat /\ 1..lastSock \subseteq SockId
               /\ \A x \in SockId : sock[x].made \in Nat /\ sock[x].complete \in Nat
BY Bounds DEF TypeInv, TypeOK, SocksOK, Sock, SockId

\* It is enough that every count covers what is owed, and new sockets owe nothing
LEMMA CountsFollow ==
    ASSUME TypeInv, TypeInv', CountInv, NEW S, CountersKept(S),
           \A w \in 1..lastSock \ S : Owed(w)' \subseteq Owed(w),
           \A w \in S : w \in 1..lastSock /\
              sock'[w].complete + Cardinality(Owed(w)') <= sock'[w].made,
           \A w \in 1..lastSock' : w > lastSock => Owed(w)' = {}
    PROVE  \A w \in 1..lastSock' : sock'[w].complete + Cardinality(Owed(w)') <= sock'[w].made
<1> SUFFICES ASSUME NEW w \in 1..lastSock'
             PROVE  sock'[w].complete + Cardinality(Owed(w)') <= sock'[w].made
  OBVIOUS
<1>1. /\ lastSock \in Nat /\ 1..lastSock \subseteq SockId
      /\ \A x \in SockId : sock[x].made \in Nat /\ sock[x].complete \in Nat
  BY CountTypes
<1>2. CASE w > lastSock
  <2>1. Owed(w)' = {} /\ sock'[w].made = 0 /\ sock'[w].complete = 0
    BY <1>2 DEF CountersKept
  <2> QED BY <2>1, FS_EmptySet
<1>3. CASE w \in S
  BY <1>3
<1>4. CASE w \notin S /\ ~ (w > lastSock)
  <2>1. w \in 1..lastSock \ S
    <3>1. lastSock' \in Nat
      BY Bounds DEF TypeInv, TypeOK, SocksOK
    <3> QED BY <1>1, <1>4, <3>1
  <2>2. Cardinality(Owed(w)') <= Cardinality(Owed(w)) /\ Cardinality(Owed(w)') \in Nat
        /\ Cardinality(Owed(w)) \in Nat
    BY <2>1, OwedIsFinite
  <2>3. sock'[w].made = sock[w].made /\ sock'[w].complete = sock[w].complete
    BY <2>1 DEF CountersKept
  <2>4. sock[w].complete + Cardinality(Owed(w)) <= sock[w].made
    BY <2>1 DEF CountInv
  <2> QED BY <1>1, <2>1, <2>2, <2>3, <2>4
<1> QED BY <1>2, <1>3, <1>4


LEMMA CountsWind ==
    ASSUME SafetyInv, CountInv, TypeInv', Winds
    PROVE  CountInv'
<1>1. /\ requests' \subseteq requests /\ CountersKept({})
      /\ \A c \in ChannelId : Shrinks(c)
      /\ lastSock \in Nat /\ TypeInv /\ KindsAreKept
  BY CountTypes DEF Winds, SafetyInv
<1>2. ASSUME NEW r \in requests'
      PROVE  /\ request'[r].target = request[r].target
             /\ request'[r].client \in {None, request[r].client}
             /\ request'[r].channel \in {None, request[r].channel}
             /\ request'[r].state \in Prompting /\ pc' # "crashed" =>
                   \/ request[r].state \in Prompting /\ pc # "crashed"
                   \/ request[r].channel # None
  BY <1>2 DEF Winds, Fades
<1>3. \A w : w # None => Owed(w)' \subseteq Owed(w)
  <2> SUFFICES ASSUME NEW w, w # None, NEW r \in Owed(w)' PROVE r \in Owed(w)
    OBVIOUS
  <2>1. /\ r \in requests' /\ r \in requests /\ request[r].target # NoTarget
    BY <1>1, <1>2 DEF Owed
  <2>2. CASE request'[r].client = w
    BY <1>2, <2>1, <2>2 DEF Owed
  <2>3. CASE \E c \in ChannelId : Works(c, r)' /\ channel'[c].client = w
    <3>1. PICK c \in ChannelId : Works(c, r)' /\ channel'[c].client = w
      BY <2>3
    <3>2. Works(c, r) /\ channel[c].client = w
      BY <1>1, <3>1, ShrinkEffect
    <3> QED BY <2>1, <3>2 DEF Owed
  <2> QED BY <2>2, <2>3 DEF Owed
<1>4. \A x \in 1..lastSock : x \in 1..lastSock' /\ sock'[x].kind = sock[x].kind
  <2>1. lastSock' \in Nat
    BY Bounds DEF TypeInv, TypeOK, SocksOK
  <2> QED BY <1>1, <2>1 DEF CountersKept
<1>5. \A c \in ChannelId : (channel[c].client = None \/ IsWebsocket(channel[c].client))'
  <2>1. \A c \in ChannelId : channel'[c].client \in {None, channel[c].client}
    BY <1>1 DEF Shrinks
  <2> QED BY <1>4, <2>1 DEF CountInv, IsWebsocket
<1>6. \A w \in 1..lastSock' : w > lastSock => Owed(w) = {}
  <2> SUFFICES ASSUME NEW w \in 1..lastSock', w > lastSock, NEW r \in Owed(w) PROVE FALSE
    OBVIOUS
  <2>1. ~ (w \in 1..lastSock) /\ w # None
    BY <1>1 DEF None
  <2> QED BY <1>1, <2>1 DEF Owed, KindsAreKept, CountInv, IsWebsocket
<1>7. \A w \in 1..lastSock' : sock'[w].complete + Cardinality(Owed(w)') <= sock'[w].made
  <2>1. \A w \in 1..lastSock \ {} : Owed(w)' \subseteq Owed(w)
    BY <1>3 DEF None
  <2>2. \A w \in 1..lastSock' : w > lastSock => Owed(w)' = {}
    BY <1>3, <1>6 DEF None
  <2>3. \A w \in {} : w \in 1..lastSock /\
              sock'[w].complete + Cardinality(Owed(w)') <= sock'[w].made
    OBVIOUS
  <2> HIDE DEF CountInv
  <2> QED BY <1>1, <2>1, <2>2, <2>3, CountsFollow
<1>8. \A r \in requests', c \in ChannelId :
          Works(c, r)' /\ channel'[c].client # None => request'[r].target # NoTarget
  <2> SUFFICES ASSUME NEW r \in requests', NEW c \in ChannelId, Works(c, r)',
                      channel'[c].client # None
               PROVE  request'[r].target # NoTarget
    OBVIOUS
  <2>1. Works(c, r) /\ channel[c].client # None
    BY <1>1, ShrinkEffect
  <2> QED BY <1>1, <1>2, <2>1 DEF CountInv
<1>9. \A r \in requests' :
          \/ request'[r].state \in Prompting /\ pc' # "crashed"
          \/ request'[r].channel # None
          => request'[r].target # NoTarget
  BY <1>1, <1>2 DEF CountInv
<1> QED BY <1>5, <1>7, <1>8, <1>9 DEF CountInv


LEMMA CountsComplete ==
    ASSUME SafetyInv, ReleasedInv, CountInv, TypeInv', NEW c \in ChannelId, Completes(c),
           NEW w, w = channel[c].client
    PROVE  CountInv'
<1> DEFINE id == channel[c].request
<1>1. /\ w # None /\ pc # "crashed"
      /\ id \in requests /\ requests' = requests \ {id}
      /\ UNCHANGED <<request, lastSock>>
      /\ \A d \in ChannelId : Shrinks(d)
      /\ CountersKept({w}) /\ sock'[w].kind = sock[w].kind /\ sock'[w].made = sock[w].made
      /\ sock'[w].complete = sock[w].complete + 1
  BY DEF Completes
<1>2. IsWebsocket(w) /\ w \in 1..lastSock /\ lastSock \in Nat /\ TypeInv
  BY <1>1, CountTypes DEF CountInv, IsWebsocket, SafetyInv
<1>3. id \in Owed(w)
  <2>1. Works(c, id)
    BY <1>1 DEF ReleasedInv, Works
  <2> QED BY <1>1, <2>1 DEF CountInv, Owed
<1> HIDE DEF id
<1>4. \A x : x # None => Owed(x)' \subseteq Owed(x) \ {id}
  <2> SUFFICES ASSUME NEW x, x # None, NEW r \in Owed(x)' PROVE r \in Owed(x) \ {id}
    OBVIOUS
  <2>1. r \in requests /\ r # id /\ request[r].target # NoTarget
    BY <1>1 DEF Owed
  <2>2. CASE request'[r].client = x
    BY <1>1, <2>1, <2>2 DEF Owed
  <2>3. CASE \E d \in ChannelId : Works(d, r)' /\ channel'[d].client = x
    <3>1. PICK d \in ChannelId : Works(d, r)' /\ channel'[d].client = x
      BY <2>3
    <3>2. Works(d, r) /\ channel[d].client = x
      BY <1>1, <3>1, ShrinkEffect
    <3> QED BY <2>1, <3>2 DEF Owed
  <2> QED BY <2>2, <2>3 DEF Owed
<1>5. sock'[w].complete + Cardinality(Owed(w)') <= sock'[w].made
  <2>1. IsFiniteSet(Owed(w)) /\ Cardinality(Owed(w)) \in Nat
    BY <1>2, OwedIsFinite
  <2>2. /\ IsFiniteSet(Owed(w) \ {id})
        /\ Cardinality(Owed(w) \ {id}) = Cardinality(Owed(w)) - 1
    BY <1>3, <2>1, FS_RemoveElement
  <2>3. Cardinality(Owed(w)') <= Cardinality(Owed(w) \ {id}) /\ Cardinality(Owed(w)') \in Nat
    BY <1>1, <1>4, <2>2, FS_Subset, FS_CardinalityType
  <2>4. sock[w].complete + Cardinality(Owed(w)) <= sock[w].made
    BY <1>2 DEF CountInv
  <2>5. sock[w].complete \in Nat /\ sock[w].made \in Nat
    BY <1>2, CountTypes
  <2> QED BY <1>1, <2>1, <2>2, <2>3, <2>4, <2>5
<1>6. \A x \in 1..lastSock' : sock'[x].complete + Cardinality(Owed(x)') <= sock'[x].made
  <2>1. \A x \in 1..lastSock \ {w} : Owed(x)' \subseteq Owed(x)
    BY <1>4 DEF None
  <2>2. \A x \in 1..lastSock' : x > lastSock => Owed(x)' = {}
    BY <1>1, <1>2
  <2>3. \A x \in {w} : x \in 1..lastSock /\
              sock'[x].complete + Cardinality(Owed(x)') <= sock'[x].made
    BY <1>2, <1>5
  <2> QED BY <1>1, <1>2, <2>1, <2>2, <2>3, CountsFollow
<1>7. \A d \in ChannelId : (channel[d].client = None \/ IsWebsocket(channel[d].client))'
  <2>1. \A d \in ChannelId : channel'[d].client \in {None, channel[d].client}
    BY <1>1 DEF Shrinks
  <2>2. \A x \in 1..lastSock : x \in 1..lastSock' /\ sock'[x].kind = sock[x].kind
    BY <1>1 DEF CountersKept
  <2> QED BY <2>1, <2>2 DEF CountInv, IsWebsocket
<1>8. \A r \in requests', d \in ChannelId :
          Works(d, r)' /\ channel'[d].client # None => request'[r].target # NoTarget
  <2> SUFFICES ASSUME NEW r \in requests', NEW d \in ChannelId, Works(d, r)',
                      channel'[d].client # None
               PROVE  request'[r].target # NoTarget
    OBVIOUS
  <2>1. Works(d, r) /\ channel[d].client # None
    BY <1>1, ShrinkEffect
  <2> QED BY <1>1, <2>1 DEF CountInv
<1>9. \A r \in requests' :
          \/ request'[r].state \in Prompting /\ pc' # "crashed"
          \/ request'[r].channel # None
          => request'[r].target # NoTarget
  BY <1>1 DEF CountInv
<1> QED BY <1>6, <1>7, <1>8, <1>9 DEF CountInv


\* Who was taken on now is owed at most one completion more
LEMMA OwedStarts ==
    ASSUME TypeInv, FreshInv, CountInv, NEW id \in RequestId, NEW s \in SockId,
           NEW w \in SockId, NEW c \in ChannelId \cup {None}, Starts(id, c, s, w)
    PROVE  /\ \A x : x \notin {None, w} => Owed(x)' \subseteq Owed(x)
           /\ Owed(w)' \subseteq Owed(w) \cup {id}
           /\ request'[id].target = NoTarget => Owed(w)' \subseteq Owed(w)
           /\ Resumed(id, w) => Owed(w)' \subseteq Owed(w)
<1>1. /\ requests' = requests \cup {id} /\ request'[id].client = w
      /\ \A r \in requests \ {id} : request'[r] = request[r]
  BY DEF Starts, Asked, Resumed
<1>2. ASSUME NEW d \in ChannelId, NEW r, Works(d, r)', channel'[d].client # None,
             r # id \/ d # c
      PROVE  Works(d, r) /\ channel'[d].client = channel[d].client
  BY <1>2, StartsEffect
<1>3. ASSUME NEW x, x # None, NEW r \in Owed(x)', r # id PROVE r \in Owed(x)
  <2>1. r \in requests /\ request'[r] = request[r]
    BY <1>1, <1>3 DEF Owed
  <2>2. CASE request'[r].client = x
    BY <1>3, <2>1, <2>2 DEF Owed
  <2>3. CASE \E d \in ChannelId : Works(d, r)' /\ channel'[d].client = x
    <3>1. PICK d \in ChannelId : Works(d, r)' /\ channel'[d].client = x
      BY <2>3
    <3>2. Works(d, r) /\ channel[d].client = x
      BY <1>2, <1>3, <3>1
    <3> QED BY <1>3, <2>1, <3>2 DEF Owed
  <2> QED BY <1>3, <2>2, <2>3 DEF Owed
<1>4. ASSUME NEW x, x \notin {None, w}, id \in Owed(x)' PROVE id \in Owed(x)
  <2>1. PICK d \in ChannelId : Works(d, id)' /\ channel'[d].client = x
    BY <1>1, <1>4 DEF Owed
  <2>2. d # c
    <3>1. d = c => channel'[d].client = w
      BY DEF Starts, None, ChannelId
    <3> QED BY <1>4, <2>1, <3>1
  <2>3. Works(d, id) /\ channel[d].client = x
    BY <1>2, <1>4, <2>1, <2>2
  <2>4. CASE Asked(id, w)
    <3>1. id > lastRequest
      BY <2>4, RequestIds DEF Asked
    <3> QED BY <2>3, <3>1 DEF FreshInv
  <2>5. CASE Resumed(id, w)
    <3>1. id \in requests /\ request'[id].target # NoTarget
          /\ request'[id].target = request[id].target
      BY <1>4, <2>5 DEF Resumed, Owed
    <3> QED BY <2>3, <3>1 DEF Owed
  <2> QED BY <2>4, <2>5 DEF Starts
<1>5. w # None
  BY DEF SockId, None
<1>6. ASSUME Resumed(id, w) PROVE id \in Owed(w)
  BY <1>6 DEF Resumed, Starts, CountInv, Owed
<1>7. request'[id].target = NoTarget => id \notin Owed(w)'
  BY DEF Owed
<1> QED BY <1>3, <1>4, <1>5, <1>6, <1>7

LEMMA CountsStart ==
    ASSUME SafetyInv, FreshInv, CountInv, TypeInv', NEW id \in RequestId, NEW s \in SockId,
           NEW w \in SockId, NEW c \in ChannelId \cup {None}, Starts(id, c, s, w)
    PROVE  CountInv'
<1>1. /\ TypeInv /\ KindsAreKept /\ lastSock \in Nat /\ lastSock' \in Nat
      /\ w \in 1..lastSock /\ sock[w].kind = "websocket" /\ pc # "crashed" /\ w # None
      /\ requests' = requests \cup {id} /\ request'[id].client = w
      /\ \A r \in requests \ {id} : request'[r] = request[r]
      /\ \A d \in ChannelId : d # c => Shrinks(d)
      /\ c # None => Works(c, id)' /\ channel'[c].client = w
  <2>1. TypeInv /\ KindsAreKept /\ lastSock \in Nat
    BY CountTypes DEF SafetyInv
  <2>2. lastSock' \in Nat
    BY Bounds DEF TypeInv, TypeOK, SocksOK
  <2> QED BY <2>1, <2>2 DEF Starts, Asked, Resumed, IsWebsocket, SockId, None
<1>2. /\ \A x : x \notin {None, w} => Owed(x)' \subseteq Owed(x)
      /\ Owed(w)' \subseteq Owed(w) \cup {id}
      /\ request'[id].target = NoTarget => Owed(w)' \subseteq Owed(w)
      /\ Resumed(id, w) => Owed(w)' \subseteq Owed(w)
  BY <1>1, OwedStarts
<1>3. CountersKept({w}) /\ \A x \in 1..lastSock : x \in 1..lastSock' /\ sock'[x].kind = sock[x].kind
  <2>1. CountersKept({w}) /\ sock'[w].kind = "websocket"
    BY <1>1 DEF Starts, Asked, Resumed, CountersKept
  <2> QED BY <1>1, <2>1 DEF CountersKept
<1>4. sock'[w].complete + Cardinality(Owed(w)') <= sock'[w].made
  <2>1. /\ sock[w].complete + Cardinality(Owed(w)) <= sock[w].made
        /\ sock[w].complete \in Nat /\ sock[w].made \in Nat
        /\ IsFiniteSet(Owed(w)) /\ Cardinality(Owed(w)) \in Nat
    BY <1>1, CountTypes, OwedIsFinite DEF CountInv
  <2>2. CASE Asked(id, w) /\ request'[id].target # NoTarget
    <3>1. /\ sock'[w].complete = sock[w].complete /\ sock'[w].made = sock[w].made + 1
      BY <2>2 DEF Asked
    <3>2. /\ IsFiniteSet(Owed(w) \cup {id})
          /\ Cardinality(Owed(w) \cup {id}) = IF id \in Owed(w) THEN Cardinality(Owed(w))
                                              ELSE Cardinality(Owed(w)) + 1
      BY <2>1, FS_AddElement
    <3>3. /\ Cardinality(Owed(w)') <= Cardinality(Owed(w) \cup {id})
          /\ Cardinality(Owed(w)') \in Nat
      BY <1>2, <3>2, FS_Subset, FS_CardinalityType
    <3> QED BY <2>1, <3>1, <3>2, <3>3
  <2>3. CASE \/ Asked(id, w) /\ request'[id].target = NoTarget
             \/ Resumed(id, w)
    <3>1. Owed(w)' \subseteq Owed(w)
      BY <1>2, <2>3
    <3>2. sock'[w].complete = sock[w].complete /\ sock'[w].made = sock[w].made
      BY <1>1, <2>3 DEF Asked, Resumed, CountersKept
    <3>3. Cardinality(Owed(w)') <= Cardinality(Owed(w)) /\ Cardinality(Owed(w)') \in Nat
      BY <2>1, <3>1, FS_Subset, FS_CardinalityType
    <3> QED BY <2>1, <3>2, <3>3
  <2> QED BY <2>2, <2>3 DEF Starts
<1>5. \A x \in 1..lastSock' : sock'[x].complete + Cardinality(Owed(x)') <= sock'[x].made
  <2>1. \A x \in 1..lastSock \ {w} : Owed(x)' \subseteq Owed(x)
    BY <1>2 DEF None
  <2>2. \A x \in 1..lastSock' : x > lastSock => Owed(x)' = {}
    <3> SUFFICES ASSUME NEW x \in 1..lastSock', x > lastSock, NEW r \in Owed(x)' PROVE FALSE
      OBVIOUS
    <3>1. x \notin 1..lastSock /\ x \notin {None, w}
      BY <1>1 DEF None
    <3>2. r \in Owed(x)
      BY <1>2, <3>1
    <3> QED BY <1>1, <3>1, <3>2 DEF Owed, KindsAreKept, CountInv, IsWebsocket
  <2>3. \A x \in {w} : x \in 1..lastSock /\
              sock'[x].complete + Cardinality(Owed(x)') <= sock'[x].made
    BY <1>1, <1>4
  <2> QED BY <1>1, <1>3, <2>1, <2>2, <2>3, CountsFollow
<1>6. \A d \in ChannelId : (channel[d].client = None \/ IsWebsocket(channel[d].client))'
  <2> SUFFICES ASSUME NEW d \in ChannelId
               PROVE  (channel[d].client = None \/ IsWebsocket(channel[d].client))'
    OBVIOUS
  <2>1. CASE d = c
    <3>1. channel'[d].client = w
      BY <1>1, <2>1 DEF None, ChannelId
    <3> QED BY <1>1, <1>3, <3>1 DEF IsWebsocket
  <2>2. CASE d # c
    <3>1. channel'[d].client \in {None, channel[d].client}
      BY <1>1, <2>2 DEF Shrinks
    <3> QED BY <1>3, <3>1 DEF CountInv, IsWebsocket
  <2> QED BY <2>1, <2>2
\* A request that names no device has no channel and waits for nobody
<1>7. request'[id].target = NoTarget =>
         /\ c = None /\ request'[id].channel = None /\ request'[id].state \notin Prompting
         /\ Asked(id, w)
  <2>1. CASE Asked(id, w)
    BY <2>1 DEF Asked, Starts, Prompting
  <2>2. CASE Resumed(id, w)
    BY <1>1, <2>2 DEF Resumed, CountInv
  <2> QED BY <2>1, <2>2 DEF Starts
<1>8. \A r \in requests', d \in ChannelId :
          Works(d, r)' /\ channel'[d].client # None => request'[r].target # NoTarget
  <2> SUFFICES ASSUME NEW r \in requests', NEW d \in ChannelId, Works(d, r)',
                      channel'[d].client # None, request'[r].target = NoTarget
               PROVE  FALSE
    OBVIOUS
  <2>1. CASE r = id
    <3>1. d # c /\ Asked(id, w)
      BY <1>7, <2>1 DEF None, ChannelId
    <3>2. Works(d, id)
      BY <2>1, <3>1, StartsEffect
    <3>3. id > lastRequest
      BY <1>1, <3>1, RequestIds DEF Asked
    <3> QED BY <3>2, <3>3 DEF FreshInv
  <2>2. CASE r # id
    <3>1. Works(d, r) /\ channel[d].client # None
      BY <2>2, StartsEffect
    <3> QED BY <1>1, <2>2, <3>1 DEF CountInv
  <2> QED BY <2>1, <2>2
<1>9. \A r \in requests' :
          \/ request'[r].state \in Prompting /\ pc' # "crashed"
          \/ request'[r].channel # None
          => request'[r].target # NoTarget
  BY <1>1, <1>7 DEF CountInv
<1> QED BY <1>5, <1>6, <1>8, <1>9 DEF CountInv

LEMMA CountsKept == Spec => []CountInv
<1>1. Init => CountInv
  <2> SUFFICES ASSUME Init PROVE CountInv
    OBVIOUS
  <2> QED BY DEF Init, CountInv, NoChannel
<1>2. BasicInv /\ CountInv /\ [Next]_vars /\ BasicInv' => CountInv'
  <2> SUFFICES ASSUME BasicInv, CountInv, [Next]_vars, BasicInv' PROVE CountInv'
    OBVIOUS
  <2>1. /\ SafetyInv /\ CarriesInv /\ MailInv /\ ReleasedInv /\ FreshInv /\ TypeInv'
    BY DEF BasicInv, SafetyInv
  <2>2. CASE Winds
    BY <2>1, <2>2, CountsWind
  <2>3. ASSUME NEW c \in ChannelId, Completes(c) PROVE CountInv'
    <3>1. PICK w : w = channel[c].client
      OBVIOUS
    <3> QED BY <2>1, <2>3, <3>1, CountsComplete
  <2>4. ASSUME NEW id \in RequestId, NEW s \in SockId, NEW w \in SockId,
               NEW c \in ChannelId \cup {None}, Starts(id, c, s, w)
        PROVE  CountInv'
    BY <2>1, <2>4, CountsStart
  <2> QED BY <2>1, <2>2, <2>3, <2>4, Kinds
<1> QED BY <1>1, <1>2, BasicInvariant, PTL DEF Spec

\* No websocket counts more completions than RPCs it asked for, whatever is closed,
\* retried or sent after: mx_websocket_handle_request counts every RPC it takes, and
\* a request is freed with its completion.
THEOREM NoMoreCompletionsThanRequests == Spec => []CompletedWereMade
<1>1. SafetyInv /\ CountInv => CompletedWereMade
  <2> SUFFICES ASSUME SafetyInv, CountInv, NEW w \in Websockets
               PROVE  sock[w].complete <= sock[w].made
    BY DEF CompletedWereMade
  <2>1. TypeInv /\ w \in 1..lastSock /\ w \in SockId
    BY SocksInRange DEF SafetyInv, TypeInv, TypeOK, SocksOK, Websockets
  <2>2. /\ sock[w].complete \in Nat /\ sock[w].made \in Nat /\ Cardinality(Owed(w)) \in Nat
        /\ sock[w].complete + Cardinality(Owed(w)) <= sock[w].made
    BY <2>1, CountTypes, OwedIsFinite DEF CountInv
  <2> QED BY <2>2
<1> QED BY <1>1, SafetyInvariant, CountsKept, PTL


-----------------------------------------------------------------------------
(* The request that a channel works for *)

\* A request is not freed while its channel runs: no client sends an error message,
\* nor a data message, which may make a request with a channel wait again
NoFollowUps == NoData /\ "error" \notin Ops

\* Channel c relays the reply to request r to the client of r
Runs(c, r) == Works(c, r) /\ channel[c].client # None /\ channel[c].client = request[r].client

Served(c) == channel[c].list = "inuse" /\ channel[c].client # None =>
                \E r \in requests : Runs(c, r) /\ request[r].channel = c

\* The channel of a request runs it, or was freed with its session
HasChannel(r) == request[r].channel # None =>
                    \E c \in ChannelId : /\ request[r].channel = c
                                         /\ \/ Runs(c, r)
                                            \/ channel[c].list = "none" /\ c <= lastChannel

\* Before its RPC is sent and after an error, a request has no channel
Idle == Prompting \cup {"ERROR", "FAILED"}

OwnInv == /\ \A c \in ChannelId : Served(c)
          /\ \A r \in requests : /\ HasChannel(r)
                                 /\ request[r].state \in Idle => request[r].channel = None

LEMMA ServedMeans == (\A c \in ChannelId : Served(c)) => ChannelHasItsRequest
BY DEF Served, Runs, Works, ChannelHasItsRequest

\* Requests without a channel leave the list, and channels without a client change
LEMMA OwnStays ==
    ASSUME OwnInv, UNCHANGED <<request, lastChannel>>, requests' \subseteq requests,
           \A r \in requests \ requests' : request[r].state \in Idle,
           \A d \in ChannelId :
              \/ /\ channel'[d].list = channel[d].list
                 /\ channel'[d].client = channel[d].client
                 /\ channel'[d].request = channel[d].request
              \/ /\ channel'[d].client = None /\ channel[d].client = None
                 /\ channel[d].list # "none"
    PROVE  OwnInv'
<1>1. ASSUME NEW d \in ChannelId, channel'[d].list = "inuse", channel'[d].client # None
      PROVE  \E r \in requests' : Runs(d, r)' /\ request'[r].channel = d
  <2>1. /\ channel'[d].list = channel[d].list /\ channel'[d].client = channel[d].client
        /\ channel'[d].request = channel[d].request
    BY <1>1
  <2>2. PICK r \in requests : Runs(d, r) /\ request[r].channel = d
    BY <1>1, <2>1 DEF OwnInv, Served
  <2>3. r \in requests'
    BY <2>2 DEF OwnInv, ChannelId, None
  <2> QED BY <2>1, <2>2, <2>3 DEF Runs, Works
<1>2. ASSUME NEW r \in requests', request'[r].channel # None
      PROVE  \E d \in ChannelId : /\ request'[r].channel = d
                                  /\ \/ Runs(d, r)'
                                     \/ channel'[d].list = "none" /\ d <= lastChannel'
  <2>1. PICK d \in ChannelId : /\ request[r].channel = d
                               /\ Runs(d, r) \/ (channel[d].list = "none" /\ d <= lastChannel)
    BY <1>2 DEF OwnInv, HasChannel
  <2>2. CASE Runs(d, r)
    <3>1. Runs(d, r)'
      BY <2>2 DEF Runs, Works
    <3> QED BY <2>1, <3>1
  <2>3. CASE channel[d].list = "none" /\ d <= lastChannel
    <3>1. channel'[d].list = "none" /\ d <= lastChannel'
      BY <2>3
    <3> QED BY <2>1, <3>1
  <2> QED BY <2>1, <2>2, <2>3
<1>3. \A r \in requests' : request'[r].state \in Idle => request'[r].channel = None
  BY DEF OwnInv
<1> QED BY <1>1, <1>2, <1>3 DEF OwnInv, Served, HasChannel

LEMMA OwnCompletes ==
    ASSUME ReleasedInv, OwnInv, NEW c \in ChannelId, Completes(c)
    PROVE  OwnInv'
<1> DEFINE id == channel[c].request
<1>1. /\ channel[c].client # None /\ id \in requests /\ requests' = requests \ {id}
      /\ UNCHANGED <<request, lastChannel>>
      /\ \A d \in ChannelId : d # c => channel'[d] = channel[d]
      /\ channel'[c].list = "released" /\ channel'[c].client = None
  BY DEF Completes
<1>2. channel[c].list = "inuse" /\ request[id].channel = c
  <2>1. channel[c].list = "inuse"
    BY <1>1 DEF ReleasedInv
  <2>2. PICK r \in requests : Runs(c, r) /\ request[r].channel = c
    BY <1>1, <2>1 DEF OwnInv, Served
  <2> QED BY <2>1, <2>2 DEF Runs, Works
<1> HIDE DEF id
<1>3. ASSUME NEW d \in ChannelId, channel'[d].list = "inuse", channel'[d].client # None
      PROVE  \E r \in requests' : Runs(d, r)' /\ request'[r].channel = d
  <2>1. d # c /\ channel'[d] = channel[d]
    BY <1>1, <1>3
  <2>2. PICK r \in requests : Runs(d, r) /\ request[r].channel = d
    BY <1>3, <2>1 DEF OwnInv, Served
  <2>3. r # id
    BY <1>2, <2>1, <2>2
  <2> QED BY <1>1, <2>1, <2>2, <2>3 DEF Runs, Works
<1>4. ASSUME NEW r \in requests', request'[r].channel # None
      PROVE  \E d \in ChannelId : /\ request'[r].channel = d
                                  /\ \/ Runs(d, r)'
                                     \/ channel'[d].list = "none" /\ d <= lastChannel'
  <2>1. r \in requests /\ r # id /\ request[r].channel # None
    BY <1>1, <1>4
  <2>2. PICK d \in ChannelId : /\ request[r].channel = d
                               /\ Runs(d, r) \/ (channel[d].list = "none" /\ d <= lastChannel)
    BY <2>1 DEF OwnInv, HasChannel
  <2>3. d # c
    BY <1>2, <2>1, <2>2 DEF Runs, Works, id
  <2>4. channel'[d] = channel[d]
    BY <1>1, <2>3
  <2> QED BY <1>1, <2>2, <2>4 DEF Runs, Works
<1>5. \A r \in requests' : request'[r].state \in Idle => request'[r].channel = None
  BY <1>1 DEF OwnInv
<1> QED BY <1>3, <1>4, <1>5 DEF OwnInv, Served, HasChannel

LEMMA OwnStarts ==
    ASSUME TypeInv, TypeInv', CarriesInv, OwnInv, NEW id \in RequestId, NEW s \in SockId,
           NEW w \in SockId, NEW c \in ChannelId \cup {None}, Starts(id, c, s, w)
    PROVE  OwnInv'
<1>1. /\ requests' = requests \cup {id} /\ requests \subseteq RequestId
      /\ \A r \in requests \ {id} : request'[r] = request[r]
      /\ request'[id].client = w /\ w # None
      /\ \A d \in ChannelId : d # c => channel'[d] = channel[d]
      /\ c # None => /\ Works(c, id)' /\ channel'[c].client = w
                     /\ request'[id].state \in {"NORMAL", "ESTABLISHED"}
  BY RequestIds DEF Starts, Asked, Resumed, Takes, SockId, None
\* The request had no channel, and has this one now
<1>2. request'[id].channel = c /\ (id \in requests => request[id].channel = None)
  <2>1. CASE Asked(id, w)
    <3>1. id \notin requests
      BY <2>1, RequestIds DEF Asked
    <3>2. request'[id].channel = c
      BY <3>1 DEF Starts, Resumed
    <3> QED BY <3>1, <3>2
  <2>2. CASE Resumed(id, w)
    <3>1. request[id].channel = None
      BY <2>2 DEF Resumed, OwnInv, Idle
    <3>2. id \in requests
      BY <2>2 DEF Resumed
    <3>3. request'[id].channel = c
      <4>1. ~ Asked(id, w)
        BY <2>2, RequestIds DEF Asked, Resumed
      <4> QED BY <3>1, <4>1 DEF Starts
    <3> QED BY <3>1, <3>3
  <2> QED BY <2>1, <2>2 DEF Starts
\* The channel was nobody's
<1>3. \A r \in requests : request[r].channel # None => request[r].channel # c
  <2> SUFFICES ASSUME NEW r \in requests, request[r].channel # None, request[r].channel = c
               PROVE  FALSE
    OBVIOUS
  <2>1. c \in ChannelId /\ c # None /\ lastChannel \in Nat
    BY RelayTyped DEF TypeInv
  <2>2. channel[c].list = "released" \/ c > lastChannel
    BY <2>1 DEF Starts, Takes
  <2>3. c > lastChannel => channel[c].list = "none"
    BY <2>1 DEF CarriesInv, ChannelInv
  <2>4. Runs(c, r) \/ (channel[c].list = "none" /\ c <= lastChannel)
    BY DEF OwnInv, HasChannel
  <2> QED BY <2>1, <2>2, <2>3, <2>4 DEF Runs, Works, ChannelId
<1>4. ASSUME NEW d \in ChannelId, channel'[d].list = "inuse", channel'[d].client # None
      PROVE  \E r \in requests' : Runs(d, r)' /\ request'[r].channel = d
  <2>1. CASE d = c
    <3>1. c # None
      BY <2>1 DEF ChannelId, None
    <3>2. Runs(d, id)'
      BY <1>1, <2>1, <3>1 DEF Runs
    <3> QED BY <1>1, <1>2, <2>1, <3>2
  <2>2. CASE d # c
    <3>1. channel'[d] = channel[d]
      BY <1>1, <2>2
    <3>2. PICK r \in requests : Runs(d, r) /\ request[r].channel = d
      BY <1>4, <3>1 DEF OwnInv, Served
    <3>3. r # id
      BY <1>2, <3>2 DEF ChannelId, None
    <3> QED BY <1>1, <3>1, <3>2, <3>3 DEF Runs, Works
  <2> QED BY <2>1, <2>2
<1>5. ASSUME NEW r \in requests', request'[r].channel # None
      PROVE  \E d \in ChannelId : /\ request'[r].channel = d
                                  /\ \/ Runs(d, r)'
                                     \/ channel'[d].list = "none" /\ d <= lastChannel'
  <2>1. CASE r = id
    <3>1. c \in ChannelId /\ c # None
      BY <1>2, <1>5, <2>1
    <3>2. Runs(c, id)'
      BY <1>1, <3>1 DEF Runs
    <3> QED BY <1>2, <2>1, <3>1, <3>2
  <2>2. CASE r # id
    <3>1. r \in requests /\ request'[r] = request[r]
      BY <1>1, <2>2
    <3>2. PICK d \in ChannelId : /\ request[r].channel = d
                                 /\ Runs(d, r) \/ (channel[d].list = "none" /\ d <= lastChannel)
      BY <1>5, <3>1 DEF OwnInv, HasChannel
    <3>3. channel'[d] = channel[d]
      BY <1>1, <1>3, <1>5, <3>1, <3>2
    <3>4. d <= lastChannel => d <= lastChannel'
      <4>1. lastChannel <= lastChannel' /\ lastChannel \in Nat /\ d \in Nat
        BY RelayTyped DEF Starts, Takes, TypeInv, ChannelId
      <4>2. lastChannel' \in Nat
        BY Bounds DEF TypeInv, TypeOK, ChannelsOK
      <4> QED BY <4>1, <4>2
    <3> QED BY <3>1, <3>2, <3>3, <3>4 DEF Runs, Works
  <2> QED BY <2>1, <2>2
<1>6. \A r \in requests' : request'[r].state \in Idle => request'[r].channel = None
  <2> SUFFICES ASSUME NEW r \in requests', request'[r].state \in Idle
               PROVE  request'[r].channel = None
    OBVIOUS
  <2>1. CASE r = id
    BY <1>1, <1>2, <2>1 DEF Idle, Prompting
  <2>2. CASE r # id
    BY <1>1, <2>2 DEF OwnInv
  <2> QED BY <2>1, <2>2
<1> QED BY <1>4, <1>5, <1>6 DEF OwnInv, Served, HasChannel


\* A session is closed: what it ran has neither channel nor client any more
LEMMA OwnSessionCloses ==
    ASSUME TypeInv, CarriesInv, AnswerInv, OwnInv, NEW s, NEW S \in SUBSET requests, NEW sk, NEW D,
           \A r \in S : request[r].channel = None,
           CloseSession(s, requests \ S, sk, D)
    PROVE  OwnInv'
<1> DEFINE mine == {r \in requests \ S : s # None /\ request[r].session = s}
           gone == InUse(s) \cup Released(s)
<1>1. /\ requests' = requests \ S /\ lastChannel' = lastChannel
      /\ request' = [r \in RequestId |-> IF r \in mine THEN Failed(request[r]) ELSE request[r]]
      /\ channel' = [c \in ChannelId |-> IF c \in gone THEN NoChannel ELSE channel[c]]
      /\ requests \subseteq RequestId /\ lastChannel \in Nat
      /\ request \in [RequestId -> Request]
  BY RelayTyped DEF CloseSession, lasts, TypeInv
<1>2. ASSUME NEW r \in mine
      PROVE  request'[r].channel = None
  <2>1. request'[r] = Failed(request[r]) /\ request[r] \in Request
    BY <1>1
  <2> QED BY <2>1 DEF Failed, Request
<1>3. \A c \in ChannelId : /\ c \in gone => channel'[c].list = "none"
                           /\ c \notin gone => channel'[c] = channel[c]
  BY <1>1 DEF NoChannel
<1>4. ASSUME NEW d \in ChannelId, channel'[d].list = "inuse", channel'[d].client # None
      PROVE  \E r \in requests' : Runs(d, r)' /\ request'[r].channel = d
  <2>1. d \notin gone /\ channel'[d] = channel[d]
    BY <1>3, <1>4
  <2>2. PICK r \in requests : Runs(d, r) /\ request[r].channel = d
    BY <1>4, <2>1 DEF OwnInv, Served
  <2>3. r \in requests'
    BY <1>1, <2>2 DEF ChannelId, None
  <2>4. r \notin mine
    <3>1. request[r].session \in {None, channel[d].session}
      BY <2>2 DEF Runs, AnswerInv, RunsUnanswered
    <3>2. channel[d].session # s
      BY <1>4, <2>1 DEF InUse
    <3> QED BY <3>1, <3>2
  <2>5. request'[r] = request[r]
    BY <1>1, <2>4
  <2> QED BY <2>1, <2>2, <2>3, <2>5 DEF Runs, Works
<1>5. ASSUME NEW r \in requests', request'[r].channel # None
      PROVE  \E d \in ChannelId : /\ request'[r].channel = d
                                  /\ \/ Runs(d, r)'
                                     \/ channel'[d].list = "none" /\ d <= lastChannel'
  <2>1. r \in requests /\ request'[r] = request[r]
    BY <1>1, <1>2, <1>5
  <2>2. PICK d \in ChannelId : /\ request[r].channel = d
                               /\ Runs(d, r) \/ (channel[d].list = "none" /\ d <= lastChannel)
    BY <1>5, <2>1 DEF OwnInv, HasChannel
  <2>3. CASE d \in gone
    <3>1. d <= lastChannel
      BY <1>1, <2>3 DEF InUse, Released, CarriesInv, ChannelInv, ChannelId
    <3> QED BY <1>1, <1>3, <2>1, <2>2, <2>3, <3>1
  <2>4. CASE d \notin gone
    <3>1. channel'[d] = channel[d]
      BY <1>3, <2>4
    <3> QED BY <1>1, <2>1, <2>2, <3>1 DEF Runs, Works
  <2> QED BY <2>3, <2>4
<1>6. \A r \in requests' : request'[r].state \in Idle => request'[r].channel = None
  BY <1>1, <1>2 DEF OwnInv
<1> QED BY <1>4, <1>5, <1>6 DEF OwnInv, Served, HasChannel

\* A websocket is closed: its requests lose their channels, its channels their client
LEMMA OwnWebsocketCloses ==
    ASSUME TypeInv, OwnInv, NEW w \in SockId, CloseWebsocket(w)
    PROVE  OwnInv'
<1> DEFINE mine    == {r \in requests : request[r].client = w}
           running == {r \in mine : request[r].state = "ESTABLISHED" /\ request[r].channel # None}
           release == {request[r].channel : r \in running}
<1>1. /\ requests' = requests /\ lastChannel' = lastChannel
      /\ request' = [r \in RequestId |-> IF r \in mine THEN Failed(request[r]) ELSE request[r]]
      /\ channel' = [c \in ChannelId |->
              IF c \in release
              THEN [channel[c] EXCEPT !.list = IF @ = "none" THEN @ ELSE "released",
                                      !.client = None, !.request = None]
              ELSE IF channel[c].client = w THEN [channel[c] EXCEPT !.client = None]
              ELSE channel[c]]
      /\ requests \subseteq RequestId /\ request \in [RequestId -> Request]
      /\ channel \in [ChannelId -> Channel]
  BY RelayTyped DEF CloseWebsocket, lasts, TypeInv
<1>2. ASSUME NEW r \in mine
      PROVE  request'[r].channel = None
  <2>1. request'[r] = Failed(request[r]) /\ request[r] \in Request
    BY <1>1
  <2> QED BY <2>1 DEF Failed, Request
<1>3. ASSUME NEW c \in ChannelId
      PROVE  /\ c \in release => channel'[c].client = None
             /\ channel[c].client = w => channel'[c].client = None
             /\ channel[c].list = "none" => channel'[c].list = "none"
             /\ c \notin release /\ channel[c].client # w => channel'[c] = channel[c]
  BY <1>1 DEF Channel
\* A channel that is released ran a request of w, if it ran any
<1>4. ASSUME NEW c \in release, NEW r, Runs(c, r)
      PROVE  request[r].client = w
  <2>1. PICK q \in requests : request[q].client = w /\ request[q].channel = c /\ c # None
    BY <1>4
  <2>2. Runs(c, q) \/ channel[c].list = "none"
    BY <2>1 DEF OwnInv, HasChannel
  <2> QED BY <1>4, <2>1, <2>2 DEF Runs, Works
<1> HIDE DEF release
<1>5. ASSUME NEW d \in ChannelId, channel'[d].list = "inuse", channel'[d].client # None
      PROVE  \E r \in requests' : Runs(d, r)' /\ request'[r].channel = d
  <2>1. channel'[d] = channel[d] /\ channel[d].client # w
    BY <1>3, <1>5
  <2>2. PICK r \in requests : Runs(d, r) /\ request[r].channel = d
    BY <1>5, <2>1 DEF OwnInv, Served
  <2>3. r \notin mine
    BY <2>1, <2>2 DEF Runs
  <2>4. request'[r] = request[r]
    BY <1>1, <2>3
  <2> QED BY <1>1, <2>1, <2>2, <2>4 DEF Runs, Works
<1>6. ASSUME NEW r \in requests', request'[r].channel # None
      PROVE  \E d \in ChannelId : /\ request'[r].channel = d
                                  /\ \/ Runs(d, r)'
                                     \/ channel'[d].list = "none" /\ d <= lastChannel'
  <2>1. r \in requests /\ request'[r] = request[r] /\ request[r].client # w
    BY <1>1, <1>2, <1>6
  <2>2. PICK d \in ChannelId : /\ request[r].channel = d
                               /\ Runs(d, r) \/ (channel[d].list = "none" /\ d <= lastChannel)
    BY <1>6, <2>1 DEF OwnInv, HasChannel
  <2>3. CASE Runs(d, r)
    <3>1. d \notin release /\ channel[d].client # w
      BY <1>4, <2>1, <2>3 DEF Runs
    <3>2. channel'[d] = channel[d]
      BY <1>3, <3>1
    <3> QED BY <2>1, <2>2, <2>3, <3>2 DEF Runs, Works
  <2>4. CASE channel[d].list = "none" /\ d <= lastChannel
    BY <1>1, <1>3, <2>1, <2>2, <2>4
  <2> QED BY <2>2, <2>3, <2>4
<1>7. \A r \in requests' : request'[r].state \in Idle => request'[r].channel = None
  BY <1>1, <1>2 DEF OwnInv
<1> QED BY <1>5, <1>6, <1>7 DEF OwnInv, Served, HasChannel


LEMMA OwnInput ==
    ASSUME TypeInv, CarriesInv, OwnInv, NEW c \in ChannelId,
           \/ InputDiscarded(c) \/ InputForFreedRequest(c) \/ InputSpins(c)
           \/ InputRelayed(c) /\ ~ AtEndOfFrame(c)
    PROVE  OwnInv'
<1>1. /\ channel[c] \in Channel /\ channel \in [ChannelId -> Channel]
      /\ channel[c].list # "none" /\ Head(data[c]) \in Chunk
      /\ UNCHANGED <<requests, request, lastChannel>>
  <2>1. data[c] # <<>> /\ Head(data[c]) \in Chunk
    BY InputShrinks
  <2>2. channel \in [ChannelId -> Channel]
    BY RelayTyped DEF TypeInv
  <2>3. UNCHANGED <<requests, request, lastChannel>>
    BY DEF InputDiscarded, InputRelayed, InputForFreedRequest, InputSpins, memory, lasts
  <2> QED BY <2>1, <2>2, <2>3 DEF CarriesInv, ChannelInv, Silent
<1>2. CASE InputDiscarded(c)
  <2>1. PICK k : k = Discard(channel[c], Head(data[c]))
    OBVIOUS
  <2>2. \/ /\ k.list = channel[c].list /\ k.client = channel[c].client
           /\ k.request = channel[c].request
        \/ k.list = "released" /\ k.client = None
    BY <1>1, <2>1, DiscardEffect
  <2>3. channel' = [channel EXCEPT ![c] = k] /\ channel[c].client = None
    BY <1>2, <2>1 DEF InputDiscarded
  <2> QED BY <1>1, <2>2, <2>3, OwnStays
<1>3. CASE InputRelayed(c) /\ ~ AtEndOfFrame(c)
  <2> DEFINE k == [channel[c] EXCEPT !.state = "RPC_IDLE"]
  <2>1. channel' = [channel EXCEPT ![c] = k]
    BY <1>3 DEF InputRelayed
  <2>2. k.list = channel[c].list /\ k.client = channel[c].client /\ k.request = channel[c].request
    BY <1>1 DEF Channel
  <2> HIDE DEF k
  <2> QED BY <1>1, <2>1, <2>2, OwnStays
<1>4. CASE InputForFreedRequest(c) \/ InputSpins(c)
  <2>1. channel' = channel
    BY <1>4 DEF InputForFreedRequest, InputSpins, memory
  <2> QED BY <1>1, <2>1, OwnStays
<1> QED BY <1>2, <1>3, <1>4

LEMMA OwnDrain ==
    ASSUME TypeInv, ReleasedInv, OwnInv, NEW s \in SockId, Drain(s)
    PROVE  OwnInv'
<1> DEFINE noisy == {c \in Released(s) : data[c] # <<>> \/ c \in eof}
           heard == {c \in noisy : HasChunk(c)}
<1>1. /\ channel \in [ChannelId -> Channel] /\ data \in [ChannelId -> Seq(Chunk)]
      /\ UNCHANGED <<requests, request, lastChannel>>
  BY RelayTyped DEF TypeInv, RelayTypes, DevicesOK, Drain, lasts
<1>2. CASE noisy = {}
  BY <1>1, <1>2, OwnStays DEF Drain
<1>3. ASSUME noisy # {} PROVE OwnInv'
  <2>1. PICK dead \in noisy :
         channel' = [c \in ChannelId |-> IF c = dead THEN NoChannel
                                        ELSE IF c \in heard THEN Discard(channel[c], Head(data[c]))
                                        ELSE channel[c]]
    BY <1>3 DEF Drain
  <2>2. \A c \in noisy : c \in ChannelId /\ channel[c].list = "released" /\ channel[c].client = None
    BY DEF Released, ReleasedInv
  <2>3. \A c \in heard : c \in noisy /\ Len(data[c]) > 0
    BY <1>1, <2>2, LenProperties DEF HasChunk
  <2> HIDE DEF noisy, heard
  <2>4. ASSUME NEW c \in ChannelId, c \in heard, c # dead
        PROVE  channel'[c].client = None
    <3>1. Len(<<>>) = 0
      OBVIOUS
    <3>2. data[c] # <<>>
      BY <2>3, <2>4, <3>1
    <3>3. Head(data[c]) \in Chunk /\ channel[c] \in Channel
      BY <1>1, <3>2, HeadTailProperties
    <3>4. channel'[c] = Discard(channel[c], Head(data[c]))
      BY <2>1, <2>4
    <3>5. channel[c].client = None
      BY <2>2, <2>3, <2>4
    <3> QED BY <3>3, <3>4, <3>5, DiscardEffect
  <2>5. channel'[dead].client = None
    BY <2>1, <2>2 DEF NoChannel
  <2>6. ASSUME NEW c \in ChannelId
        PROVE  \/ channel'[c] = channel[c]
               \/ channel'[c].client = None /\ channel[c].client = None /\ channel[c].list # "none"
    BY <2>1, <2>2, <2>3, <2>4, <2>5
  <2> QED BY <1>1, <2>6, OwnStays
<1> QED BY <1>2, <1>3

LEMMA OwnNext ==
    ASSUME NoFollowUps, BasicInv, AnswerInv, OwnInv, TypeInv', [Next]_vars
    PROVE  OwnInv'
<1>1. /\ SafetyInv /\ TypeInv /\ CarriesInv /\ MailInv /\ ReleasedInv /\ FreshInv /\ NoData
      /\ requests \in SUBSET requests /\ requests \ {} = requests
  BY DEF BasicInv, SafetyInv, NoFollowUps
<1>2. ASSUME UNCHANGED <<requests, request, channel, lastChannel>> PROVE OwnInv'
  BY <1>2, OwnStays
<1>3. CASE Environment \/ UNCHANGED vars
  BY <1>2, <1>3 DEF Environment, ClientRequests, ClientAnswers, ClientFollowsUp, ClientLeaves,
         DeviceReplies, DeviceEndsChannel, DeviceGoes, ClientUnchanged, memory, lasts, vars
<1>4. CASE \/ Poll
           \/ \E s \in SockId : \/ WebsocketReceives(s) \/ WebsocketDisconnects(s)
                                \/ WebsocketReadError(s) \/ WebsocketMispolled(s)
                                \/ VisitFailed(s) \/ VisitSession(s) \/ InputDone(s)
  BY <1>2, <1>4 DEF Poll, WebsocketReceives, WebsocketDisconnects, WebsocketReadError,
         WebsocketMispolled, VisitFailed, VisitSession, InputDone, memory, lasts
<1>5. ASSUME NEW s, CloseSession(s, requests, sock, {}) PROVE OwnInv'
  <2>1. {} \in SUBSET requests
    OBVIOUS
  <2> QED BY <1>1, <1>5, <2>1, OwnSessionCloses
<1>6. CASE PrepFails \/ ClosesVisited
  <2>1. PICK s \in SockId : Close(s)
    BY <1>1, <1>6, ClosedIsSock
  <2> QED BY <1>1, <1>5, <2>1, OwnWebsocketCloses DEF Close
<1>7. CASE EndPassIdle \/ EndPassAccepts
  BY <1>7, OwnStays DEF EndPassIdle, EndPassAccepts, EndPass, Freed, Unhealthy, Idle
<1>8. ASSUME NEW c \in ChannelId, ChannelInput(c) PROVE OwnInv'
  <2>1. CASE InputAtEof(c)
    BY <1>5, <2>1 DEF InputAtEof
  <2>2. CASE InputRelayed(c) /\ AtEndOfFrame(c)
    BY <1>1, <2>2, RelayedCompletes, OwnCompletes
  <2>3. CASE \/ InputDiscarded(c) \/ InputForFreedRequest(c) \/ InputSpins(c)
             \/ InputRelayed(c) /\ ~ AtEndOfFrame(c)
    BY <1>1, <2>3, OwnInput
  <2> QED BY <1>8, <2>1, <2>2, <2>3 DEF ChannelInput
<1>9. ASSUME NEW s \in SockId, Drain(s) PROVE OwnInv'
  BY <1>1, <1>9, OwnDrain
<1>10. ASSUME NEW w \in SockId, HandleRequest(w) PROVE OwnInv'
  <2>1. ASSUME NEW id \in RequestId, NEW s \in SockId, NEW x \in SockId,
               NEW c \in ChannelId \cup {None}, Starts(id, c, s, x)
        PROVE  OwnInv'
    BY <1>1, <2>1, OwnStarts
  <2>2. CASE \/ HandleRpcReuse(w) \/ HandleRpcNoCreate(w) \/ HandleRpcOpenFails(w)
             \/ HandleRpcOpen(w) \/ HandleAuthinit(w)
    <3>1. lastRequest + 1 \in RequestId
      <4>1. TypeOK /\ \E r : CreateRequest(r)
        BY <1>1, <2>2 DEF HandleRpcReuse, HandleRpcNoCreate, HandleRpcOpenFails, HandleRpcOpen,
                    HandleAuthinit, TypeInv
      <4> QED BY <4>1, NewRequest
    <3>2. PICK id \in RequestId : id = lastRequest + 1
      BY <3>1
    <3>3. None \in ChannelId \cup {None}
      OBVIOUS
    <3>4. CASE HandleRpcReuse(w)
      BY <1>1, <2>1, <3>2, <3>4, ReuseStarts
    <3>5. CASE HandleRpcNoCreate(w) \/ HandleRpcOpenFails(w)
      BY <1>1, <2>1, <3>2, <3>3, <3>5, RefusedStarts
    <3>6. CASE HandleRpcOpen(w)
      BY <1>1, <2>1, <3>2, <3>6, OpenStarts
    <3>7. CASE HandleAuthinit(w)
      BY <1>1, <2>1, <3>2, <3>3, <3>7, AuthinitStarts
    <3> QED BY <2>2, <3>4, <3>5, <3>6, <3>7
  <2>3. CASE HandleHostkeyAccepted(w) \/ HandlePassphrase(w) \/ HandlePassword(w)
    BY <1>1, <2>1, <2>3, AnswersStart
  <2>4. CASE HandleHostkeyDeclined(w)
    <3>1. /\ pc = "handle" /\ Waits(Addressed, "hostkey")
          /\ \E s, sk : CloseSession(s, requests \ {Addressed}, sk, {Addressed})
      BY <2>4 DEF HandleHostkeyDeclined, Awaiting, Handling, Freed
    <3>2. Addressed \in requests /\ request[Addressed].state \in Prompting
      BY <1>1, <3>1, WaitingTypes
    <3>3. request[Addressed].channel = None
      BY <3>2 DEF OwnInv, Idle
    <3>4. PICK S : S = {Addressed}
      OBVIOUS
    <3>5. PICK s, sk : CloseSession(s, requests \ S, sk, S)
      BY <3>1, <3>4
    <3> QED BY <1>1, <3>2, <3>3, <3>4, <3>5, OwnSessionCloses
  <2>5. CASE HandleAnswerIgnored(w)
    BY <1>2, <2>5 DEF HandleAnswerIgnored, memory, lasts
  <2>6. CASE \/ HandleDataUnknown(w) \/ HandleDataSent(w) \/ HandleDataFails(w)
             \/ HandleDataOpens(w)
    BY <1>1, <2>6, HandlingFacts DEF HandleDataUnknown, HandleDataSent, HandleDataFails,
                                     HandleDataOpens
  <2>7. CASE HandleError(w)
    <3>1. rbuf # <<>> /\ Incoming.op = "error"
      BY <2>7 DEF HandleError, Handling
    <3>2. Incoming.op \in Ops
      BY <1>1, <3>1, IncomingTypes DEF TypeInv, TypeOK, Message
    <3> QED BY <3>1, <3>2 DEF NoFollowUps
  <2> QED BY <1>10, <2>2, <2>3, <2>4, <2>5, <2>6, <2>7 DEF HandleRequest
<1> QED BY <1>3, <1>4, <1>6, <1>7, <1>8, <1>9, <1>10 DEF Next, Daemon, Pass, SessionPoller

\* When no client sends data or error messages, the request that a channel in use
\* relays to its client is on the list, and has this client and this channel: what
\* closes sessions and websockets, declines a host key or checks the health of the
\* requests frees none under its channel.
THEOREM ChannelsKeepTheirRequest ==
    ASSUME "data" \notin Ops, "error" \notin Ops
    PROVE  Spec => []ChannelHasItsRequest
<1>1. NoData /\ NoFollowUps
  BY DEF NoData, NoFollowUps
<1>2. Init => OwnInv
  BY DEF Init, OwnInv, Served, NoChannel
<1>3. BasicInv /\ AnswerInv /\ OwnInv /\ BasicInv' /\ [Next]_vars => OwnInv'
  BY <1>1, OwnNext DEF BasicInv, SafetyInv
<1>4. OwnInv => ChannelHasItsRequest
  BY ServedMeans DEF OwnInv
<1>5. Spec => []AnswerInv
  BY <1>1, AnswersKept
<1> QED BY <1>2, <1>3, <1>4, <1>5, BasicInvariant, PTL DEF Spec

=============================================================================
