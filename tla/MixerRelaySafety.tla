--------------------------- MODULE MixerRelaySafety ---------------------------
(***************************************************************************)
(* Relaying in the mixer, for any number of clients, requests, sessions    *)
(* and channels: what is on a channel, and under whose name it is passed   *)
(* on.                                                                     *)
(***************************************************************************)
EXTENDS MixerSafety, FiniteSetTheorems

-----------------------------------------------------------------------------
(* What is on a channel *)

\* One reply, or what is left of it, and nothing behind its last chunk
OneReply(c) ==
    /\ Len(device[c]) <= 1
    /\ \A i \in DOMAIN device[c] : device[c][i].rpc = channel[c].request
    /\ \A i \in DOMAIN data[c] : /\ data[c][i].rpc = channel[c].request
                                 /\ data[c][i].last => i = Len(data[c]) /\ device[c] = <<>>

Silent(c) == device[c] = <<>> /\ data[c] = <<>>

\* A channel that was never given up in the middle of an RPC carries at most one
\* reply, that to its current request, and has forgotten the frame before.
ChannelInv(c) ==
    /\ c > lastChannel => channel[c].list = "none"
    /\ channel[c].list = "none" => Silent(c)
    /\ channel[c].list = "inuse" => channel[c].state \in {"RPC_INITIAL", "RPC_IDLE"}
    /\ c \notin tainted => /\ ~ channel[c].eoframe
                           /\ IF channel[c].list = "inuse" THEN OneReply(c) ELSE Silent(c)

CarriesInv == \A c \in ChannelId : ChannelInv(c)

RelayTypes == ChannelsOK /\ DevicesOK /\ HistoryOK

LEMMA RelayTyped ==
    TypeOK => /\ RelayTypes /\ lastChannel \in Nat /\ channel \in [ChannelId -> Channel]
              /\ device \in [ChannelId -> Seq([rpc : RequestId, left : Nat \ {0}])]
              /\ lastRequest \in Nat /\ request \in [RequestId -> Request]
              /\ requests \subseteq RequestId /\ requests \subseteq 1..lastRequest
<1> SUFFICES ASSUME TypeOK
             PROVE  /\ RelayTypes /\ lastChannel \in Nat /\ channel \in [ChannelId -> Channel]
                    /\ device \in [ChannelId -> Seq([rpc : RequestId, left : Nat \ {0}])]
                    /\ lastRequest \in Nat /\ request \in [RequestId -> Request]
                    /\ requests \subseteq RequestId /\ requests \subseteq 1..lastRequest
  OBVIOUS
<1>1. RelayTypes /\ RequestsOK
  BY DEF TypeOK, RelayTypes
<1>2. lastChannel \in Nat /\ lastRequest \in Nat
  BY <1>1, Bounds DEF RelayTypes, ChannelsOK, RequestsOK
<1>3. requests \subseteq RequestId
  BY <1>1, RequestsInRange
<1> QED BY <1>1, <1>2, <1>3 DEF RelayTypes, ChannelsOK, DevicesOK, RequestsOK

LEMMA ChannelStays ==
    ASSUME NEW c \in ChannelId, ChannelInv(c), UNCHANGED <<channel[c], device[c], data[c]>>,
           lastChannel \in Nat, lastChannel' \in Nat, lastChannel <= lastChannel',
           c \in tainted => c \in tainted'
    PROVE  ChannelInv(c)'
<1>1. c \in Nat
  BY DEF ChannelId
<1>2. OneReply(c)' = OneReply(c) /\ Silent(c)' = Silent(c)
  BY DEF OneReply, Silent
<1>3. c > lastChannel' => c > lastChannel
  BY <1>1
<1> QED BY <1>2, <1>3 DEF ChannelInv

\* Reading a chunk leaves the rest of a reply
LEMMA RestOfReply ==
    ASSUME RelayTypes, NEW c \in ChannelId, data[c] # <<>>, data' = [data EXCEPT ![c] = Tail(@)]
    PROVE  /\ data'[c] = Tail(data[c]) /\ \A d \in ChannelId \ {c} : data'[d] = data[d]
           /\ Head(data[c]) = data[c][1] /\ 1 \in DOMAIN data[c] /\ Head(data[c]) \in Chunk
           /\ Len(data'[c]) = Len(data[c]) - 1 /\ Len(data[c]) \in Nat \ {0}
           /\ \A i \in DOMAIN data'[c] : i + 1 \in DOMAIN data[c] /\ data'[c][i] = data[c][i + 1]
<1> DEFINE q == data[c]
<1>1. q \in Seq(Chunk) /\ q # <<>>
  BY DEF RelayTypes, DevicesOK
<1>2. data'[c] = Tail(q) /\ \A d \in ChannelId \ {c} : data'[d] = data[d]
  BY DEF RelayTypes, DevicesOK
<1> HIDE DEF q
<1>3. /\ Head(q) = q[1] /\ 1 \in DOMAIN q /\ Head(q) \in Chunk /\ Tail(q) \in Seq(Chunk)
      /\ Len(Tail(q)) = Len(q) - 1 /\ Len(q) \in Nat \ {0}
      /\ \A i \in 1..(Len(q) - 1) : Tail(q)[i] = q[i + 1]
  BY <1>1, HeadTailProperties, EmptySeq, LenProperties, ElementOfSeq
<1>4. \A i \in DOMAIN Tail(q) : i + 1 \in DOMAIN q /\ Tail(q)[i] = q[i + 1]
  <2>1. DOMAIN Tail(q) = 1..(Len(q) - 1) /\ DOMAIN q = 1..Len(q)
    BY <1>1, <1>3, LenProperties
  <2> QED BY <1>3, <2>1
<1> QED BY <1>2, <1>3, <1>4 DEF q

\* After the last chunk of a reply there is nothing
LEMMA LastChunk ==
    ASSUME RelayTypes, NEW c \in ChannelId, OneReply(c), data[c] # <<>>,
           data' = [data EXCEPT ![c] = Tail(@)], UNCHANGED device[c]
    PROVE  /\ Head(data[c]).rpc = channel[c].request
           /\ Head(data[c]).last => Silent(c)'
<1>1. /\ Head(data[c]) = data[c][1] /\ 1 \in DOMAIN data[c] /\ data'[c] = Tail(data[c])
      /\ Len(data'[c]) = Len(data[c]) - 1 /\ Len(data[c]) \in Nat \ {0}
  BY RestOfReply
<1>2. data'[c] \in Seq(Chunk)
  BY <1>1, HeadTailProperties DEF RelayTypes, DevicesOK
<1>3. Head(data[c]).last => Silent(c)'
  <2> SUFFICES ASSUME Head(data[c]).last PROVE Silent(c)'
    OBVIOUS
  <2>1. 1 = Len(data[c]) /\ device[c] = <<>>
    BY <1>1 DEF OneReply
  <2>2. Len(data'[c]) = 0
    BY <1>1, <2>1
  <2> QED BY <1>2, <2>1, <2>2, EmptySeq DEF Silent
<1> QED BY <1>1, <1>3 DEF OneReply

\* A chunk is read, and the channel goes on with the rest of the reply
LEMMA ReplyGoesOn ==
    ASSUME RelayTypes, NEW c \in ChannelId, OneReply(c), data[c] # <<>>,
           data' = [data EXCEPT ![c] = Tail(@)], UNCHANGED device[c],
           channel'[c].request = channel[c].request
    PROVE  OneReply(c)'
<1>1. /\ Len(data'[c]) = Len(data[c]) - 1 /\ Len(data[c]) \in Nat \ {0} /\ data'[c] = Tail(data[c])
      /\ \A i \in DOMAIN data'[c] : i + 1 \in DOMAIN data[c] /\ data'[c][i] = data[c][i + 1]
  BY RestOfReply
<1>2. data'[c] \in Seq(Chunk)
  BY <1>1, HeadTailProperties DEF RelayTypes, DevicesOK
<1>3. ASSUME NEW i \in DOMAIN data'[c]
      PROVE  /\ data'[c][i].rpc = channel'[c].request
             /\ data'[c][i].last => i = Len(data'[c]) /\ device'[c] = <<>>
  <2>1. i + 1 \in DOMAIN data[c] /\ data'[c][i] = data[c][i + 1] /\ i \in Nat
    BY <1>1, <1>2, <1>3, LenProperties
  <2> QED BY <1>1, <2>1 DEF OneReply
<1> QED BY <1>3 DEF OneReply

\* What ChannelInv asks of a channel that is there
LEMMA ChannelIsSound ==
    ASSUME NEW c \in ChannelId, lastChannel' \in Nat, c <= lastChannel', channel'[c].list # "none",
           channel'[c].list = "inuse" => channel'[c].state \in {"RPC_INITIAL", "RPC_IDLE"},
           c \notin tainted' => channel'[c].eoframe = FALSE,
           c \notin tainted' /\ channel'[c].list = "inuse" => OneReply(c)',
           c \notin tainted' /\ channel'[c].list # "inuse" => Silent(c)'
    PROVE  ChannelInv(c)'
<1>1. ~ c > lastChannel'
  BY DEF ChannelId
<1> QED BY <1>1 DEF ChannelInv

\* A chunk without a client: a channel in use works on until the end of its frame
LEMMA DiscardEffect ==
    ASSUME NEW ch \in Channel, NEW d \in Chunk, NEW k, k = Discard(ch, d)
    PROVE  /\ k \in Channel /\ k.session = ch.session
           /\ \/ k.list = ch.list /\ k.state = ch.state /\ k.client = ch.client
                 /\ k.request = ch.request /\ k.eoframe = (ch.eoframe \/ d.last)
                 /\ ~ (k.eoframe /\ ch.state \in {"RPC_INITIAL", "RPC_IDLE"})
              \/ k.list = "released" /\ k.client = None /\ ~ k.eoframe /\ (ch.eoframe \/ d.last)
              \/ k.list = "released" /\ k.client = None /\ ch.state = "RPC_COMPLETE"
<1>1. k \in Channel
  BY DiscardTypes
<1> DEFINE a == [ch EXCEPT !.state = "RPC_COMPLETE", !.eoframe = FALSE]
           b == [ch EXCEPT !.eoframe = ch.eoframe \/ d.last]
<1>2. /\ a.session = ch.session /\ a.eoframe = FALSE
      /\ b.session = ch.session /\ b.eoframe = (ch.eoframe \/ d.last) /\ b.list = ch.list
      /\ b.state = ch.state /\ b.client = ch.client /\ b.request = ch.request
      /\ a \in Channel /\ b \in Channel
  BY DEF Channel, ChannelState, Chunk
<1>3. \A x \in Channel : /\ ReleasedFrom(x).list = "released" /\ ReleasedFrom(x).client = None
                         /\ ReleasedFrom(x).session = x.session
                         /\ ReleasedFrom(x).eoframe = x.eoframe
  BY DEF ReleasedFrom, Channel
<1>4. k = IF (ch.eoframe \/ d.last) /\ ch.state \in {"RPC_INITIAL", "RPC_IDLE"} THEN ReleasedFrom(a)
          ELSE IF ch.state = "RPC_COMPLETE" THEN ReleasedFrom(b) ELSE b
  BY DEF Discard
<1>5. ch.state \in ChannelState /\ ch.eoframe \in BOOLEAN /\ d.last \in BOOLEAN
  BY DEF Channel, Chunk
<1> HIDE DEF a, b
<1>6. CASE (ch.eoframe \/ d.last) /\ ch.state \in {"RPC_INITIAL", "RPC_IDLE"}
  <2>1. k = ReleasedFrom(a)
    BY <1>4, <1>6
  <2>2. k.list = "released" /\ k.client = None /\ k.eoframe = FALSE /\ k.session = ch.session
    BY <1>2, <1>3, <2>1
  <2> QED BY <1>1, <1>6, <2>2
<1>7. CASE ch.state = "RPC_COMPLETE"
  <2>1. k = ReleasedFrom(b)
    BY <1>4, <1>7
  <2>2. k.list = "released" /\ k.client = None /\ k.session = ch.session
    BY <1>2, <1>3, <2>1
  <2> QED BY <1>1, <1>7, <2>2
<1>8. CASE ~ (ch.eoframe \/ d.last) /\ ch.state # "RPC_COMPLETE"
  <2>1. k = b
    BY <1>4, <1>8
  <2>2. b.eoframe = FALSE /\ (ch.eoframe \/ d.last) = FALSE
    BY <1>2, <1>8
  <2> QED BY <1>1, <1>2, <2>1, <2>2
<1> QED BY <1>5, <1>6, <1>7, <1>8 DEF ChannelState

\* What the reading of a channel in use may come to
LEMMA InputCarries ==
    ASSUME TypeInv, CarriesInv, NEW c \in ChannelId,
           InputDiscarded(c) \/ InputRelayed(c) \/ InputForFreedRequest(c) \/ InputSpins(c)
    PROVE  CarriesInv'
<1>1. /\ RelayTypes /\ lastChannel \in Nat /\ channel[c] \in Channel
      /\ channel \in [ChannelId -> Channel] /\ ChannelInv(c)
  BY DEF TypeInv, TypeOK, RelayTypes, ChannelsOK, CarriesInv
<1>2. /\ data[c] # <<>> /\ data' = [data EXCEPT ![c] = Tail(@)]
      /\ UNCHANGED <<device, tainted, lastChannel>>
  <2>1. Reading(c) /\ UNCHANGED <<device, tainted, lastChannel>>
    BY DEF InputDiscarded, InputRelayed, InputForFreedRequest, InputSpins, memory, lasts, history
  <2>2. Len(data[c]) > 0
    BY <1>1, <2>1, LenProperties DEF Reading, HasChunk, RelayTypes, DevicesOK
  <2> QED BY <2>1, <2>2 DEF Reading
<1>3. /\ \A d \in ChannelId \ {c} : data'[d] = data[d] /\ channel'[d] = channel[d]
      /\ Head(data[c]) \in Chunk /\ channel' \in [ChannelId -> Channel]
  <2>1. \A d \in ChannelId \ {c} : data'[d] = data[d]
    BY <1>1, <1>2, RestOfReply
  <2>2. Head(data[c]) \in Chunk
    BY <1>1, <1>2, RestOfReply
  <2>3. \E k \in Channel : channel' = channel \/ channel' = [channel EXCEPT ![c] = k]
    <3>1. CASE InputDiscarded(c)
      BY <1>1, <2>2, <3>1, DiscardTypes DEF InputDiscarded
    <3>2. CASE InputRelayed(c)
      <4>1. /\ [channel[c] EXCEPT !.state = "RPC_COMPLETE", !.eoframe = FALSE] \in Channel
            /\ [channel[c] EXCEPT !.state = "RPC_IDLE"] \in Channel
        BY <1>1 DEF Channel, ChannelState
      <4> QED BY <3>2, <4>1, ReleasedFromTypes DEF InputRelayed
    <3>3. CASE InputForFreedRequest(c) \/ InputSpins(c)
      BY <1>1, <3>3 DEF InputForFreedRequest, InputSpins, memory
    <3> QED BY <3>1, <3>2, <3>3
  <2> QED BY <1>1, <2>1, <2>2, <2>3
<1>4. channel[c].list # "none" /\ c <= lastChannel
  BY <1>1, <1>2 DEF ChannelInv, Silent, ChannelId
<1>5. channel[c].list = "inuse" /\ c \notin tainted =>
          /\ OneReply(c) /\ ~ channel[c].eoframe
          /\ channel'[c].request = channel[c].request => OneReply(c)'
          /\ Head(data[c]).last => Silent(c)'
  BY <1>1, <1>2, LastChunk, ReplyGoesOn DEF ChannelInv
<1>6. ChannelInv(c)'
  <2>1. CASE InputDiscarded(c)
    <3>1. channel'[c] = Discard(channel[c], Head(data[c]))
      BY <1>1, <2>1 DEF InputDiscarded
    <3> DEFINE k == channel'[c]
    <3>2. /\ k \in Channel
          /\ \/ k.list = channel[c].list /\ k.state = channel[c].state
                /\ k.request = channel[c].request
                /\ k.eoframe = (channel[c].eoframe \/ Head(data[c]).last)
                /\ ~ (k.eoframe /\ channel[c].state \in {"RPC_INITIAL", "RPC_IDLE"})
             \/ /\ k.list = "released" /\ ~ k.eoframe /\ (channel[c].eoframe \/ Head(data[c]).last)
             \/ k.list = "released" /\ channel[c].state = "RPC_COMPLETE"
      BY <1>1, <1>3, <3>1, DiscardEffect
    <3>3. c \notin tainted => channel[c].list = "inuse"
      BY <1>1, <1>2, <1>4 DEF ChannelInv, Silent
    <3>4. (c \notin tainted)' <=> c \notin tainted
      BY <1>2
    <3> HIDE DEF k
    <3>5. channel'[c].list = k.list /\ channel'[c].state = k.state /\ channel'[c].eoframe = k.eoframe
          /\ channel'[c].request = k.request /\ k.list # "none"
      BY <1>4, <3>2 DEF k
    <3>6. c \notin tainted => /\ ~ k.eoframe
                              /\ IF k.list = "inuse" THEN OneReply(c)' ELSE Silent(c)'
      <4> SUFFICES ASSUME c \notin tainted
                   PROVE  ~ k.eoframe /\ IF k.list = "inuse" THEN OneReply(c)' ELSE Silent(c)'
        OBVIOUS
      <4>1. /\ channel[c].list = "inuse" /\ channel[c].state \in {"RPC_INITIAL", "RPC_IDLE"}
            /\ ~ channel[c].eoframe
        BY <1>1, <3>3 DEF ChannelInv
      <4>2. \/ k.list = "inuse" /\ k.request = channel[c].request /\ ~ k.eoframe
            \/ k.list = "released" /\ ~ k.eoframe /\ Head(data[c]).last
        BY <3>2, <4>1
      <4> QED BY <1>5, <3>5, <4>1, <4>2
    <3>7. k.list = "inuse" => k.state \in {"RPC_INITIAL", "RPC_IDLE"}
      BY <1>1, <3>2 DEF ChannelInv
    <3>8. /\ c \notin tainted' => channel'[c].eoframe = FALSE
          /\ c \notin tainted' /\ channel'[c].list = "inuse" => OneReply(c)'
          /\ c \notin tainted' /\ channel'[c].list # "inuse" => Silent(c)'
      <4>1. k.eoframe \in BOOLEAN
        BY <3>2 DEF Channel
      <4> QED BY <3>4, <3>5, <3>6, <4>1
    <3>9. /\ lastChannel' \in Nat /\ c <= lastChannel' /\ channel'[c].list # "none"
          /\ channel'[c].list = "inuse" => channel'[c].state \in {"RPC_INITIAL", "RPC_IDLE"}
      BY <1>1, <1>2, <1>4, <3>5, <3>7
    <3> QED BY <3>8, <3>9, ChannelIsSound
  <2>2. CASE InputRelayed(c)
    <3>1. /\ channel[c].client # None /\ c \in todo
          /\ IF AtEndOfFrame(c)
             THEN channel'[c] = ReleasedFrom([channel[c] EXCEPT !.state = "RPC_COMPLETE",
                                                                !.eoframe = FALSE])
             ELSE channel'[c] = [channel[c] EXCEPT !.state = "RPC_IDLE"]
      BY <1>1, <2>2 DEF InputRelayed, Reading
    <3>2. IF AtEndOfFrame(c)
          THEN channel'[c].list = "released" /\ channel'[c].eoframe = FALSE
          ELSE /\ channel'[c].list = channel[c].list /\ channel'[c].state = "RPC_IDLE"
               /\ channel'[c].eoframe = channel[c].eoframe
               /\ channel'[c].request = channel[c].request
      BY <1>1, <3>1 DEF ReleasedFrom, Channel
    <3>3. c \notin tainted => channel[c].list = "inuse"
      BY <1>1, <1>2, <1>4 DEF ChannelInv, Silent
    <3>4. c \notin tainted /\ AtEndOfFrame(c) => Silent(c)'
      BY <1>5, <3>3 DEF AtEndOfFrame
    <3>5. c \notin tainted => ~ channel[c].eoframe /\ channel[c].eoframe \in BOOLEAN
      BY <1>1 DEF ChannelInv, Channel
    <3>6. c \notin tainted' => c \notin tainted
      BY <1>2
    <3>7. CASE AtEndOfFrame(c)
      BY <1>1, <1>2, <1>4, <3>2, <3>4, <3>6, <3>7, ChannelIsSound
    <3>8. CASE ~ AtEndOfFrame(c)
      BY <1>1, <1>2, <1>4, <1>5, <3>2, <3>3, <3>5, <3>6, <3>8, ChannelIsSound
    <3> QED BY <3>7, <3>8
  <2>3. CASE InputForFreedRequest(c) \/ InputSpins(c)
    <3>1. channel'[c] = channel[c]
      BY <2>3 DEF InputForFreedRequest, InputSpins, memory
    <3>2. c \notin tainted => channel[c].list = "inuse"
      BY <1>1, <1>2, <1>4 DEF ChannelInv, Silent
    <3> QED BY <1>1, <1>2, <1>4, <1>5, <3>1, <3>2 DEF ChannelInv, Channel
  <2> QED BY <2>1, <2>2, <2>3
<1>7. ASSUME NEW d \in ChannelId \ {c} PROVE ChannelInv(d)'
  BY <1>1, <1>2, <1>3, ChannelStays DEF CarriesInv
<1> QED BY <1>6, <1>7 DEF CarriesInv

\* The channel that an RPC is sent on, and no other, works for its request
LEMMA SendEffect ==
    ASSUME TypeOK, NEW id \in RequestId, NEW s \in SockId, NEW w \in SockId \cup {None},
           NEW c \in ChannelFor(s) \cup {None}, SendRpc(id, c, s, w)
    PROVE  /\ c \in ChannelId \cup {None} /\ lastChannel' \in Nat /\ lastChannel <= lastChannel'
           /\ \A d \in ChannelId : d # c => channel'[d] = channel[d] /\ device'[d] = device[d]
           /\ c # None =>
                 /\ c <= lastChannel'
                 /\ channel[c].list = "released" \/ c = lastChannel + 1
                 /\ channel'[c].list = "inuse" /\ channel'[c].state = "RPC_INITIAL"
                 /\ channel'[c].session = s /\ channel'[c].client = w /\ channel'[c].request = id
                 /\ channel'[c].eoframe = channel[c].eoframe
                 /\ device'[c] \in {device[c], Append(device[c], [rpc |-> id, left |-> ReplyChunks])}
<1>1. c \in ChannelId \cup {None}
  BY ChannelForTypes
<1>2. /\ channel \in [ChannelId -> Channel] /\ lastChannel \in Nat
      /\ device \in [ChannelId -> Seq([rpc : RequestId, left : Nat \ {0}])]
  BY RelayTyped
<1>3. None \notin ChannelId /\ \A d \in ChannelId : d \in Nat
  BY DEF None, ChannelId
<1>4. /\ lastChannel' \in Nat /\ lastChannel <= lastChannel' /\ (c # None => c <= lastChannel')
  BY <1>1, <1>2, <1>3 DEF SendRpc, None
<1>5. channel' = IF c = None THEN channel
                 ELSE [channel EXCEPT ![c].list = "inuse", ![c].session = s,
                                      ![c].state = "RPC_INITIAL",
                                      ![c].client = w, ![c].request = id]
  BY DEF SendRpc
<1>6. device' = device \/ (c # None /\ device' = [device EXCEPT ![c] =
                              Append(@, [rpc |-> id, left |-> ReplyChunks])])
  BY DEF SendRpc
<1>7. ASSUME c # None
      PROVE  /\ channel'[c].list = "inuse" /\ channel'[c].state = "RPC_INITIAL"
             /\ channel'[c].session = s /\ channel'[c].client = w /\ channel'[c].request = id
             /\ channel'[c].eoframe = channel[c].eoframe
  <2>1. c \in ChannelId /\ channel[c] \in Channel
    BY <1>1, <1>2, <1>7
  <2>2. channel'[c] = [channel[c] EXCEPT !.list = "inuse", !.session = s, !.state = "RPC_INITIAL",
                                         !.client = w, !.request = id]
    BY <1>2, <1>5, <1>7, <2>1
  <2> QED BY <2>1, <2>2 DEF Channel
<1>8. \A d \in ChannelId : d # c => channel'[d] = channel[d] /\ device'[d] = device[d]
  BY <1>1, <1>2, <1>5, <1>6
<1>9. c # None => device'[c] \in {device[c], Append(device[c], [rpc |-> id, left |-> ReplyChunks])}
  BY <1>1, <1>2, <1>6
<1>10. c # None => channel[c].list = "released" \/ c = lastChannel + 1
  BY DEF ChannelFor, Released
<1> QED BY <1>1, <1>4, <1>7, <1>8, <1>9, <1>10

\* No other channel has a part in it
LEMMA SendOthers ==
    ASSUME TypeOK, NEW id \in RequestId, NEW s \in SockId, NEW w \in SockId \cup {None},
           NEW c \in ChannelId \cup {None}, SendRpc(id, c, s, w),
           NEW d \in ChannelId, d # c
    PROVE  channel'[d] = channel[d] /\ device'[d] = device[d]
<1>1. /\ channel \in [ChannelId -> Channel]
      /\ device \in [ChannelId -> Seq([rpc : RequestId, left : Nat \ {0}])]
  BY RelayTyped
<1>2. channel'[d] = channel[d]
  BY <1>1 DEF SendRpc
<1>3. device'[d] = device[d]
  BY <1>1 DEF SendRpc
<1> QED BY <1>2, <1>3

LEMMA SendCarries ==
    ASSUME TypeInv, CarriesInv, NEW id \in RequestId, NEW s \in SockId,
           NEW w \in SockId \cup {None}, NEW c \in ChannelFor(s) \cup {None}, SendRpc(id, c, s, w),
           UNCHANGED <<data, tainted>>
    PROVE  CarriesInv'
<1>1. TypeOK /\ lastChannel \in Nat /\ channel \in [ChannelId -> Channel]
  BY RelayTyped DEF TypeInv
<1>2. /\ c \in ChannelId \cup {None} /\ lastChannel' \in Nat /\ lastChannel <= lastChannel'
      /\ \A d \in ChannelId : d # c => channel'[d] = channel[d] /\ device'[d] = device[d]
      /\ \A d \in ChannelId : data'[d] = data[d]
  <2>1. c \in ChannelId \cup {None} /\ lastChannel' \in Nat /\ lastChannel <= lastChannel'
    BY <1>1, SendEffect
  <2>2. ASSUME NEW d \in ChannelId, d # c
        PROVE  channel'[d] = channel[d] /\ device'[d] = device[d]
    BY <1>1, <2>1, <2>2, SendOthers
  <2> QED BY <2>1, <2>2
<1>3. ASSUME NEW d \in ChannelId, d # c PROVE ChannelInv(d)'
  <2>1. ChannelInv(d) /\ UNCHANGED <<channel[d], device[d], data[d]>>
    BY <1>2, <1>3 DEF CarriesInv
  <2> QED BY <1>1, <1>2, <2>1, ChannelStays
<1>4. ASSUME c # None PROVE ChannelInv(c)'
  <2>1. /\ c \in ChannelId /\ c <= lastChannel'
        /\ channel[c].list = "released" \/ c = lastChannel + 1
        /\ channel'[c].list = "inuse" /\ channel'[c].state = "RPC_INITIAL"
        /\ channel'[c].request = id /\ channel'[c].eoframe = channel[c].eoframe
        /\ device'[c] \in {device[c], Append(device[c], [rpc |-> id, left |-> ReplyChunks])}
    BY <1>1, <1>2, <1>4, SendEffect
  <2>2. channel[c].list # "inuse"
    <3>1. c = lastChannel + 1 => c > lastChannel
      BY <1>1
    <3> QED BY <2>1, <3>1 DEF CarriesInv, ChannelInv
  <2>3. c \notin tainted => Silent(c) /\ channel[c].eoframe = FALSE
    BY <1>1, <2>1, <2>2 DEF CarriesInv, ChannelInv, Channel
  <2>4. Silent(c) => OneReply(c)'
    <3> SUFFICES ASSUME Silent(c) PROVE OneReply(c)'
      OBVIOUS
    <3> DEFINE m == [rpc |-> id, left |-> ReplyChunks]
    <3>1. data'[c] = <<>> /\ device'[c] \in {<<>>, <<m>>}
      <4>1. Append(<<>>, m) = <<m>>
        OBVIOUS
      <4> HIDE DEF m
      <4> QED BY <2>1, <4>1 DEF Silent, m
    <3>2. m.rpc = id
      OBVIOUS
    <3>3. /\ Len(<<m>>) = 1 /\ Len(<< >>) = 0 /\ DOMAIN << >> = {} /\ DOMAIN <<m>> = {1} /\ <<m>>[1] = m
      OBVIOUS
    <3> HIDE DEF m
    <3>4. \A i \in DOMAIN device'[c] : device'[c][i].rpc = channel'[c].request
      <4>1. CASE device'[c] = <<>>
        BY <3>3, <4>1
      <4>2. CASE device'[c] = <<m>>
        BY <2>1, <3>2, <3>3, <4>2
      <4> QED BY <3>1, <4>1, <4>2
    <3>5. DOMAIN data'[c] = {}
      BY <3>1, <3>3
    <3>6. Len(device'[c]) <= 1
      <4>1. CASE device'[c] = <<>>
        BY <3>3, <4>1
      <4>2. CASE device'[c] = <<m>>
        BY <3>3, <4>2
      <4> QED BY <3>1, <4>1, <4>2
    <3> QED BY <3>4, <3>5, <3>6 DEF OneReply
  <2> QED BY <1>2, <2>1, <2>3, <2>4, ChannelIsSound
<1>5. None \notin ChannelId
  BY DEF None, ChannelId
<1>6. ASSUME NEW d \in ChannelId PROVE ChannelInv(d)'
  BY <1>3, <1>4, <1>5
<1> QED BY <1>6 DEF CarriesInv

\* The channels of a session that closes are gone, and the others as they were
LEMMA SessionClosesCarries ==
    ASSUME TypeInv, CarriesInv, NEW s, NEW R, NEW sk, NEW D, CloseSession(s, R, sk, D)
    PROVE  CarriesInv'
<1> DEFINE gone == InUse(s) \cup Released(s)
<1>1. /\ \A c \in ChannelId : /\ channel'[c] = IF c \in gone THEN NoChannel ELSE channel[c]
                              /\ device'[c] = IF c \in gone THEN <<>> ELSE device[c]
                              /\ data'[c] = IF c \in gone THEN <<>> ELSE data[c]
      /\ UNCHANGED <<lastChannel, tainted>> /\ lastChannel \in Nat
  BY RelayTyped DEF CloseSession, lasts, TypeInv
<1> HIDE DEF gone
<1>2. ASSUME NEW c \in ChannelId PROVE ChannelInv(c)'
  <2>1. CASE c \notin gone
    BY <1>1, <2>1, ChannelStays DEF CarriesInv
  <2>2. CASE c \in gone
    BY <1>1, <2>2 DEF ChannelInv, NoChannel, Silent
  <2> QED BY <2>1, <2>2
<1> QED BY <1>2 DEF CarriesInv

LEMMA ClientClosesCarries ==
    ASSUME TypeInv, CarriesInv, NEW w \in SockId, CloseWebsocket(w)
    PROVE  CarriesInv'
<1>1. PICK release :
         /\ tainted' = tainted \cup {c \in release : device[c] # <<>> \/ data[c] # <<>>}
         /\ channel' = [c \in ChannelId |->
               IF c \in release
               THEN [channel[c] EXCEPT !.list = IF @ = "none" THEN @ ELSE "released",
                                       !.client = None, !.request = None]
               ELSE IF channel[c].client = w THEN [channel[c] EXCEPT !.client = None]
               ELSE channel[c]]
  BY DEF CloseWebsocket
<1>2. /\ UNCHANGED <<device, data, lastChannel>> /\ lastChannel \in Nat
      /\ channel \in [ChannelId -> Channel]
  BY RelayTyped DEF CloseWebsocket, lasts, devices, TypeInv
<1>3. ASSUME NEW c \in ChannelId PROVE ChannelInv(c)'
  <2>1. channel[c] \in Channel /\ ChannelInv(c)
    BY <1>2 DEF CarriesInv
  <2>2. CASE c \in release
    <3>1. /\ channel'[c].list = IF channel[c].list = "none" THEN "none" ELSE "released"
          /\ channel'[c].eoframe = channel[c].eoframe
      BY <1>1, <2>1, <2>2 DEF Channel
    <3>2. c \notin tainted' => c \notin tainted /\ Silent(c)
      BY <1>1, <2>2 DEF Silent
    <3> QED BY <1>2, <2>1, <3>1, <3>2 DEF ChannelInv, Silent
  <2>3. CASE c \notin release
    <3>1. /\ channel'[c].list = channel[c].list /\ channel'[c].state = channel[c].state
          /\ channel'[c].eoframe = channel[c].eoframe /\ channel'[c].request = channel[c].request
      BY <1>1, <2>1, <2>3 DEF Channel
    <3>2. c \notin tainted' => c \notin tainted
      BY <1>1
    <3>3. OneReply(c)' = OneReply(c) /\ Silent(c)' = Silent(c)
      BY <1>2, <3>1 DEF OneReply, Silent
    <3> QED BY <1>2, <2>1, <3>1, <3>2, <3>3 DEF ChannelInv
  <2> QED BY <2>2, <2>3
<1> QED BY <1>3 DEF CarriesInv

\* A device passes the next chunk of its one reply on
LEMMA DeviceRepliesCarries ==
    ASSUME TypeInv, CarriesInv, NEW c \in ChannelId, DeviceReplies(c)
    PROVE  CarriesInv'
<1> DEFINE d == Head(device[c])
<1> DEFINE e == [rpc |-> d.rpc, last |-> d.left = 1]
<1>1. /\ lastChannel \in Nat /\ channel[c] \in Channel /\ device[c] \in Seq([rpc : RequestId, left : Nat \ {0}])
      /\ data[c] \in Seq(Chunk) /\ device[c] # <<>> /\ ChannelInv(c)
      /\ UNCHANGED <<channel, lastChannel, tainted>>
  BY RelayTyped DEF TypeInv, RelayTypes, DevicesOK, DeviceReplies, CarriesInv, memory, lasts, history
<1>2. /\ data'[c] = Append(data[c], e)
      /\ device'[c] = IF d.left = 1 THEN Tail(device[c])
                      ELSE [device[c] EXCEPT ![1].left = d.left - 1]
      /\ \A x \in ChannelId \ {c} : data'[x] = data[x] /\ device'[x] = device[x]
  BY RelayTyped DEF TypeInv, RelayTypes, DevicesOK, DeviceReplies
<1>3. ASSUME NEW x \in ChannelId \ {c} PROVE ChannelInv(x)'
  BY <1>1, <1>2, ChannelStays DEF CarriesInv
<1>4. ASSUME OneReply(c) PROVE OneReply(c)'
  <2>1. /\ Len(device[c]) = 1 /\ DOMAIN device[c] = {1} /\ d = device[c][1]
        /\ d.rpc = channel[c].request /\ d \in [rpc : RequestId, left : Nat \ {0}]
    <3>1. Len(device[c]) = 1 /\ DOMAIN device[c] = 1..Len(device[c]) /\ d = device[c][1]
      <4> DEFINE q == device[c]
                 Reply == [rpc : RequestId, left : Nat \ {0}]
      <4>1. q \in Seq(Reply) /\ q # <<>>
        BY <1>1
      <4>2. Len(q) <= 1
        BY <1>4 DEF OneReply
      <4> HIDE DEF q, Reply
      <4>3. Len(q) \in Nat \ {0} /\ DOMAIN q = 1..Len(q)
        BY <4>1, EmptySeq, LenProperties
      <4>4. Head(q) = q[1] /\ Len(q) = 1
        BY <4>1, <4>2, <4>3
      <4> QED BY <4>3, <4>4 DEF q
    <3>2. d.rpc = channel[c].request
      BY <1>4, <3>1 DEF OneReply
    <3>3. d \in [rpc : RequestId, left : Nat \ {0}]
      BY <1>1, HeadTailProperties, EmptySeq, ElementOfSeq
    <3>4. DOMAIN device[c] = {1}
      BY <3>1
    <3> QED BY <3>1, <3>2, <3>3, <3>4
  <2>2. \A i \in DOMAIN data[c] : data[c][i].rpc = channel[c].request /\ ~ data[c][i].last
    BY <1>1, <1>4 DEF OneReply
  <2>3. /\ Len(device'[c]) <= 1 /\ \A i \in DOMAIN device'[c] : device'[c][i].rpc = channel'[c].request
        /\ d.left = 1 => device'[c] = <<>>
    <3>1. CASE d.left = 1
      <4> HIDE DEF d
      <4>1. device'[c] = Tail(device[c]) /\ Len(Tail(device[c])) = 0
        BY <1>1, <1>2, <2>1, <3>1, HeadTailProperties, EmptySeq
      <4>2. device'[c] = <<>>
        BY <1>1, <4>1, HeadTailProperties, EmptySeq
      <4>3. Len(<<>>) = 0 /\ DOMAIN <<>> = {}
        OBVIOUS
      <4> QED BY <4>2, <4>3
    <3>2. CASE d.left # 1
      <4> HIDE DEF d
      <4> DEFINE q == device[c]
      <4>1. device'[c] = [q EXCEPT ![1] = [q[1] EXCEPT !.left = d.left - 1]]
        BY <1>2, <3>2
      <4>2. [q[1] EXCEPT !.left = d.left - 1].rpc = channel[c].request
        BY <2>1
      <4>3. d.left - 1 \in Nat \ {0}
        BY <2>1, <3>2
      <4>4. [q[1] EXCEPT !.left = d.left - 1] \in [rpc : RequestId, left : Nat \ {0}]
        BY <2>1, <4>3
      <4>5. q \in Seq([rpc : RequestId, left : Nat \ {0}]) /\ 1 \in 1..Len(q) /\ Len(q) = 1
        BY <1>1, <2>1
      <4> DEFINE f == [q[1] EXCEPT !.left = d.left - 1]
      <4> HIDE DEF q, f
      <4>6. /\ Len([q EXCEPT ![1] = f]) = Len(q) /\ DOMAIN [q EXCEPT ![1] = f] = DOMAIN q
            /\ [q EXCEPT ![1] = f][1] = f
        BY <4>4, <4>5, ExceptSeq DEF f
      <4>7. device'[c] = [q EXCEPT ![1] = f] /\ f.rpc = channel[c].request
        BY <4>1, <4>2 DEF f
      <4>8. DOMAIN q = {1}
        BY <2>1 DEF q
      <4> QED BY <1>1, <3>2, <4>5, <4>6, <4>7, <4>8
    <3> QED BY <3>1, <3>2
  <2>4. e \in Chunk /\ e.rpc = channel[c].request /\ (e.last => d.left = 1)
    BY <2>1 DEF Chunk
  <2>5. /\ Len(data'[c]) = Len(data[c]) + 1 /\ Len(data[c]) \in Nat
        /\ DOMAIN data'[c] = 1..(Len(data[c]) + 1) /\ DOMAIN data[c] = 1..Len(data[c])
        /\ \A i \in 1..Len(data[c]) : data'[c][i] = data[c][i]
        /\ data'[c][Len(data[c]) + 1] = e
    <3> HIDE DEF e
    <3> QED BY <1>1, <1>2, <2>4, AppendProperties, LenProperties
  <2>6. ASSUME NEW i \in DOMAIN data'[c]
        PROVE  /\ data'[c][i].rpc = channel'[c].request
               /\ data'[c][i].last => i = Len(data'[c]) /\ device'[c] = <<>>
    <3> HIDE DEF d, e
    <3>1. CASE i = Len(data[c]) + 1
      BY <1>1, <2>3, <2>4, <2>5, <3>1
    <3>2. CASE i \in 1..Len(data[c])
      BY <1>1, <2>2, <2>5, <3>2
    <3> QED BY <2>5, <3>1, <3>2
  <2> QED BY <2>3, <2>6 DEF OneReply
<1>5. channel[c].list # "none" /\ c <= lastChannel
  BY <1>1 DEF ChannelInv, Silent, ChannelId
<1>6. c \notin tainted => channel[c].list = "inuse" /\ channel[c].eoframe = FALSE /\ OneReply(c)'
  <2>1. channel[c].eoframe \in BOOLEAN
    BY <1>1 DEF Channel
  <2> QED BY <1>1, <1>4, <2>1 DEF ChannelInv, Silent
<1>7. ChannelInv(c)'
  BY <1>1, <1>5, <1>6 DEF ChannelInv
<1> QED BY <1>3, <1>7 DEF CarriesInv

\* The loop over the released channels
LEMMA DrainCarries ==
    ASSUME TypeInv, CarriesInv, NEW s \in SockId, Drain(s)
    PROVE  CarriesInv'
<1> DEFINE noisy == {c \in Released(s) : data[c] # <<>> \/ c \in eof}
           heard == {c \in noisy : HasChunk(c)}
<1>1. /\ lastChannel \in Nat /\ channel \in [ChannelId -> Channel]
      /\ data \in [ChannelId -> Seq(Chunk)]
      /\ device \in [ChannelId -> Seq([rpc : RequestId, left : Nat \ {0}])]
      /\ UNCHANGED <<lastChannel, tainted>>
  BY RelayTyped DEF TypeInv, RelayTypes, DevicesOK, Drain, lasts, history
<1>2. CASE noisy = {}
  BY <1>1, <1>2, ChannelStays DEF Drain, CarriesInv
<1>3. ASSUME noisy # {} PROVE CarriesInv'
  <2>1. PICK dead \in noisy :
         /\ channel' = [c \in ChannelId |-> IF c = dead THEN NoChannel
                                           ELSE IF c \in heard THEN Discard(channel[c], Head(data[c]))
                                           ELSE channel[c]]
         /\ data'    = [c \in ChannelId |-> IF c = dead \/ (c \in noisy /\ c \notin heard) THEN <<>>
                                           ELSE IF c \in heard THEN Tail(data[c]) ELSE data[c]]
         /\ device'  = [device EXCEPT ![dead] = <<>>]
    BY <1>3 DEF Drain
  <2>2. dead \in ChannelId /\ \A c \in heard : c \in noisy /\ Len(data[c]) > 0
    BY <1>1, LenProperties DEF Released, HasChunk
  <2>3. \A c \in noisy : channel[c].list = "released"
    BY DEF Released
  <2> HIDE DEF noisy, heard
  <2>4. ASSUME NEW c \in ChannelId PROVE ChannelInv(c)'
    <3>1. channel[c] \in Channel /\ ChannelInv(c) /\ data[c] \in Seq(Chunk)
      BY <1>1 DEF CarriesInv
    <3>2. CASE c = dead
      BY <1>1, <2>1, <2>2, <3>2 DEF ChannelInv, NoChannel, Silent
    <3>3. CASE c # dead /\ c \in heard
      <4>1. data[c] # <<>> /\ Head(data[c]) \in Chunk
        <5>1. Len(<<>>) = 0
          OBVIOUS
        <5>2. data[c] # <<>>
          BY <2>2, <3>3, <5>1
        <5> QED BY <3>1, <5>2, HeadTailProperties
      <4>2. channel'[c] = Discard(channel[c], Head(data[c]))
        BY <2>1, <3>3
      <4>3. channel[c].list = "released"
        BY <2>2, <2>3, <3>3
      <4>4. channel'[c].list = "released"
        BY <3>1, <4>1, <4>2, <4>3, DiscardEffect
      <4>5. c \in tainted /\ ~ c > lastChannel
        BY <3>1, <4>1, <4>3 DEF ChannelInv, Silent
      <4> QED BY <1>1, <4>4, <4>5 DEF ChannelInv
    <3>4. CASE c # dead /\ c \notin heard
      <4>1. channel'[c] = channel[c] /\ device'[c] = device[c]
            /\ data'[c] = IF c \in noisy THEN <<>> ELSE data[c]
        BY <1>1, <2>1, <3>4
      <4>2. CASE c \notin noisy
        BY <1>1, <3>1, <4>1, <4>2, ChannelStays
      <4>3. CASE c \in noisy
        BY <1>1, <2>3, <3>1, <4>1, <4>3 DEF ChannelInv, Silent
      <4> QED BY <4>2, <4>3
    <3> QED BY <3>2, <3>3, <3>4
  <2> QED BY <2>4 DEF CarriesInv
<1> QED BY <1>2, <1>3

\* A step that leaves the channels alone
LEMMA ChannelsStay ==
    ASSUME TypeInv, CarriesInv, UNCHANGED <<channel, device, data, lastChannel, tainted>>
    PROVE  CarriesInv'
BY RelayTyped, ChannelStays DEF TypeInv, CarriesInv

LEMMA MessageCarries ==
    ASSUME TypeInv, CarriesInv, NEW w \in SockId, HandleRequest(w)
    PROVE  CarriesInv'
<1>1. CASE HandleRpcReuse(w)
  <2>1. lastRequest + 1 \in RequestId /\ SessionFind(Incoming.target) \in SockId
    <3>1. lastRequest < MaxRequest
      BY <1>1 DEF HandleRpcReuse, CreateRequest
    <3>2. SessionFind(Incoming.target) \in SockId
      BY <1>1, SessionFindTypes DEF HandleRpcReuse, TypeInv
    <3> QED BY <3>1, <3>2, RelayTyped, Bounds DEF TypeInv, RequestId
  <2>2. \E c \in ChannelFor(SessionFind(Incoming.target)) :
            SendRpc(lastRequest + 1, c, SessionFind(Incoming.target), w)
    BY <1>1 DEF HandleRpcReuse
  <2> QED BY <1>1, <2>1, <2>2, SendCarries DEF HandleRpcReuse, history
<1>2. CASE HandleRpcOpen(w)
  <2>1. lastRequest + 1 \in RequestId /\ lastSock + 1 \in SockId
    <3>1. lastRequest < MaxRequest /\ lastSock < MaxSock
      BY <1>2 DEF HandleRpcOpen, CreateRequest
    <3>2. lastSock \in Nat
      BY Bounds DEF TypeInv, TypeOK, SocksOK
    <3> QED BY <3>1, <3>2, RelayTyped, Bounds DEF TypeInv, RequestId, SockId
  <2>2. \E c \in ChannelFor(lastSock + 1) \cup {None} : SendRpc(lastRequest + 1, c, lastSock + 1, w)
    BY <1>2 DEF HandleRpcOpen
  <2> QED BY <1>2, <2>1, <2>2, SendCarries DEF HandleRpcOpen
<1>3. CASE HandleHostkeyAccepted(w) \/ HandlePassphrase(w) \/ HandlePassword(w)
  <2> DEFINE r == request[Addressed]
  <2>1. /\ Addressed \in RequestId /\ r \in Request /\ r.client # None /\ r.session # None
    <3>1. pc = "handle" /\ \E op \in PromptOp : Waits(Addressed, op)
      BY <1>3 DEF HandleHostkeyAccepted, HandlePassphrase, HandlePassword, Awaiting, Handling,
                  PromptOp
    <3> QED BY <3>1, WaitingTypes
  <2>2. \E q, trust : /\ q.session = r.session /\ q.client = r.client
                      /\ Authenticate(Addressed, q, trust)
    <3>1. /\ [r EXCEPT !.passphrase = Incoming.arg].session = r.session
          /\ [r EXCEPT !.passphrase = Incoming.arg].client = r.client
          /\ [r EXCEPT !.password = Incoming.arg].session = r.session
          /\ [r EXCEPT !.password = Incoming.arg].client = r.client
      BY <2>1 DEF Request
    <3> QED BY <1>3, <3>1 DEF HandleHostkeyAccepted, HandlePassphrase, HandlePassword
  <2>3. \E c \in ChannelFor(r.session) \cup {None} : SendRpc(Addressed, c, r.session, r.client)
    BY <2>2 DEF Authenticate
  <2>4. r.session \in SockId /\ r.client \in SockId /\ UNCHANGED <<data, tainted>>
    BY <1>3, <2>1 DEF Request, HandleHostkeyAccepted, HandlePassphrase, HandlePassword
  <2> HIDE DEF r
  <2> QED BY <2>1, <2>3, <2>4, SendCarries
<1>4. CASE HandleHostkeyDeclined(w) \/ HandleError(w)
  <2>1. \/ \E s, R, sk, D : CloseSession(s, R, sk, D)
        \/ UNCHANGED <<memory, devices, history>>
    BY <1>4 DEF HandleHostkeyDeclined, HandleError
  <2> QED BY <2>1, SessionClosesCarries, ChannelsStay DEF memory, lasts, devices, history
<1>5. CASE \/ HandleRpcNoCreate(w) \/ HandleRpcOpenFails(w) \/ HandleAuthinit(w)
           \/ HandleAnswerIgnored(w) \/ HandleDataUnknown(w) \/ HandleDataFails(w)
           \/ HandleDataSent(w) \/ HandleDataOpens(w)
  <2>1. UNCHANGED <<channel, device, data, lastChannel, tainted>>
    BY <1>5 DEF HandleRpcNoCreate, HandleRpcOpenFails, HandleAuthinit, HandleAnswerIgnored,
                HandleDataUnknown, HandleDataFails, DataFails, HandleDataSent, HandleDataOpens,
                memory, lasts, devices, history
  <2> QED BY <2>1, ChannelsStay
<1> QED BY <1>1, <1>2, <1>3, <1>4, <1>5 DEF HandleRequest

LEMMA ClosedIsSock ==
    ASSUME TypeInv, PrepFails \/ ClosesVisited
    PROVE  \E s \in SockId : Close(s)
<1>1. FailedSocks \subseteq SockId
  BY SocksInRange DEF FailedSocks, TypeInv, TypeOK
<1>2. FailedSocks # {} => Newest(FailedSocks) \in SockId
  BY <1>1, NewestIsMember, Bounds DEF SockId
<1> QED BY <1>1, <1>2 DEF PrepFails, ClosesVisited

LEMMA CarriesNext ==
    ASSUME TypeInv, CarriesInv, [Next]_vars
    PROVE  CarriesInv'
<1>1. CASE \/ \E w \in SockId : ClientRequests(w) \/ ClientFollowsUp(w) \/ ClientLeaves(w)
           \/ \E p \in prompts : ClientAnswers(p)
           \/ \E c \in ChannelId : DeviceEndsChannel(c)
           \/ \E s \in SockId : DeviceGoes(s)
           \/ UNCHANGED vars
  <2>1. UNCHANGED <<channel, device, data, lastChannel, tainted>>
    BY <1>1 DEF ClientRequests, ClientFollowsUp, ClientLeaves, ClientAnswers, DeviceEndsChannel,
                DeviceGoes, ClientUnchanged, vars, memory, lasts, devices, history
  <2> QED BY <2>1, ChannelsStay
<1>2. CASE \E c \in ChannelId : DeviceReplies(c)
  BY <1>2, DeviceRepliesCarries
<1>3. CASE PrepFails \/ ClosesVisited
  <2>1. PICK s \in SockId : Close(s)
    BY <1>3, ClosedIsSock
  <2> QED BY <2>1, SessionClosesCarries, ClientClosesCarries DEF Close
<1>4. CASE \/ Poll \/ EndPassIdle \/ EndPassAccepts
           \/ \E s \in SockId : \/ WebsocketReceives(s) \/ WebsocketDisconnects(s)
                                \/ WebsocketReadError(s) \/ WebsocketMispolled(s)
                                \/ VisitFailed(s) \/ VisitSession(s) \/ InputDone(s)
  <2>1. UNCHANGED <<channel, device, data, lastChannel, tainted>>
    BY <1>4 DEF Poll, EndPassIdle, EndPassAccepts, EndPass, WebsocketReceives,
                WebsocketDisconnects, WebsocketReadError, WebsocketMispolled, VisitFailed,
                VisitSession, InputDone, memory, lasts, devices, history
  <2> QED BY <2>1, ChannelsStay
<1>5. CASE \E s \in SockId : Drain(s)
  BY <1>5, DrainCarries
<1>6. CASE \E w \in SockId : HandleRequest(w)
  BY <1>6, MessageCarries
<1>7. CASE \E c \in ChannelId : ChannelInput(c)
  BY <1>7, InputCarries, SessionClosesCarries DEF ChannelInput, InputAtEof
<1> QED BY <1>1, <1>2, <1>3, <1>4, <1>5, <1>6, <1>7
        DEF Next, Daemon, Pass, SessionPoller, Environment

LEMMA CarriesInit == Init => CarriesInv
BY DEF Init, CarriesInv, ChannelInv, NoChannel, Silent

LEMMA ChannelsCarry == Spec => []CarriesInv
<1>1. CarriesInv /\ SafetyInv /\ [Next]_vars => CarriesInv'
  BY CarriesNext DEF SafetyInv
<1> QED BY <1>1, CarriesInit, SafetyInvariant, PTL DEF Spec

\* Whatever clients do and however channels are reused by mx_channel_netconf: on a
\* channel that was never given up during an RPC there is nothing but the reply to
\* the request that the channel works for, and nothing at all once it is released.
THEOREM ChannelsCarryTheirRequest == Spec => []ChannelCarriesItsRequest
<1>1. CarriesInv => ChannelCarriesItsRequest
  <2> SUFFICES ASSUME CarriesInv, NEW c \in ChannelId \ tainted
               PROVE  /\ channel[c].list = "inuse" => Pending(c) \subseteq {channel[c].request}
                      /\ channel[c].list # "inuse" => Pending(c) = {}
    BY DEF ChannelCarriesItsRequest
  <2>1. CASE channel[c].list = "inuse"
    <3>1. OneReply(c)
      BY <2>1 DEF CarriesInv, ChannelInv
    <3> QED BY <2>1, <3>1 DEF OneReply, Pending, Chunks
  <2>2. CASE channel[c].list # "inuse"
    <3>1. device[c] = <<>> /\ data[c] = <<>>
      BY <2>2 DEF CarriesInv, ChannelInv, Silent
    <3>2. DOMAIN <<>> = {}
      OBVIOUS
    <3>3. Pending(c) = {}
      BY <3>1, <3>2 DEF Pending, Chunks
    <3> QED BY <2>2, <3>3
  <2> QED BY <2>1, <2>2
<1> QED BY <1>1, ChannelsCarry, PTL

-----------------------------------------------------------------------------
(* Under whose name a reply is passed on *)

\* Only mx_websocket_write passes a reply on
LEMMA OnlyRelayingGives ==
    ASSUME [Next]_vars
    PROVE  \/ \E c \in ChannelId : InputRelayed(c)
           \/ got' = got /\ (tainted' = {} => tainted = {})
<1>1. CASE Environment \/ UNCHANGED vars
  BY <1>1 DEF Environment, ClientRequests, ClientFollowsUp, ClientLeaves, ClientAnswers, DeviceReplies,
              DeviceEndsChannel, DeviceGoes, ClientUnchanged, vars, history
<1>2. CASE PrepFails \/ ClosesVisited
  BY <1>2 DEF PrepFails, ClosesVisited, Close, CloseWebsocket, CloseSession
<1>3. CASE \/ Poll \/ EndPassIdle \/ EndPassAccepts
           \/ \E s \in SockId : \/ WebsocketReceives(s) \/ WebsocketDisconnects(s)
                                \/ WebsocketReadError(s) \/ WebsocketMispolled(s)
                                \/ VisitFailed(s) \/ VisitSession(s) \/ SessionPoller(s)
  BY <1>3 DEF Poll, EndPassIdle, EndPassAccepts, EndPass, WebsocketReceives, WebsocketDisconnects,
              WebsocketReadError, WebsocketMispolled, VisitFailed, VisitSession, SessionPoller,
              InputDone, Drain, history
<1>4. CASE \E w \in SockId : HandleRequest(w)
  <2>1. UNCHANGED <<got, tainted>>
    BY <1>4 DEF HandleRequest, HandleRpcReuse, HandleRpcNoCreate, HandleRpcOpenFails, HandleRpcOpen,
                HandleAuthinit, HandleAnswerIgnored, HandleHostkeyAccepted, HandlePassphrase,
                HandlePassword, HandleHostkeyDeclined, HandleError, HandleDataUnknown,
                HandleDataFails, DataFails, HandleDataSent, HandleDataOpens, CloseSession, history
  <2> QED BY <2>1
<1>5. CASE \E c \in ChannelId : ChannelInput(c)
  BY <1>5 DEF ChannelInput, InputDiscarded, InputForFreedRequest, InputSpins, InputAtEof,
              CloseSession, history
<1> QED BY <1>1, <1>2, <1>3, <1>4, <1>5 DEF Next, Daemon, Pass

\* What InputRelayed passes on, and under which name
LEMMA RelayedChunk ==
    ASSUME TypeInv, CarriesInv, NEW c \in ChannelId, InputRelayed(c)
    PROVE  /\ channel[c].request \in requests /\ channel[c].request \in RequestId
           /\ channel[c].client \in SockId
           /\ Head(data[c]) \in Chunk /\ data[c] # <<>>
           /\ c \notin tainted => /\ channel[c].list = "inuse" /\ ~ channel[c].eoframe
                                  /\ Head(data[c]).rpc = channel[c].request
                                  /\ Head(data[c]).last => Silent(c)'
<1>1. /\ RelayTypes /\ channel[c] \in Channel /\ ChannelInv(c) /\ requests \subseteq RequestId
  BY RelayTyped DEF TypeInv, CarriesInv
<1>2. /\ data[c] # <<>> /\ data' = [data EXCEPT ![c] = Tail(@)] /\ UNCHANGED device
      /\ channel[c].client # None /\ channel[c].request \in requests
  <2>1. Reading(c) /\ UNCHANGED device /\ channel[c].client # None /\ channel[c].request \in requests
    BY DEF InputRelayed
  <2>2. Len(data[c]) > 0
    BY <1>1, <2>1, LenProperties DEF Reading, HasChunk, RelayTypes, DevicesOK
  <2>3. Len(<<>>) = 0
    OBVIOUS
  <2>4. data[c] # <<>>
    BY <2>2, <2>3
  <2> QED BY <2>1, <2>4 DEF Reading
<1>3. Head(data[c]) \in Chunk
  BY <1>1, <1>2, RestOfReply
<1>4. c \notin tainted => /\ channel[c].list = "inuse" /\ ~ channel[c].eoframe /\ OneReply(c)
  BY <1>1, <1>2 DEF ChannelInv, Silent
<1>5. OneReply(c) => /\ Head(data[c]).rpc = channel[c].request
                     /\ Head(data[c]).last => Silent(c)'
  BY <1>1, <1>2, LastChunk
<1> QED BY <1>1, <1>2, <1>3, <1>4, <1>5 DEF Channel

\* As long as no client leaves during its RPC, nobody is given anything but the
\* reply to his own request, over all reuse of channels and sessions: mx_channel_t
\* names one request at a time, and that is whose reply the device sends.
THEOREM RepliesGoToTheirRequests == Spec => []ReplyRouting
<1>1. Init => ReplyRouting
  BY DEF Init, ReplyRouting
<1>2. ReplyRouting /\ SafetyInv /\ CarriesInv /\ [Next]_vars => ReplyRouting'
  <2> SUFFICES ASSUME ReplyRouting, TypeInv, CarriesInv, [Next]_vars
               PROVE  ReplyRouting'
    BY DEF SafetyInv
  <2>1. CASE got' = got /\ (tainted' = {} => tainted = {})
    BY <2>1 DEF ReplyRouting
  <2>2. ASSUME NEW c \in ChannelId, InputRelayed(c) PROVE ReplyRouting'
    <3> DEFINE id == channel[c].request
    <3>1. /\ got' = [got EXCEPT ![id] = @ \cup {Head(data[c]).rpc}] /\ tainted' = tainted
          /\ got \in [RequestId -> SUBSET RequestId]
      BY <2>2 DEF InputRelayed, TypeInv, TypeOK, HistoryOK
    <3>2. tainted = {} => Head(data[c]).rpc = id
      BY <2>2, RelayedChunk
    <3> HIDE DEF id
    <3> QED BY <3>1, <3>2 DEF ReplyRouting
  <2> QED BY <2>1, <2>2, OnlyRelayingGives
<1> QED BY <1>1, <1>2, ChannelsCarry, SafetyInvariant, PTL DEF Spec

=============================================================================
