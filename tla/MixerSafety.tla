----------------------------- MODULE MixerSafety ------------------------------
(***************************************************************************)
(* Authentication in the mixer, for any number of clients, requests,       *)
(* sessions and channels: who may be offered a credential, which sessions  *)
(* count as established, how often a password may be tried, and that no    *)
(* request disturbs the session of another.                                *)
(***************************************************************************)
EXTENDS MixerTyping

-----------------------------------------------------------------------------
(* The inductive invariant *)

IsWebsocket(x) == x \in 1..lastSock /\ sock[x].kind = "websocket"
IsSession(x)   == x \in 1..lastSock /\ sock[x].kind = "session"

\* Ids are not given out twice, so that the client of a request is a websocket
\* and its session a session, also after they have been closed.
KindsAreKept ==
    /\ pc = "handle" => IsWebsocket(cursor)
    /\ \A r \in requests : /\ request[r].client  = None \/ IsWebsocket(request[r].client)
                           /\ request[r].session = None \/ IsSession(request[r].session)

\* A request points to the session that was opened for it, never to a shared one.
SessionsAreOwn ==
    \A r, q \in requests :
        r # q => request[r].session = None \/ request[r].session # request[q].session

\* A request that still waits for its user has not used up the failures.
FailuresCounted ==
    /\ \A s \in SockId : sock[s].pwfail <= MaxPwfail + 1
    /\ \A r \in requests : request[r].state \in Prompting
          => sock[request[r].session].pwfail <= MaxPwfail

\* No client sends data messages: handling one opens sessions for requests whose
\* client is gone, without asking about host keys.
NoData == "data" \notin Ops

\* The user is asked for a passphrase or a password for a trusted session only.
TrustIsGiven ==
    \A r \in requests : request[r].state \in {"PASSPHRASE", "PASSWORD"}
                            => request[r].session \in trusted

\* The health check may take a session for established only through a request
\* that points to it; those that ended in an error do not.
ErrorsAreDetached ==
    \A r \in requests : request[r].state = "ERROR" => request[r].session = None

EstablishedRequests ==
    \A r \in requests : request[r].state = "ESTABLISHED" => request[r].session \in authed

TrustInv  == NoCredentialsBeforeTrust /\ TrustIsGiven
AuthedInv == ErrorsAreDetached /\ EstablishedRequests /\ EstablishedIsAuthenticated

SafetyInv == /\ TypeInv /\ KindsAreKept /\ SessionsAreOwn /\ StatesAgree
             /\ FailuresCounted /\ (NoData => TrustInv /\ AuthedInv)

-----------------------------------------------------------------------------
(* Steps in which nothing is opened or authenticated *)

Active == Prompting \cup {"ESTABLISHED"}

\* What the session of an active request is
LEMMA ActiveSession ==
    ASSUME SafetyInv, NEW r \in requests, request[r].state \in Active
    PROVE  /\ request[r].session \in Sessions /\ request[r].session \in SockId
           /\ sock[request[r].session].state \in {request[r].state, "FAILED"}
           /\ IsSession(request[r].session)
<1>1. /\ request[r].session \in Sessions
      /\ sock[request[r].session].state \in {request[r].state, "FAILED"}
  BY PromptStates DEF SafetyInv, StatesAgree, Active
<1>2. request[r].session \in SockId
  BY <1>1, SocksInRange DEF Sessions, SafetyInv, TypeInv, TypeOK
<1>3. IsSession(request[r].session)
  BY <1>1 DEF SafetyInv, TypeInv, TypeOK, SocksOK, Sessions, IsSession
<1> QED BY <1>1, <1>2, <1>3

\* Nothing goes wrong in a step that opens and authenticates no session: if each
\* request on the list is as it was, with its session in place, or not active;
\* and if each session keeps its state, fails, or is that of no active request.
LEMMA QuietStep ==
    ASSUME SafetyInv, TypeInv',
           lastSock' \in {lastSock, lastSock + 1},
           \A x \in 1..lastSock : sock'[x].kind = sock[x].kind,
           \A x \in SockId : \/ sock'[x].pwfail = sock[x].pwfail
                             \/ x \notin 1..lastSock /\ sock'[x].pwfail = 0,
           \A r \in requests' :
              \/ /\ r \in requests /\ request'[r] = request[r]
                 /\ request[r].state \in Active => request[r].session \in socks'
              \/ /\ request'[r].state \in {"NORMAL", "ERROR", "FAILED"}
                 /\ request'[r].client = None \/ IsWebsocket(request'[r].client)
                 /\ \/ request'[r].session = None
                    \/ /\ r \in requests /\ request'[r].session = request[r].session
                       /\ ~ NoData,
           \A x \in socks' : sock'[x].kind = "session" =>
              /\ x \in Sessions
              /\ \/ sock'[x].state \in {sock[x].state, "FAILED"}
                 \/ /\ \A r \in requests' : request'[r].session = x
                                                => request'[r].state \notin Active
                    /\ NoData /\ sock'[x].state = "ESTABLISHED" => x \in authed,
           UNCHANGED attempt,
           pc' = "handle" => IsWebsocket(cursor')
    PROVE  SafetyInv'
<1>1. lastSock \in Nat /\ 1..lastSock \subseteq 1..lastSock' /\ 1..lastSock \subseteq SockId
  BY Bounds DEF SafetyInv, TypeInv, TypeOK, SocksOK, SockId
<1>2. /\ \A x : IsWebsocket(x) => x \in 1..lastSock' /\ sock'[x].kind = "websocket"
      /\ \A x : IsSession(x) => x \in 1..lastSock' /\ sock'[x].kind = "session"
  BY <1>1 DEF IsWebsocket, IsSession
<1>3. KindsAreKept'
  <2>1. pc' = "handle" => cursor' \in 1..lastSock' /\ sock'[cursor'].kind = "websocket"
    BY <1>2
  <2>2. ASSUME NEW r \in requests'
        PROVE  /\ \/ request'[r].client = None
                  \/ /\ request'[r].client \in 1..lastSock'
                     /\ sock'[request'[r].client].kind = "websocket"
               /\ \/ request'[r].session = None
                  \/ /\ request'[r].session \in 1..lastSock'
                     /\ sock'[request'[r].session].kind = "session"
    BY <1>2 DEF SafetyInv, KindsAreKept
  <2> QED BY <2>1, <2>2 DEF KindsAreKept, IsWebsocket, IsSession
<1>4. ASSUME NEW r \in requests', request'[r].session # None
      PROVE  r \in requests /\ request'[r].session = request[r].session
  BY <1>4
<1>5. ASSUME NEW r \in requests', request'[r].state \in Active
      PROVE  /\ r \in requests /\ request'[r] = request[r]
             /\ request[r].session \in socks'
  BY <1>5 DEF Active, Prompting
<1>6. SessionsAreOwn'
  BY <1>4 DEF SafetyInv, SessionsAreOwn
<1>7. ASSUME NEW r \in requests', request'[r].state \in Active
      PROVE  /\ request'[r].session \in socks'
             /\ sock'[request'[r].session].kind = "session"
             /\ sock'[request'[r].session].state \in {request'[r].state, "FAILED"}
             /\ sock'[request'[r].session].pwfail = sock[request'[r].session].pwfail
  <2> DEFINE s == request[r].session
  <2>1. /\ r \in requests /\ request'[r] = request[r] /\ s \in socks'
        /\ request'[r].session = s
    BY <1>5, <1>7
  <2>2. sock[s].state \in {request[r].state, "FAILED"} /\ IsSession(s)
    BY <1>7, <2>1, ActiveSession
  <2>3. sock'[s].kind = "session" /\ s \in 1..lastSock /\ s \in SockId
    BY <1>1, <1>2, <2>2 DEF IsSession
  <2>4. sock'[s].state \in {sock[s].state, "FAILED"}
    BY <1>7, <2>1, <2>3
  <2> QED BY <2>1, <2>2, <2>3, <2>4
<1>8. StatesAgree'
  BY <1>7, PromptStates DEF StatesAgree, Sessions, Active
<1>9. FailuresCounted'
  <2>1. ASSUME NEW x \in SockId PROVE sock'[x].pwfail <= MaxPwfail + 1
    BY Bounds DEF SafetyInv, FailuresCounted
  <2>2. ASSUME NEW r \in requests', request'[r].state \in Prompting
        PROVE  sock'[request'[r].session].pwfail <= MaxPwfail
    BY <1>5, <1>7, <2>2 DEF SafetyInv, FailuresCounted, Active
  <2> QED BY <2>1, <2>2 DEF FailuresCounted
<1>10. ASSUME NoData PROVE TrustInv' /\ AuthedInv'
  <2>1. TrustInv'
    BY <1>5, <1>10 DEF SafetyInv, TrustInv, NoCredentialsBeforeTrust, TrustIsGiven, attempt,
                       Active, Prompting
  <2>2. ErrorsAreDetached'
    BY <1>10 DEF SafetyInv, AuthedInv, ErrorsAreDetached
  <2>3. EstablishedRequests'
    BY <1>5, <1>10 DEF SafetyInv, AuthedInv, EstablishedRequests, attempt, Active
  <2>4. EstablishedIsAuthenticated'
    BY <1>10 DEF SafetyInv, AuthedInv, EstablishedIsAuthenticated, Sessions, attempt
  <2> QED BY <2>1, <2>2, <2>3, <2>4 DEF AuthedInv
<1> QED BY <1>3, <1>6, <1>8, <1>9, <1>10 DEF SafetyInv, NoData

\* A step that writes neither lists, sockets nor requests
LEMMA StillStep ==
    ASSUME SafetyInv, TypeInv', UNCHANGED <<socks, sock, lastSock, requests, request, attempt>>,
           pc' = "handle" => IsWebsocket(cursor')
    PROVE  SafetyInv'
<1>1. \A r \in requests : request[r].state \in Active => request[r].session \in socks
  BY ActiveSession DEF Sessions
<1>2. \A x \in socks : sock[x].kind = "session" => x \in Sessions
  BY DEF Sessions
<1> QED BY <1>1, <1>2, QuietStep

LEMMA EnvironmentSafe ==
    ASSUME SafetyInv, Environment \/ UNCHANGED vars
    PROVE  SafetyInv'
<1>1. UNCHANGED <<socks, sock, lastSock, requests, request, attempt, pc, cursor>>
  BY DEF Environment, ClientRequests, ClientAnswers, ClientFollowsUp, ClientLeaves,
         DeviceReplies, DeviceEndsChannel, DeviceGoes, ClientUnchanged, memory, loop,
         history, attempt, lasts, vars
<1>2. TypeInv'
  BY TypeInvNext DEF Next, SafetyInv
<1>3. pc' = "handle" => IsWebsocket(cursor')
  BY <1>1 DEF SafetyInv, KindsAreKept
<1> QED BY <1>1, <1>2, <1>3, StillStep

-----------------------------------------------------------------------------
(* The poll loop *)

\* What the pollers do to sockets and requests when they neither relay nor close
LEMMA VisitSafe ==
    ASSUME SafetyInv, NEW s \in SockId,
           \/ WebsocketReceives(s) \/ WebsocketDisconnects(s) \/ WebsocketReadError(s)
           \/ WebsocketMispolled(s) \/ VisitFailed(s) \/ VisitSession(s)
           \/ SessionPoller(s)
    PROVE  SafetyInv'
<1>1. TypeInv'
  BY TypeInvNext DEF Next, Daemon, Pass, SafetyInv
<1>2. CASE WebsocketReceives(s)
  <2>1. s \in socks /\ IsWebsocket(s) /\ cursor' = s
    <3>1. {x \in socks : x < cursor /\ Busy(x)} \subseteq 1..MaxSock /\ s \in SockId
      BY SocksInRange DEF SafetyInv, TypeInv, TypeOK, SockId
    <3>2. s = Newest({x \in socks : x < cursor /\ Busy(x)}) /\ s # None
      BY <1>2 DEF WebsocketReceives, Visiting, SockId, None
    <3>3. s \in socks
      BY <3>1, <3>2, NewestIsMember, Bounds DEF Newest
    <3> QED BY <1>2, <3>3 DEF WebsocketReceives, Visiting, IsWebsocket, SafetyInv, TypeInv,
                              TypeOK, SocksOK
  <2> QED BY <1>1, <1>2, <2>1, StillStep DEF WebsocketReceives, memory, lasts, history
<1>3. CASE VisitFailed(s) \/ VisitSession(s) \/ Drain(s)
  <2>1. pc' # "handle"
    BY <1>3 DEF VisitFailed, VisitSession, Drain, Visiting
  <2> QED BY <1>1, <1>3, <2>1, StillStep DEF VisitFailed, VisitSession, Drain, memory, lasts,
                                             history
<1>4. CASE WebsocketDisconnects(s) \/ WebsocketReadError(s) \/ WebsocketMispolled(s)
           \/ InputDone(s)
  <2>1. /\ pc' # "handle" /\ UNCHANGED <<socks, lastSock, requests, request, attempt>>
        /\ \/ \E st : sock' = [sock EXCEPT ![s].state = st] /\ sock[s].kind = "websocket"
           \/ sock' = [sock EXCEPT ![s].state = "FAILED"]
           \/ sock' = sock
    BY <1>4 DEF WebsocketDisconnects, WebsocketReadError, WebsocketMispolled, InputDone,
                Visiting, lasts, history
  <2>2. sock \in [SockId -> Sock]
    BY DEF SafetyInv, TypeInv, TypeOK, SocksOK
  <2>3. \A x \in SockId :
            /\ sock'[x].kind = sock[x].kind /\ sock'[x].pwfail = sock[x].pwfail
            /\ sock[x].kind = "session" => sock'[x].state \in {sock[x].state, "FAILED"}
    BY <2>1, <2>2 DEF Sock
  <2>4. \A r \in requests : request[r].state \in Active => request[r].session \in socks
    BY ActiveSession DEF Sessions
  <2>5. socks \subseteq SockId /\ 1..lastSock \subseteq SockId
    BY SocksInRange, Bounds DEF SafetyInv, TypeInv, TypeOK, SocksOK, SockId
  <2> QED BY <1>1, <2>1, <2>3, <2>4, <2>5, QuietStep DEF Sessions
<1> QED BY <1>2, <1>3, <1>4 DEF SessionPoller

\* The requests of a session that is closed fail; no active one is left with it.
\* Before, the daemon may have written the states of sockets and taken requests
\* off the list.
LEMMA CloseSessionSafe ==
    ASSUME SafetyInv, TypeInv', NEW s, NEW R \in SUBSET requests, NEW sk \in [SockId -> Sock],
           NEW D, CloseSession(s, R, sk, D),
           \A x \in SockId : /\ sk[x].kind = sock[x].kind /\ sk[x].pwfail = sock[x].pwfail
                             /\ \/ sk[x].state = sock[x].state
                                \/ sock[x].kind = "websocket" \/ x = s,
           pc' = "handle" => IsWebsocket(cursor')
    PROVE  SafetyInv'
<1>1. /\ socks' = socks \ {s} /\ requests' = R /\ UNCHANGED attempt /\ lastSock' = lastSock
      /\ R \subseteq RequestId /\ socks \subseteq SockId /\ 1..lastSock \subseteq SockId
  BY RequestsInRange, SocksInRange, Bounds
  DEF CloseSession, lasts, SafetyInv, TypeInv, TypeOK, SocksOK, SockId
<1>2. \A x \in SockId : /\ sock'[x].kind = sock[x].kind /\ sock'[x].pwfail = sock[x].pwfail
                        /\ sock'[x].state = sk[x].state \/ sock[x].kind = "websocket"
  <2>1. ASSUME NEW x \in SockId
        PROVE  /\ sock'[x] = sk[x] \/ sock'[x] = [sk[x] EXCEPT !.state = "ERROR"]
               /\ sock'[x] # sk[x] => \E r \in R : request[r].client = x
    BY DEF CloseSession
  <2>2. ASSUME NEW x \in SockId, NEW r \in R, request[r].client = x
        PROVE  sock[x].kind = "websocket"
    <3>1. r \in requests /\ x # 0
      BY DEF SockId
    <3> QED BY <2>2, <3>1 DEF SafetyInv, KindsAreKept, IsWebsocket, None
  <2>3. \A k \in Sock : /\ [k EXCEPT !.state = "ERROR"].kind = k.kind
                        /\ [k EXCEPT !.state = "ERROR"].pwfail = k.pwfail
    BY DEF Sock
  <2>4. ASSUME NEW x \in SockId
        PROVE  /\ sock'[x].kind = sk[x].kind /\ sock'[x].pwfail = sk[x].pwfail
               /\ sock'[x].state = sk[x].state \/ sock[x].kind = "websocket"
    <3>1. sk[x] \in Sock
      OBVIOUS
    <3>2. sock'[x] # sk[x] => sock[x].kind = "websocket"
      BY <2>1, <2>2
    <3> QED BY <2>1, <2>3, <3>1, <3>2
  <2> QED BY <2>4
<1>3. ASSUME NEW r \in R
      PROVE  \/ request'[r] = request[r] /\ (request[r].session # s \/ s = None)
             \/ request'[r] = Failed(request[r])
  BY <1>1 DEF CloseSession
<1>4. \A k \in Request : /\ Failed(k).state = "FAILED" /\ Failed(k).client = None
                         /\ Failed(k).session = None
  BY DEF Failed, Request
<1>5. \A r \in R : request[r] \in Request
  BY <1>1 DEF SafetyInv, TypeInv, TypeOK, RequestsOK
<1>6. ASSUME NEW r \in R, request[r].state \in Active, request'[r] = request[r],
             request[r].session # s \/ s = None
      PROVE  request[r].session \in socks'
  BY <1>1, <1>6, ActiveSession DEF Sessions, SockId, None
<1>7. \A x \in socks' : sock'[x].kind = "session" =>
           x \in Sessions /\ sock'[x].state = sock[x].state
  BY <1>1, <1>2 DEF Sessions
<1> QED BY <1>1, <1>2, <1>3, <1>4, <1>5, <1>6, <1>7, QuietStep

\* The requests of a websocket that is closed fail.
LEMMA CloseWebsocketSafe ==
    ASSUME SafetyInv, TypeInv', NEW w \in SockId, sock[w].kind = "websocket",
           CloseWebsocket(w)
    PROVE  SafetyInv'
<1>1. /\ socks' = socks \ {w} /\ pc' # "handle"
      /\ UNCHANGED <<sock, requests, lastSock, attempt>> /\ requests \subseteq RequestId
  BY RequestsInRange DEF CloseWebsocket, lasts, SafetyInv, TypeInv, TypeOK
<1>2. \A r \in requests : request'[r] = request[r] \/ request'[r] = Failed(request[r])
  BY <1>1 DEF CloseWebsocket
<1>3. \A r \in requests : /\ Failed(request[r]).state = "FAILED"
                          /\ Failed(request[r]).client = None
                          /\ Failed(request[r]).session = None
  BY <1>1 DEF Failed, Request, SafetyInv, TypeInv, TypeOK, RequestsOK
<1>4. \A r \in requests : request[r].state \in Active => request[r].session \in socks'
  BY <1>1, ActiveSession DEF Sessions
<1>5. \A x \in socks' : sock[x].kind = "session" => x \in Sessions
  BY <1>1 DEF Sessions
<1> QED BY <1>1, <1>2, <1>3, <1>4, <1>5, QuietStep

LEMMA CloseSafe ==
    ASSUME SafetyInv, PrepFails \/ ClosesVisited
    PROVE  SafetyInv'
<1>1. TypeInv'
  BY TypeInvNext DEF Next, Daemon, SafetyInv
<1>2. PICK s \in SockId : Close(s)
  <2>1. FailedSocks \subseteq SockId
    BY SocksInRange DEF FailedSocks, SafetyInv, TypeInv, TypeOK
  <2>2. FailedSocks # {} => Newest(FailedSocks) \in SockId
    BY <2>1, NewestIsMember, Bounds DEF SockId
  <2> QED BY <2>1, <2>2 DEF PrepFails, ClosesVisited
<1>3. pc' # "handle"
  BY <1>2 DEF Close, CloseWebsocket
<1>4. CASE sock[s].kind = "websocket" /\ CloseWebsocket(s)
  BY <1>1, <1>4, CloseWebsocketSafe
<1>5. CASE CloseSession(s, requests, sock, {})
  <2>1. sock \in [SockId -> Sock]
    BY DEF SafetyInv, TypeInv, TypeOK, SocksOK
  <2> QED BY <1>1, <1>3, <1>5, <2>1, CloseSessionSafe
<1> QED BY <1>2, <1>4, <1>5 DEF Close

\* What writing a state to some sockets changes
LEMMA SetStateEffect ==
    ASSUME SocksOK, NEW S, NEW st
    PROVE  \A x \in SockId : /\ SetState(S, st)[x].kind = sock[x].kind
                             /\ SetState(S, st)[x].pwfail = sock[x].pwfail
                             /\ SetState(S, st)[x].state = IF x \in S THEN st ELSE sock[x].state
BY DEF SocksOK, SetState, Sock

LEMMA InputSafe ==
    ASSUME SafetyInv, NEW c \in ChannelId, ChannelInput(c)
    PROVE  SafetyInv'
<1>1. TypeInv'
  BY TypeInvNext DEF Next, Daemon, SafetyInv
<1>2. CASE InputDiscarded(c) \/ InputForFreedRequest(c) \/ InputSpins(c)
  <2>1. pc' # "handle"
    BY <1>2 DEF InputDiscarded, InputForFreedRequest, InputSpins, Reading
  <2> QED BY <1>1, <1>2, <2>1, StillStep DEF InputDiscarded, InputForFreedRequest, InputSpins,
                                             memory, lasts, history
<1>3. CASE InputAtEof(c)
  <2>1. sock \in [SockId -> Sock] /\ pc' # "handle"
    BY <1>3 DEF SafetyInv, TypeInv, TypeOK, SocksOK, InputAtEof
  <2> QED BY <1>1, <1>3, <2>1, CloseSessionSafe DEF InputAtEof
<1>4. CASE InputRelayed(c)
  <2> DEFINE w   == channel[c].client
  <2> DEFINE id  == channel[c].request
  <2> DEFINE r   == request[id]
  <2> DEFINE st  == IF r.state = "ESTABLISHED" THEN "ESTABLISHED" ELSE "NORMAL"
  <2> DEFINE set == SetState({r.client, r.session}, st)
  <2> DEFINE end == [set EXCEPT ![w].complete = @ + 1]
  <2>1. /\ pc' # "handle" /\ id \in requests /\ requests' \in {requests, requests \ {id}}
        /\ UNCHANGED <<socks, request, lastSock, attempt>>
        /\ \/ sock' = sock
           \/ /\ sock' \in {end, [end EXCEPT ![w].state = "FAILED"]}
              /\ id \notin requests'
    BY <1>4 DEF InputRelayed, Reading, Freed, lasts
  <2>2. /\ set \in [SockId -> Sock] /\ socks \subseteq SockId /\ 1..lastSock \subseteq SockId
        /\ sock \in [SockId -> Sock]
    <3>1. SocksOK /\ st \in SockState
      BY DEF SafetyInv, TypeInv, TypeOK, SockState
    <3>2. set \in [SockId -> Sock]
      BY <3>1, SetStateTypes
    <3> HIDE DEF set, st
    <3> QED BY <3>1, <3>2, SocksInRange, Bounds DEF SocksOK, SockId
  <2>3. ASSUME NEW x \in SockId
        PROVE  /\ sock'[x].kind = sock[x].kind /\ sock'[x].pwfail = sock[x].pwfail
               /\ \/ sock'[x].state \in {sock[x].state, "FAILED"}
                  \/ /\ x \in {r.client, r.session} /\ sock'[x].state = st
                     /\ id \notin requests'
    <3>1. /\ set[x].kind = sock[x].kind /\ set[x].pwfail = sock[x].pwfail
          /\ set[x].state = IF x \in {r.client, r.session} THEN st ELSE sock[x].state
      BY SetStateEffect DEF SafetyInv, TypeInv, TypeOK
    <3> HIDE DEF set, st
    <3>2. /\ end[x].kind = set[x].kind /\ end[x].pwfail = set[x].pwfail
          /\ end[x].state = set[x].state
      BY <2>2 DEF Sock
    <3>3. end \in [SockId -> Sock]
      <4>1. \A k \in Sock : [k EXCEPT !.complete = @ + 1] \in Sock
        BY DEF Sock
      <4> QED BY <2>2, <4>1
    <3> DEFINE gone == [end EXCEPT ![w].state = "FAILED"]
    <3>4. /\ gone[x].kind = end[x].kind /\ gone[x].pwfail = end[x].pwfail
          /\ gone[x].state \in {end[x].state, "FAILED"}
      <4> HIDE DEF end
      <4> QED BY <3>3 DEF Sock
    <3> HIDE DEF end, gone
    <3>5. sock' = sock \/ (sock' \in {end, gone} /\ id \notin requests')
      BY <2>1 DEF end, gone, set, st
    <3> QED BY <3>1, <3>2, <3>4, <3>5
  <2>4. ASSUME NEW x \in Sessions, x \in {r.client, r.session}
        PROVE  x = r.session /\ x # None
    <3>1. x # 0 /\ sock[x].kind = "session"
      BY <2>2 DEF Sessions, SockId
    <3>2. r.client = None \/ sock[r.client].kind = "websocket"
      BY <2>1 DEF SafetyInv, KindsAreKept, IsWebsocket
    <3> QED BY <2>4, <3>1, <3>2 DEF None
  <2>5. ASSUME NEW x \in Sessions, x \in {r.client, r.session}, id \notin requests'
        PROVE  /\ \A q \in requests' : request[q].session # x
               /\ NoData /\ st = "ESTABLISHED" => x \in authed
    <3>1. \A q \in requests' : request[q].session # x
      BY <2>1, <2>4, <2>5 DEF SafetyInv, SessionsAreOwn
    <3>2. NoData /\ st = "ESTABLISHED" => x \in authed
      BY <2>1, <2>4, <2>5 DEF SafetyInv, AuthedInv, EstablishedRequests
    <3> QED BY <3>1, <3>2
  <2>6. \A q \in requests : request[q].state \in Active => request[q].session \in socks
    BY ActiveSession DEF Sessions
  <2> HIDE DEF st, r
  <2>7. \A x \in socks' : sock'[x].kind = "session" =>
              /\ x \in Sessions
              /\ \/ sock'[x].state \in {sock[x].state, "FAILED"}
                 \/ /\ \A q \in requests' : request'[q].session = x
                                                => request'[q].state \notin Active
                    /\ NoData /\ sock'[x].state = "ESTABLISHED" => x \in authed
    BY <2>1, <2>2, <2>3, <2>5 DEF Sessions
  <2> QED BY <1>1, <2>1, <2>2, <2>3, <2>6, <2>7, QuietStep
<1> QED BY <1>2, <1>3, <1>4 DEF ChannelInput

-----------------------------------------------------------------------------
(* The health check *)

\* A set of ids has an oldest member
LEMMA OldestIsMember ==
    ASSUME NEW n \in Nat, NEW S \in SUBSET (1..n), S # {}
    PROVE  (CHOOSE r \in S : \A q \in S : r <= q) \in S
<1> DEFINE R == OpToRel(<, Nat)
<1>1. S \subseteq Nat
  OBVIOUS
<1>2. PICK m \in S : \A y \in S : ~ (<<y, m>> \in R)
  BY <1>1, NatLessThanWellFounded, WFMin
<1>3. ASSUME NEW y \in S PROVE m <= y
  <2>1. m \in Nat /\ y \in Nat
    BY <1>1
  <2>2. ~ (<<y, m>> \in {ss \in Nat \X Nat : ss[1] < ss[2]})
    BY <1>2 DEF OpToRel, R
  <2> QED BY <2>1, <2>2
<1> QED BY <1>3

LEMMA HealthySocksEffect ==
    ASSUME SafetyInv, NEW x \in Sessions
    PROVE  /\ HealthySocks[x].state = HealthyState(x)
           /\ \/ HealthyState(x) = sock[x].state
              \/ /\ \A q \in requests \ Unhealthy : request[q].session # x
                 /\ NoData => HealthyState(x) # "ESTABLISHED"
<1> DEFINE touching == {r \in Unhealthy : x \in {request[r].client, request[r].session}}
<1> DEFINE oldest   == CHOOSE r \in touching : \A q \in touching : r <= q
<1>1. x \in SockId /\ x # None /\ sock[x].kind = "session" /\ sock \in [SockId -> Sock]
      /\ requests \subseteq 1..MaxRequest
  BY SocksInRange, RequestsInRange
  DEF Sessions, SafetyInv, TypeInv, TypeOK, SocksOK, SockId, None, RequestId
<1>2. HealthySocks[x].state = HealthyState(x)
  BY <1>1 DEF HealthySocks, Sock
<1>3. touching = {} => HealthyState(x) = sock[x].state
  BY DEF HealthyState
<1>4. ASSUME NEW q \in touching
      PROVE  q \in requests /\ request[q].session = x
  BY <1>1, <1>4 DEF Unhealthy, SafetyInv, KindsAreKept, IsWebsocket
<1>5. ASSUME touching # {}, NEW q \in requests \ Unhealthy
      PROVE  request[q].session # x
  <2>1. PICK t \in touching : TRUE
    BY <1>5
  <2>2. t # q
    BY <1>5
  <2> QED BY <1>1, <1>4, <1>5, <2>1, <2>2 DEF SafetyInv, SessionsAreOwn
<1>6. ASSUME touching # {}, NoData
      PROVE  HealthyState(x) # "ESTABLISHED"
  <2>1. oldest \in touching
    <3>1. touching \subseteq 1..MaxRequest
      BY <1>1 DEF Unhealthy
    <3> HIDE DEF touching
    <3> QED BY <1>6, <3>1, OldestIsMember, Bounds
  <2>2. request[oldest].session = x /\ oldest \in requests
    BY <1>4, <2>1
  <2>3. request[oldest].state # "ERROR"
    BY <1>1, <1>6, <2>2 DEF SafetyInv, AuthedInv, ErrorsAreDetached
  <2>4. HealthyState(x) = IF request[oldest].state = "ERROR" THEN "ESTABLISHED" ELSE "NORMAL"
    BY <1>6 DEF HealthyState
  <2> QED BY <2>3, <2>4
<1> QED BY <1>2, <1>3, <1>5, <1>6

LEMMA EndPassSafe ==
    ASSUME SafetyInv, EndPassIdle \/ EndPassAccepts
    PROVE  SafetyInv'
<1>1. TypeInv'
  BY TypeInvNext DEF Next, Daemon, SafetyInv
<1>2. /\ pc' # "handle" /\ requests' = requests \ Unhealthy /\ UNCHANGED <<request, attempt>>
  BY DEF EndPassIdle, EndPassAccepts, EndPass, Freed, history
<1>3. /\ HealthySocks \in [SockId -> Sock] /\ sock \in [SockId -> Sock]
      /\ lastSock \in Nat /\ socks \subseteq 1..lastSock /\ 1..lastSock \subseteq SockId
  BY HealthyStateTypes, SockWithState, Bounds
  DEF HealthySocks, SafetyInv, TypeInv, TypeOK, SocksOK, SockId
<1>4. \A x \in SockId : /\ HealthySocks[x].kind = sock[x].kind
                        /\ HealthySocks[x].pwfail = sock[x].pwfail
  BY <1>3 DEF HealthySocks, Sock
<1>5. ASSUME NEW x \in Sessions
      PROVE  \/ HealthySocks[x].state = sock[x].state
             \/ /\ \A q \in requests' : request'[q].session # x
                /\ NoData => HealthySocks[x].state # "ESTABLISHED"
  BY <1>2, HealthySocksEffect
<1>6. \A q \in requests : request[q].state \in Active => request[q].session \in socks
  BY ActiveSession DEF Sessions
<1>7. CASE EndPassIdle
  <2>1. UNCHANGED <<socks, lastSock>> /\ sock' = HealthySocks
    BY <1>7 DEF EndPassIdle
  <2>2. \A x \in socks' : sock'[x].kind = "session" => x \in Sessions
    BY <1>3, <1>4, <2>1 DEF Sessions
  <2> QED BY <1>1, <1>2, <1>3, <1>4, <1>5, <1>6, <2>1, <2>2, QuietStep
<1>8. CASE EndPassAccepts
  <2> DEFINE w == lastSock + 1
  <2>1. /\ lastSock' = w /\ socks' = socks \cup {w} /\ w \in SockId
        /\ sock' = [HealthySocks EXCEPT ![w] = NewWebsocket]
    BY <1>3, <1>8, Bounds DEF EndPassAccepts, SockId
  <2>2. sock'[w] = NewWebsocket /\ \A x \in SockId \ {w} : sock'[x] = HealthySocks[x]
    BY <1>3, <2>1
  <2>3. \A x \in socks' : sock'[x].kind = "session" => x \in Sessions /\ x # w
    BY <1>3, <1>4, <2>1, <2>2 DEF Sessions, NewWebsocket
  <2>4. \A x \in SockId : \/ sock'[x].pwfail = sock[x].pwfail
                          \/ x \notin 1..lastSock /\ sock'[x].pwfail = 0
    <3>1. sock'[w].pwfail = 0 /\ w \notin 1..lastSock
      BY <1>3, <2>2 DEF NewWebsocket
    <3>2. ASSUME NEW x \in SockId, x # w
          PROVE  sock'[x].pwfail = sock[x].pwfail
      BY <1>4, <2>2, <3>2
    <3> HIDE DEF w
    <3> QED BY <3>1, <3>2
  <2>5. \A x \in 1..lastSock : sock'[x].kind = sock[x].kind
    BY <1>3, <1>4, <2>2
  <2>6. \A x \in socks' : sock'[x].kind = "session" =>
              /\ x \in Sessions
              /\ \/ sock'[x].state \in {sock[x].state, "FAILED"}
                 \/ /\ \A q \in requests' : request'[q].session = x
                                                => request'[q].state \notin Active
                    /\ NoData /\ sock'[x].state = "ESTABLISHED" => x \in authed
    BY <1>3, <1>5, <2>2, <2>3 DEF Sessions
  <2> QED BY <1>1, <1>2, <1>6, <2>1, <2>4, <2>5, <2>6, QuietStep
<1> QED BY <1>7, <1>8

-----------------------------------------------------------------------------
(* Messages that open and authenticate nothing *)

\* Messages are handled for websockets, and only those that clients send.
LEMMA HandlingFacts ==
    ASSUME SafetyInv, NEW w \in SockId, NEW ops, Handling(w, ops)
    PROVE  /\ IsWebsocket(w) /\ pc = "handle" /\ rbuf # <<>> /\ cursor = w
           /\ ops = {"data"} => ~ NoData
<1>1. pc = "handle" /\ rbuf # <<>> /\ cursor = w /\ Incoming.op \in ops
  BY DEF Handling
<1>2. Incoming.op \in Ops
  BY <1>1, IncomingTypes DEF SafetyInv, TypeInv, TypeOK, Message
<1> QED BY <1>1, <1>2 DEF SafetyInv, KindsAreKept, NoData

\* The end of a message leaves the poller where it was
LEMMA StaysAtCursor ==
    ASSUME \/ Consume \/ Abandon \/ Crash \/ \E s \in {0} \cup SockId : ConsumeAndShift(s)
    PROVE  pc' = "handle" => cursor' = cursor
BY DEF Consume, Abandon, Crash, ConsumeAndShift

\* A request that is put on the list without a session, or refused
LEMMA CreateSafe ==
    ASSUME SafetyInv, TypeInv', NEW w \in SockId, IsWebsocket(w), cursor = w,
           NEW r \in Request, CreateRequest(r), r.client = w, r.session = None,
           r.state \in {"NORMAL", "ERROR"}, Consume,
           UNCHANGED <<socks, lastSock, attempt>>,
           \/ sock' = sock
           \/ \E st \in SockState : sock' = [sock EXCEPT ![w] = CountMade(w, st)]
    PROVE  SafetyInv'
<1> DEFINE id == lastRequest + 1
<1>1. /\ requests' = requests \cup {id} /\ id \in RequestId
      /\ request' = [request EXCEPT ![id] = r] /\ requests \subseteq RequestId
      /\ request \in [RequestId -> Request]
  BY CreateRequestTypes, RequestsInRange DEF SafetyInv, TypeInv, TypeOK, RequestsOK
<1>2. request'[id] = r /\ \A q \in requests : q # id => request'[q] = request[q]
  BY <1>1
<1>3. \A q \in requests : request[q].state \in Active => request[q].session \in socks
  BY ActiveSession DEF Sessions
<1>4. /\ sock \in [SockId -> Sock] /\ 1..lastSock \subseteq SockId /\ socks \subseteq SockId
      /\ sock[w].kind = "websocket"
  BY SocksInRange, Bounds DEF SafetyInv, TypeInv, TypeOK, SocksOK, SockId, IsWebsocket
<1>5. ASSUME NEW st \in SockState
      PROVE  /\ CountMade(w, st).kind = sock[w].kind
             /\ CountMade(w, st).pwfail = sock[w].pwfail
  <2>1. sock[w] \in Sock
    BY <1>4
  <2>2. \A k \in Sock : /\ [k EXCEPT !.made = @ + 1] \in Sock
                        /\ [k EXCEPT !.made = @ + 1].kind = k.kind
                        /\ [k EXCEPT !.made = @ + 1].pwfail = k.pwfail
    BY DEF Sock
  <2>3. \A k \in Sock : /\ [k EXCEPT !.state = st].kind = k.kind
                        /\ [k EXCEPT !.state = st].pwfail = k.pwfail
    BY DEF Sock
  <2>4. CountMade(w, st) = [[sock[w] EXCEPT !.state = st] EXCEPT !.made = @ + 1]
    BY <2>1 DEF CountMade, Sock
  <2> QED BY <2>1, <2>2, <2>3, <2>4, SockWithState
<1>6. \A x \in SockId : /\ sock'[x].kind = sock[x].kind /\ sock'[x].pwfail = sock[x].pwfail
                        /\ sock[x].kind = "session" => sock'[x].state = sock[x].state
  BY <1>4, <1>5
<1>7. \A x \in socks' : sock'[x].kind = "session" =>
          x \in Sessions /\ sock'[x].state = sock[x].state
  BY <1>4, <1>6 DEF Sessions
<1>8. pc' = "handle" => IsWebsocket(cursor')
  BY StaysAtCursor
<1> HIDE DEF id
<1>9. \A q \in requests' :
         \/ /\ q \in requests /\ request'[q] = request[q]
            /\ request[q].state \in Active => request[q].session \in socks'
         \/ /\ request'[q].state \in {"NORMAL", "ERROR", "FAILED"}
            /\ request'[q].client = None \/ IsWebsocket(request'[q].client)
            /\ request'[q].session = None
  BY <1>1, <1>2, <1>3
<1> QED BY <1>4, <1>6, <1>7, <1>8, <1>9, QuietStep

LEMMA NewRequestSafe ==
    ASSUME SafetyInv, NEW w \in SockId,
           \/ HandleRpcReuse(w) \/ HandleRpcNoCreate(w) \/ HandleRpcOpenFails(w)
           \/ HandleAuthinit(w)
    PROVE  SafetyInv'
<1> DEFINE r == Created(w)
<1>1. TypeInv'
  BY TypeInvNext DEF Next, Daemon, Pass, HandleRequest, SafetyInv
<1>2. /\ IsWebsocket(w) /\ pc = "handle" /\ rbuf # <<>> /\ cursor = w
  BY HandlingFacts DEF HandleRpcReuse, HandleRpcNoCreate, HandleRpcOpenFails, HandleAuthinit
<1>3. /\ r \in Request /\ r.client = w /\ r.session = None /\ r.state = "NORMAL"
      /\ sock[w].state \in SockState
  BY <1>2, CreatedTypes DEF SafetyInv, TypeInv, TypeOK, SocksOK, Sock
<1>4. /\ Consume /\ UNCHANGED <<socks, lastSock, attempt>>
      /\ \/ sock' = sock
         \/ \E st \in SockState : sock' = [sock EXCEPT ![w] = CountMade(w, st)]
  BY <1>3 DEF HandleRpcReuse, HandleRpcNoCreate, HandleRpcOpenFails, HandleAuthinit, history,
              SockState
<1>5. CASE HandleRpcReuse(w)
  <2>1. PICK c \in ChannelFor(SessionFind(Incoming.target)) :
            CreateRequest([r EXCEPT !.channel = c])
    BY <1>5 DEF HandleRpcReuse
  <2> DEFINE q == [r EXCEPT !.channel = c]
  <2>2. c \in ChannelId \cup {None}
    BY ChannelForTypes DEF SafetyInv, TypeInv
  <2> HIDE DEF r
  <2>3. q \in Request /\ q.client = w /\ q.session = None /\ q.state = "NORMAL"
    BY <1>3, <2>2 DEF Request
  <2> HIDE DEF q
  <2> QED BY <1>1, <1>2, <1>4, <2>1, <2>3, CreateSafe DEF q
<1>6. CASE HandleRpcNoCreate(w) \/ HandleRpcOpenFails(w)
  <2> DEFINE q == [r EXCEPT !.state = "ERROR"]
  <2>1. CreateRequest(q)
    BY <1>6 DEF HandleRpcNoCreate, HandleRpcOpenFails
  <2> HIDE DEF r
  <2>2. q \in Request /\ q.client = w /\ q.session = None /\ q.state = "ERROR"
    BY <1>3 DEF Request, SockState
  <2> HIDE DEF q
  <2> QED BY <1>1, <1>2, <1>4, <2>1, <2>2, CreateSafe
<1>7. CASE HandleAuthinit(w)
  <2>1. CreateRequest(r)
    BY <1>7 DEF HandleAuthinit
  <2> HIDE DEF r
  <2> QED BY <1>1, <1>2, <1>3, <1>4, <2>1, CreateSafe
<1> QED BY <1>5, <1>6, <1>7

LEMMA HandleEndSafe ==
    ASSUME SafetyInv, NEW w \in SockId, HandleHostkeyDeclined(w) \/ HandleError(w)
    PROVE  SafetyInv'
<1> DEFINE r == request[Addressed]
<1>1. TypeInv'
  BY TypeInvNext DEF Next, Daemon, Pass, HandleRequest, SafetyInv
<1>2. IsWebsocket(w) /\ pc = "handle" /\ rbuf # <<>> /\ cursor = w
  BY HandlingFacts DEF HandleHostkeyDeclined, HandleError, Awaiting
<1>3. CASE UNCHANGED <<memory, clients, devices, history>> /\ Consume
  BY <1>1, <1>2, <1>3, StaysAtCursor, StillStep DEF memory, lasts, history
<1>4. CASE /\ Addressed # None
           /\ \E st \in SockState, D \in {{}, {Addressed}} :
              /\ CloseSession(r.session, Freed({Addressed}),
                              SetState({r.client, r.session}, st), D)
              /\ ConsumeAndShift(r.session)
  <2>1. PICK st \in SockState, D \in {{}, {Addressed}} :
              /\ CloseSession(r.session, Freed({Addressed}),
                              SetState({r.client, r.session}, st), D)
              /\ ConsumeAndShift(r.session)
    BY <1>4
  <2> DEFINE set == SetState({r.client, r.session}, st)
  <2>2. Addressed \in requests /\ r \in Request
    BY <1>4, AddressedTypes DEF SafetyInv, TypeInv, TypeOK, RequestsOK
  <2>3. set \in [SockId -> Sock] /\ Freed({Addressed}) \in SUBSET requests
    BY SetStateTypes DEF SafetyInv, TypeInv, TypeOK, Freed
  <2>4. \A x \in SockId : /\ set[x].kind = sock[x].kind /\ set[x].pwfail = sock[x].pwfail
                          /\ \/ set[x].state = sock[x].state
                             \/ sock[x].kind = "websocket" \/ x = r.session
    <3>1. \A x \in SockId : /\ set[x].kind = sock[x].kind /\ set[x].pwfail = sock[x].pwfail
                            /\ set[x].state = IF x \in {r.client, r.session} THEN st
                                              ELSE sock[x].state
      BY SetStateEffect DEF SafetyInv, TypeInv, TypeOK
    <3>2. r.client = 0 \/ sock[r.client].kind = "websocket"
      BY <2>2 DEF SafetyInv, KindsAreKept, IsWebsocket, None
    <3>3. \A x \in SockId : x # 0
      BY DEF SockId
    <3> HIDE DEF set, r
    <3> QED BY <3>1, <3>2, <3>3
  <2>5. pc' = "handle" => IsWebsocket(cursor')
    BY <1>2, <2>1 DEF ConsumeAndShift
  <2>6. CloseSession(r.session, Freed({Addressed}), set, D)
    BY <2>1
  <2> DEFINE s == r.session
  <2> DEFINE R == Freed({Addressed})
  <2> HIDE DEF r, set
  <2>7. CloseSession(s, R, set, D) /\ R \in SUBSET requests
    BY <2>3, <2>6
  <2>8. \A x \in SockId : /\ set[x].kind = sock[x].kind /\ set[x].pwfail = sock[x].pwfail
                          /\ \/ set[x].state = sock[x].state
                             \/ sock[x].kind = "websocket" \/ x = s
    BY <2>4
  <2> HIDE DEF s, R
  <2> QED BY <1>1, <2>3, <2>5, <2>7, <2>8, CloseSessionSafe
<1>5. HandleHostkeyDeclined(w) => Addressed # None
  BY DEF HandleHostkeyDeclined, Awaiting, Waits
<1> QED BY <1>3, <1>4, <1>5 DEF HandleHostkeyDeclined, HandleError, SockState

LEMMA HandleDataRefusedSafe ==
    ASSUME SafetyInv, NEW w \in SockId,
           HandleDataUnknown(w) \/ HandleDataFails(w) \/ HandleDataSent(w)
           \/ HandleAnswerIgnored(w)
    PROVE  SafetyInv'
<1>1. TypeInv'
  BY TypeInvNext DEF Next, Daemon, Pass, HandleRequest, SafetyInv
<1>2. IsWebsocket(w) /\ pc = "handle" /\ rbuf # <<>> /\ cursor = w
  BY HandlingFacts DEF HandleDataUnknown, HandleDataFails, HandleDataSent, HandleAnswerIgnored
<1>3. pc' = "handle" => IsWebsocket(cursor')
  BY <1>2, StaysAtCursor
  DEF HandleDataUnknown, HandleDataFails, DataFails, HandleDataSent, HandleAnswerIgnored
<1>4. \A q \in requests : request[q].state \in Active => request[q].session \in socks
  BY ActiveSession DEF Sessions
<1>5. /\ sock \in [SockId -> Sock] /\ socks \subseteq SockId /\ 1..lastSock \subseteq SockId
  BY SocksInRange, Bounds DEF SafetyInv, TypeInv, TypeOK, SocksOK, SockId
<1>6. CASE HandleDataSent(w) \/ HandleAnswerIgnored(w)
  BY <1>1, <1>3, <1>6, StillStep DEF HandleDataSent, HandleAnswerIgnored, memory, lasts, history
<1>7. CASE HandleDataUnknown(w)
  <2>1. /\ sock' = [sock EXCEPT ![w].state = "FAILED"]
        /\ UNCHANGED <<socks, lastSock, requests, request, attempt>>
    BY <1>7 DEF HandleDataUnknown, lasts, history
  <2>2. \A x \in SockId : /\ sock'[x].kind = sock[x].kind /\ sock'[x].pwfail = sock[x].pwfail
                          /\ sock'[x].state \in {sock[x].state, "FAILED"}
    BY <1>5, <2>1 DEF Sock
  <2> QED BY <1>1, <1>3, <1>4, <1>5, <2>1, <2>2, QuietStep DEF Sessions
<1>8. CASE HandleDataFails(w)
  <2> DEFINE id  == Addressed
  <2> DEFINE r   == request[id]
  <2> DEFINE set == SetState({r.client, r.session}, "ERROR")
  <2>1. /\ ~ NoData /\ id \in requests /\ id \in RequestId /\ request \in [RequestId -> Request]
        /\ UNCHANGED <<socks, lastSock, requests, attempt>>
    BY <1>8, HandlingFacts, AddressedTypes
    DEF HandleDataFails, DataFails, lasts, SafetyInv, TypeInv, TypeOK, RequestsOK
  <2>2. CASE UNCHANGED <<sock, request>>
    BY <1>1, <1>3, <2>1, <2>2, StillStep
  <2>3. CASE sock' = set /\ request' = [request EXCEPT ![id].state = "ERROR"]
    <3>1. /\ request'[id].state = "ERROR" /\ request'[id].client = r.client
          /\ request'[id].session = r.session
          /\ \A q \in requests : q # id => request'[q] = request[q]
      <4>1. requests \subseteq RequestId
        BY RequestsInRange DEF SafetyInv, TypeInv, TypeOK
      <4>2. request' = [request EXCEPT ![id] = [r EXCEPT !.state = "ERROR"]] /\ r \in Request
        BY <2>1, <2>3
      <4>3. \A k \in Request : LET e == [k EXCEPT !.state = "ERROR"]
                              IN  e.state = "ERROR" /\ e.client = k.client /\ e.session = k.session
        BY DEF Request
      <4> HIDE DEF id
      <4> QED BY <2>1, <4>1, <4>2, <4>3
    <3>2. \A x \in SockId : /\ sock'[x].kind = sock[x].kind /\ sock'[x].pwfail = sock[x].pwfail
                            /\ x \notin {r.client, r.session} => sock'[x].state = sock[x].state
      BY <2>3, SetStateEffect DEF SafetyInv, TypeInv, TypeOK
    <3>3. ASSUME NEW x \in Sessions, x \in {r.client, r.session}
          PROVE  \A q \in requests : request[q].session = x => q = id
      <4>1. x # 0 /\ sock[x].kind = "session"
        BY <1>5 DEF Sessions, SockId
      <4>2. r.client = 0 \/ sock[r.client].kind = "websocket"
        BY <2>1 DEF SafetyInv, KindsAreKept, IsWebsocket, None
      <4>3. x = r.session
        BY <3>3, <4>1, <4>2
      <4> QED BY <2>1, <4>1, <4>3 DEF SafetyInv, SessionsAreOwn, None
    <3>4. r.client = None \/ IsWebsocket(r.client)
      BY <2>1 DEF SafetyInv, KindsAreKept
    <3>5. \A q \in requests' :
              \/ /\ q \in requests /\ request'[q] = request[q]
                 /\ request[q].state \in Active => request[q].session \in socks'
              \/ /\ request'[q].state \in {"NORMAL", "ERROR", "FAILED"}
                 /\ request'[q].client = None \/ IsWebsocket(request'[q].client)
                 /\ \/ request'[q].session = None
                    \/ /\ q \in requests /\ request'[q].session = request[q].session
                       /\ ~ NoData
      <4> HIDE DEF id
      <4> QED BY <1>4, <2>1, <3>1, <3>4
    <3>6. \A x \in socks' : sock'[x].kind = "session" =>
              /\ x \in Sessions
              /\ \/ sock'[x].state = sock[x].state
                 \/ \A q \in requests' : request'[q].session = x
                                                => request'[q].state \notin Active
      <4> HIDE DEF id, r
      <4>1. ASSUME NEW x \in socks, sock'[x].kind = "session"
            PROVE  x \in Sessions
        BY <1>5, <3>2, <4>1 DEF Sessions
      <4>2. ASSUME NEW x \in Sessions, sock'[x].state # sock[x].state, NEW q \in requests,
                   request'[q].session = x
            PROVE  request'[q].state \notin Active
        <5>1. x \in {r.client, r.session}
          BY <1>5, <3>2, <4>2 DEF Sessions
        <5>2. q = id
          BY <3>1, <3>3, <4>2, <5>1
        <5> QED BY <3>1, <5>2 DEF Active, Prompting
      <4> QED BY <2>1, <4>1, <4>2
    <3> QED BY <1>1, <1>3, <1>5, <2>1, <3>2, <3>5, <3>6, QuietStep
  <2> QED BY <1>8, <2>2, <2>3 DEF HandleDataFails, DataFails
<1> QED BY <1>6, <1>7, <1>8

-----------------------------------------------------------------------------
(* Sessions that are opened *)

\* With a client to ask, a session is opened on a host that is trusted, or nothing
\* is offered to it and its host key is asked about.
LEMMA OpenAsksFirst ==
    ASSUME NEW r, NEW o \in OpenOutcomes(r), r.client # None
    PROVE  o.trust \/ (o.state = "HOSTKEY" /\ ~ o.auth)
<1>1. CASE r.target \in known
  <2>1. ASSUME NEW trust \in BOOLEAN, trust, NEW a \in
                  AuthOutcomes(0, r.passphrase, r.password, r.target, trust)
        PROVE  a.trust
    <3>1. 0 \in Nat
      OBVIOUS
    <3>2. a.trust = trust
      BY <3>1, AuthOutcome
    <3> QED BY <2>1, <3>2, Zenon
  <2>2. o \in AuthOutcomes(0, r.passphrase, r.password, r.target, r.target \in known)
    BY <1>1 DEF OpenOutcomes
  <2> QED BY <1>1, <2>1, <2>2
<1>2. CASE r.target \notin known
  BY <1>2 DEF OpenOutcomes
<1> QED BY <1>1, <1>2

\* A new session s and the request id that points to it, which is new or had
\* another session before; what else is on the lists is as it was.
LEMMA OpenSafe ==
    ASSUME SafetyInv, TypeInv', NEW id \in RequestId, NEW p, NEW r, NEW o, NEW st,
           lastSock' = lastSock + 1, lastSock + 1 \in SockId,
           socks' = socks \cup {lastSock + 1},
           \A x \in 1..lastSock :
              /\ sock'[x].kind = sock[x].kind /\ sock'[x].pwfail = sock[x].pwfail
              /\ sock[x].kind = "session" => sock'[x].state = sock[x].state,
           \A x \in SockId : x \in 1..lastSock \/ x = lastSock + 1
                               \/ sock'[x].pwfail = sock[x].pwfail,
           sock'[lastSock + 1].kind = "session", sock'[lastSock + 1].state = st,
           sock'[lastSock + 1].pwfail = o.pwfail,
           id \in requests', requests' \subseteq requests \cup {id},
           \A q \in requests : q # id => request'[q] = request[q],
           request'[id].state = st, request'[id].session = lastSock + 1,
           request'[id].client = None \/ IsWebsocket(request'[id].client),
           o \in OpenOutcomes(r), st \in {o.state, "ERROR"},
           NoData => st = o.state /\ r.client # None,
           RecordAttempt(id, p, lastSock + 1, o), IsWebsocket(cursor),
           pc' = "handle" => cursor' = cursor
    PROVE  SafetyInv'
<1> DEFINE s == lastSock + 1
<1>1. /\ lastSock \in Nat /\ 1..lastSock \subseteq 1..lastSock' /\ s \in 1..lastSock'
      /\ s \notin 1..lastSock /\ 1..lastSock \subseteq SockId /\ s # None
      /\ socks \subseteq 1..lastSock
  BY Bounds DEF SafetyInv, TypeInv, TypeOK, SocksOK, SockId, None
<1>2. /\ o.state \in Prompting \cup {"FAILED", "ESTABLISHED"} /\ o.pwfail \in {0, 1}
      /\ o.pwfail = 0 \/ o.state = "FAILED" \/ 1 <= MaxPwfail
  BY OpenOutcome
<1>3. /\ trusted' = IF o.trust THEN trusted \cup {s} ELSE trusted
      /\ authStarted' = IF o.auth THEN authStarted \cup {s} ELSE authStarted
      /\ authed' = IF o.state = "ESTABLISHED" THEN authed \cup {s} ELSE authed
  BY DEF RecordAttempt
<1>4. /\ lastSock' = s /\ socks' = socks \cup {s} /\ sock'[s].kind = "session"
      /\ sock'[s].state = st /\ sock'[s].pwfail = o.pwfail /\ request'[id].session = s
      /\ \A x \in SockId : x \in 1..lastSock \/ x = s \/ sock'[x].pwfail = sock[x].pwfail
  OBVIOUS
<1>5. NoData => o.trust \/ (o.state = "HOSTKEY" /\ ~ o.auth)
  BY OpenAsksFirst
<1> HIDE DEF s
<1>6. ASSUME NEW q \in requests', q # id
      PROVE  q \in requests /\ request'[q] = request[q]
  BY <1>6
<1>7. KindsAreKept'
  <2>1. \A x : IsWebsocket(x) => x \in 1..lastSock' /\ sock'[x].kind = "websocket"
    BY <1>1 DEF IsWebsocket
  <2>2. \A x : IsSession(x) => x \in 1..lastSock' /\ sock'[x].kind = "session"
    BY <1>1 DEF IsSession
  <2>3. ASSUME NEW q \in requests'
        PROVE  /\ \/ request'[q].client = None
                  \/ /\ request'[q].client \in 1..lastSock'
                     /\ sock'[request'[q].client].kind = "websocket"
               /\ \/ request'[q].session = None
                  \/ /\ request'[q].session \in 1..lastSock'
                     /\ sock'[request'[q].session].kind = "session"
    BY <1>1, <1>4, <1>6, <2>1, <2>2 DEF SafetyInv, KindsAreKept
  <2> QED BY <2>1, <2>3 DEF KindsAreKept, IsWebsocket, IsSession
<1>8. \A q \in requests' : q # id => request'[q].session # s
  BY <1>1, <1>6 DEF SafetyInv, KindsAreKept, IsSession
<1>9. SessionsAreOwn'
  BY <1>1, <1>4, <1>6, <1>8 DEF SafetyInv, SessionsAreOwn
<1>10. ASSUME NEW q \in requests', q # id, request'[q].state \in Active
       PROVE  /\ request'[q].session \in socks'
              /\ sock'[request'[q].session].kind = "session"
              /\ sock'[request'[q].session].state \in {request'[q].state, "FAILED"}
              /\ sock'[request'[q].session].pwfail = sock[request'[q].session].pwfail
  <2>1. /\ q \in requests /\ request'[q] = request[q] /\ IsSession(request[q].session)
        /\ request[q].session \in Sessions
        /\ sock[request[q].session].state \in {request[q].state, "FAILED"}
    BY <1>6, <1>10, ActiveSession
  <2> QED BY <1>4, <2>1 DEF IsSession, Sessions
<1>11. StatesAgree'
  BY <1>4, <1>10, PromptStates DEF StatesAgree, Sessions, Active
<1>12. FailuresCounted'
  <2>1. ASSUME NEW x \in SockId PROVE sock'[x].pwfail <= MaxPwfail + 1
    <3>1. o.pwfail <= MaxPwfail + 1
      BY <1>2, Bounds
    <3> QED BY <1>4, <3>1 DEF SafetyInv, FailuresCounted
  <2>2. ASSUME NEW q \in requests', request'[q].state \in Prompting
        PROVE  sock'[request'[q].session].pwfail <= MaxPwfail
    <3>1. CASE q = id
      <4>1. o.state \in Prompting
        BY <2>2, <3>1 DEF Prompting
      <4>2. o.pwfail <= MaxPwfail
        <5>1. o.state # "FAILED"
          BY <4>1 DEF Prompting
        <5> QED BY <1>2, <5>1, Bounds
      <4> QED BY <1>4, <3>1, <4>2
    <3>2. CASE q # id
      BY <1>6, <1>10, <2>2, <3>2 DEF SafetyInv, FailuresCounted, Active
    <3> QED BY <3>1, <3>2
  <2> QED BY <2>1, <2>2 DEF FailuresCounted
<1>13. ASSUME NoData PROVE TrustInv' /\ AuthedInv'
  <2>1. st = o.state /\ TrustInv /\ AuthedInv
    BY <1>13 DEF SafetyInv
  <2>2. NoCredentialsBeforeTrust'
    BY <1>3, <1>5, <1>13, <2>1 DEF TrustInv, NoCredentialsBeforeTrust
  <2>3. TrustIsGiven'
    BY <1>3, <1>4, <1>5, <1>6, <1>13, <2>1 DEF TrustInv, TrustIsGiven
  <2>4. ErrorsAreDetached'
    BY <1>2, <1>6, <2>1 DEF AuthedInv, ErrorsAreDetached, Prompting
  <2>5. EstablishedRequests'
    BY <1>3, <1>4, <1>6, <2>1 DEF AuthedInv, EstablishedRequests
  <2>6. EstablishedIsAuthenticated'
    <3>1. ASSUME NEW x \in socks', sock'[x].kind = "session", sock'[x].state = "ESTABLISHED"
          PROVE  x \in authed'
      <4>1. CASE x = s
        BY <1>3, <1>4, <2>1, <3>1, <4>1
      <4>2. CASE x # s
        <5>1. x \in socks /\ x \in 1..lastSock
          BY <1>1, <1>4, <4>2
        <5>2. x \in Sessions /\ sock[x].state = "ESTABLISHED"
          BY <3>1, <5>1 DEF Sessions
        <5> QED BY <1>3, <2>1, <5>2 DEF AuthedInv, EstablishedIsAuthenticated
      <4> QED BY <4>1, <4>2
    <3> QED BY <3>1 DEF EstablishedIsAuthenticated, Sessions
  <2> QED BY <2>2, <2>3, <2>4, <2>5, <2>6 DEF TrustInv, AuthedInv
<1> QED BY <1>7, <1>9, <1>11, <1>12, <1>13 DEF SafetyInv, NoData

LEMMA HandleRpcOpenSafe ==
    ASSUME SafetyInv, NEW w \in SockId, HandleRpcOpen(w)
    PROVE  SafetyInv'
<1> DEFINE id == lastRequest + 1
<1> DEFINE s  == lastSock + 1
<1> DEFINE r  == Created(w)
<1>1. TypeInv'
  BY TypeInvNext DEF Next, Daemon, Pass, HandleRequest, SafetyInv
<1>2. /\ IsWebsocket(w) /\ pc = "handle" /\ rbuf # <<>> /\ cursor = w
  BY HandlingFacts DEF HandleRpcOpen
<1>3. PICK o \in OpenOutcomes(r) :
         \E c \in IF o.state = "ESTABLISHED" THEN ChannelFor(s) ELSE {None} :
         /\ CreateRequest([r EXCEPT !.state = o.state, !.session = s, !.channel = c])
         /\ sock' = [sock EXCEPT ![w] = CountMade(w, o.state), ![s] = NewSession(r.target, o)]
         /\ RecordAttempt(id, r, s, o)
         /\ SendRpc(id, c, s, w)
  BY DEF HandleRpcOpen
<1>4. PICK c \in ChannelFor(s) \cup {None} :
         /\ CreateRequest([r EXCEPT !.state = o.state, !.session = s, !.channel = c])
         /\ sock' = [sock EXCEPT ![w] = CountMade(w, o.state), ![s] = NewSession(r.target, o)]
         /\ RecordAttempt(id, r, s, o)
  BY <1>3
<1>5. /\ s \in SockId /\ lastSock' = s /\ socks' = socks \cup {s} /\ Consume
      /\ sock \in [SockId -> Sock] /\ w \in 1..lastSock /\ w # s /\ 1..lastSock \subseteq SockId
      /\ sock[w].kind = "websocket"
  BY <1>2, Bounds DEF HandleRpcOpen, SafetyInv, TypeInv, TypeOK, SocksOK, SockId, IsWebsocket
<1>6. o.state \in SockState /\ o.pwfail \in Nat
  BY OpenOutcome DEF SockState, Prompting
<1>7. r \in Request /\ r.client = w /\ c \in ChannelId \cup {None}
  BY <1>2, CreatedTypes, ChannelForTypes DEF SafetyInv, TypeInv
<1> DEFINE q == [r EXCEPT !.state = o.state, !.session = s, !.channel = c]
<1>8. q \in Request /\ q.client = w /\ q.state = o.state /\ q.session = s
  <2> HIDE DEF r
  <2> QED BY <1>5, <1>6, <1>7 DEF Request
<1>9. /\ id \in RequestId /\ requests' = requests \cup {id}
      /\ request'[id] = q /\ \A x \in requests : x # id => request'[x] = request[x]
  <2> HIDE DEF q
  <2>1. CreateRequest(q)
    BY <1>4 DEF q
  <2>2. /\ id \in RequestId /\ requests' = requests \cup {id}
        /\ request' = [request EXCEPT ![id] = q]
    BY <1>8, <2>1, CreateRequestTypes DEF SafetyInv, TypeInv
  <2>3. requests \subseteq RequestId /\ request \in [RequestId -> Request]
    BY RequestsInRange DEF SafetyInv, TypeInv, TypeOK, RequestsOK
  <2> QED BY <2>2, <2>3
<1>10. /\ CountMade(w, o.state).kind = "websocket"
       /\ CountMade(w, o.state).pwfail = sock[w].pwfail
  <2>1. sock[w] \in Sock
    BY <1>5
  <2>2. \A k \in Sock : /\ [k EXCEPT !.made = @ + 1] \in Sock
                        /\ [k EXCEPT !.made = @ + 1].kind = k.kind
                        /\ [k EXCEPT !.made = @ + 1].pwfail = k.pwfail
    BY DEF Sock
  <2>3. \A k \in Sock : /\ [k EXCEPT !.state = o.state].kind = k.kind
                        /\ [k EXCEPT !.state = o.state].pwfail = k.pwfail
    BY DEF Sock
  <2>4. CountMade(w, o.state) = [[sock[w] EXCEPT !.state = o.state] EXCEPT !.made = @ + 1]
    BY <2>1 DEF CountMade, Sock
  <2> QED BY <1>5, <1>6, <2>1, <2>2, <2>3, <2>4, SockWithState
<1>11. /\ sock'[s].kind = "session" /\ sock'[s].state = o.state /\ sock'[s].pwfail = o.pwfail
       /\ sock'[w] = CountMade(w, o.state)
       /\ \A x \in SockId \ {s, w} : sock'[x] = sock[x]
  <2> HIDE DEF s, r
  <2> QED BY <1>4, <1>5 DEF NewSession
<1>12. /\ \A x \in 1..lastSock :
             /\ sock'[x].kind = sock[x].kind /\ sock'[x].pwfail = sock[x].pwfail
             /\ sock[x].kind = "session" => sock'[x].state = sock[x].state
       /\ \A x \in SockId : x \in 1..lastSock \/ x = s \/ sock'[x].pwfail = sock[x].pwfail
  <2>1. s \notin 1..lastSock
    BY <1>5 DEF SafetyInv, TypeInv, TypeOK, SocksOK
  <2> HIDE DEF s
  <2> QED BY <1>5, <1>10, <1>11, <2>1
<1>13. pc' = "handle" => cursor' = cursor
  BY <1>5, StaysAtCursor
<1>14. w # None
  BY <1>2 DEF IsWebsocket, None
<1> HIDE DEF q, r, id
<1> QED BY <1>1, <1>2, <1>4, <1>5, <1>7, <1>8, <1>9, <1>11, <1>12, <1>13, <1>14, OpenSafe

LEMMA HandleDataOpensSafe ==
    ASSUME SafetyInv, NEW w \in SockId, HandleDataOpens(w)
    PROVE  SafetyInv'
<1> DEFINE id    == Addressed
<1> DEFINE r     == request[id]
<1> DEFINE s     == lastSock + 1
<1> DEFINE fails == r.channel = None /\ r.client # None
<1>1. TypeInv'
  BY TypeInvNext DEF Next, Daemon, Pass, HandleRequest, SafetyInv
<1>2. IsWebsocket(w) /\ pc = "handle" /\ rbuf # <<>> /\ cursor = w /\ ~ NoData
  BY HandlingFacts DEF HandleDataOpens
<1>3. /\ id \in requests /\ id \in RequestId /\ requests' = requests /\ r \in Request
      /\ requests \subseteq RequestId /\ request \in [RequestId -> Request]
  BY AddressedTypes, RequestsInRange
  DEF HandleDataOpens, SafetyInv, TypeInv, TypeOK, RequestsOK
<1>4. /\ s \in SockId /\ lastSock' = s /\ socks' = socks \cup {s}
      /\ sock \in [SockId -> Sock] /\ 1..lastSock \subseteq SockId /\ s \notin 1..lastSock
  BY Bounds DEF HandleDataOpens, SafetyInv, TypeInv, TypeOK, SocksOK, SockId
<1>5. PICK o \in OpenOutcomes(r) :
         LET st == IF fails THEN "ERROR" ELSE o.state
         IN  /\ request' = [request EXCEPT ![id].state = st, ![id].session = s]
             /\ sock'    = [SetState({r.client}, st) EXCEPT
                               ![s] = [NewSession(r.target, o) EXCEPT !.state = st]]
             /\ RecordAttempt(id, r, s, o)
             /\ IF o.crash \/ (r.channel # None /\ channel[r.channel].list = "none")
                THEN Crash ELSE IF r.channel = None THEN Abandon ELSE Consume
  BY DEF HandleDataOpens
<1> DEFINE st == IF fails THEN "ERROR" ELSE o.state
<1> DEFINE set == SetState({r.client}, st)
<1>6. st \in SockState
  BY OpenOutcome DEF SockState, Prompting
<1>7. pc' = "handle" => cursor' = cursor
  BY <1>5, StaysAtCursor
<1>8. /\ request'[id].state = st /\ request'[id].session = s
      /\ request'[id].client = r.client
      /\ \A x \in requests : x # id => request'[x] = request[x]
  <2>1. request' = [request EXCEPT ![id] = [r EXCEPT !.state = st, !.session = s]]
    BY <1>3, <1>5
  <2>2. \A k \in Request : LET e == [k EXCEPT !.state = st, !.session = s]
                           IN  e.state = st /\ e.session = s /\ e.client = k.client
    BY DEF Request
  <2> HIDE DEF id, st, s
  <2> QED BY <1>3, <2>1, <2>2
<1>9. r.client = None \/ IsWebsocket(r.client)
  BY <1>3 DEF SafetyInv, KindsAreKept
<1>10. set \in [SockId -> Sock] /\ sock' = [set EXCEPT
           ![s] = [NewSession(r.target, o) EXCEPT !.state = st]]
  BY <1>5, <1>6, SetStateTypes DEF SafetyInv, TypeInv, TypeOK
<1>11. \A x \in SockId : /\ set[x].kind = sock[x].kind /\ set[x].pwfail = sock[x].pwfail
                         /\ set[x].state = IF x \in {r.client} THEN st ELSE sock[x].state
  BY SetStateEffect DEF SafetyInv, TypeInv, TypeOK
<1> HIDE DEF set, s, st, r, id
<1>12. /\ sock'[s].kind = "session" /\ sock'[s].state = st /\ sock'[s].pwfail = o.pwfail
       /\ \A x \in SockId : x # s => sock'[x] = set[x]
  BY <1>4, <1>10 DEF NewSession
<1>13. /\ \A x \in 1..lastSock :
             /\ sock'[x].kind = sock[x].kind /\ sock'[x].pwfail = sock[x].pwfail
             /\ sock[x].kind = "session" => sock'[x].state = sock[x].state
       /\ \A x \in SockId : x \in 1..lastSock \/ x = s \/ sock'[x].pwfail = sock[x].pwfail
  <2>1. \A x \in 1..lastSock : x \in SockId /\ x # s /\ x # None
    BY <1>4 DEF None
  <2>2. \A x \in 1..lastSock : sock[x].kind = "session" => x # r.client
    BY <1>9, <2>1 DEF IsWebsocket
  <2> QED BY <1>11, <1>12, <2>1, <2>2
<1>14. st \in {o.state, "ERROR"} /\ RecordAttempt(id, r, s, o) /\ o \in OpenOutcomes(r)
  BY <1>5 DEF st, s, r, id
<1> QED BY <1>1, <1>2, <1>3, <1>4, <1>7, <1>8, <1>9, <1>12, <1>13, <1>14, OpenSafe DEF s

-----------------------------------------------------------------------------
(* Sessions that are authenticated *)

\* A user's answer goes to the one session that the request waits on, which is
\* trusted and has failures left.
LEMMA AuthenticateSafe ==
    ASSUME SafetyInv, TypeInv', pc = "handle", rbuf # <<>>, IsWebsocket(cursor),
           NEW id \in requests, request[id].state \in Prompting, NEW r \in Request,
           r.session = request[id].session, r.client = request[id].client,
           NEW trust \in BOOLEAN, NoData => trust \/ r.session \in trusted,
           Authenticate(id, r, trust), UNCHANGED <<socks, requests, lastSock>>
    PROVE  SafetyInv'
<1> DEFINE s == r.session
<1>1. /\ s \in Sessions /\ s \in SockId /\ IsSession(s) /\ s # None
      /\ sock \in [SockId -> Sock] /\ requests \subseteq RequestId /\ id \in RequestId
      /\ request \in [RequestId -> Request] /\ socks \subseteq SockId /\ 1..lastSock \subseteq SockId
  BY ActiveSession, RequestsInRange, SocksInRange, Bounds
  DEF Active, SafetyInv, TypeInv, TypeOK, SocksOK, RequestsOK, IsSession, None, SockId
<1>2. r.client = None \/ IsWebsocket(r.client)
  BY DEF SafetyInv, KindsAreKept
<1>3. sock[s].pwfail \in Nat /\ sock[s].pwfail <= MaxPwfail
  BY <1>1 DEF Sock, SafetyInv, FailuresCounted
<1>4. PICK o \in AuthOutcomes(sock[s].pwfail, r.passphrase, r.password, r.target, trust) :
      \E c \in IF o.state = "ESTABLISHED" THEN ChannelFor(s) ELSE {None} :
         /\ request' = [request EXCEPT ![id] = [r EXCEPT !.state = o.state,
                                               !.channel = IF c = None THEN @ ELSE c]]
         /\ sock' = [SetState({r.client, s}, o.state) EXCEPT ![s].pwfail = o.pwfail]
         /\ RecordAttempt(id, r, s, o)
         /\ SendRpc(id, c, s, r.client)
         /\ IF o.crash THEN Crash ELSE Consume
  BY DEF Authenticate
<1>5. PICK c :
         /\ request' = [request EXCEPT ![id] = [r EXCEPT !.state = o.state,
                                               !.channel = IF c = None THEN @ ELSE c]]
         /\ sock' = [SetState({r.client, s}, o.state) EXCEPT ![s].pwfail = o.pwfail]
         /\ RecordAttempt(id, r, s, o)
         /\ Crash \/ Consume
  BY <1>4
<1>6. /\ o.state \in {"PASSPHRASE", "PASSWORD", "FAILED", "ESTABLISHED"}
      /\ o.trust = trust /\ o.pwfail \in {sock[s].pwfail, sock[s].pwfail + 1}
      /\ o.pwfail = sock[s].pwfail \/ o.state = "FAILED" \/ sock[s].pwfail + 1 <= MaxPwfail
  BY <1>3, <1>4, AuthOutcome
<1>7. /\ trusted' = IF o.trust THEN trusted \cup {s} ELSE trusted
      /\ authStarted' = IF o.auth THEN authStarted \cup {s} ELSE authStarted
      /\ authed' = IF o.state = "ESTABLISHED" THEN authed \cup {s} ELSE authed
  BY <1>5 DEF RecordAttempt
<1>8. /\ request'[id].state = o.state /\ request'[id].session = s
      /\ request'[id].client = r.client
      /\ \A q \in requests : q # id => request'[q] = request[q]
  <2>1. \A k \in Request :
           LET e == [k EXCEPT !.state = o.state, !.channel = IF c = None THEN @ ELSE c]
           IN  e.state = o.state /\ e.session = k.session /\ e.client = k.client
    BY DEF Request
  <2> QED BY <1>1, <1>5, <2>1
<1> DEFINE set == SetState({r.client, s}, o.state)
<1>9. /\ set \in [SockId -> Sock] /\ sock' = [set EXCEPT ![s].pwfail = o.pwfail]
      /\ \A x \in SockId : /\ set[x].kind = sock[x].kind /\ set[x].pwfail = sock[x].pwfail
                           /\ set[x].state = IF x \in {r.client, s} THEN o.state
                                             ELSE sock[x].state
  <2>1. o.state \in SockState
    BY <1>6 DEF SockState
  <2> QED BY <1>5, <2>1, SetStateTypes, SetStateEffect DEF SafetyInv, TypeInv, TypeOK
<1> HIDE DEF set, s
<1>10. /\ sock'[s].kind = "session" /\ sock'[s].state = o.state /\ sock'[s].pwfail = o.pwfail
       /\ \A x \in SockId : x # s => sock'[x] = set[x]
  <2>1. \A k \in Sock : LET e == [k EXCEPT !.pwfail = o.pwfail]
                        IN  e.kind = k.kind /\ e.state = k.state /\ e.pwfail = o.pwfail
    BY DEF Sock
  <2> QED BY <1>1, <1>9, <2>1 DEF IsSession
<1>11. \A x \in SockId : sock'[x].kind = sock[x].kind
  BY <1>1, <1>9, <1>10 DEF IsSession
<1>12. \A x \in SockId : x # s /\ sock[x].kind = "session" => sock'[x].state = sock[x].state
  <2>1. \A x \in SockId : x # None
    BY DEF SockId, None
  <2> QED BY <1>2, <1>9, <1>10, <2>1 DEF IsWebsocket
<1>13. \A x \in SockId : x # s => sock'[x].pwfail = sock[x].pwfail
  BY <1>9, <1>10
<1>14. \A q \in requests : q # id => request[q].session # s
  BY <1>1 DEF SafetyInv, SessionsAreOwn, s
<1>15. ASSUME NEW q \in requests, q # id, request[q].state \in Active
       PROVE  /\ request[q].session \in Sessions /\ request[q].session \in SockId
              /\ sock[request[q].session].state \in {request[q].state, "FAILED"}
              /\ sock[request[q].session].kind = "session"
              /\ request[q].session # s
  BY <1>14, <1>15, ActiveSession DEF Sessions
<1>16. KindsAreKept'
  <2>1. pc' = "handle" => cursor' \in 1..lastSock' /\ sock'[cursor'].kind = "websocket"
    BY <1>1, <1>5, <1>11, StaysAtCursor DEF IsWebsocket
  <2>2. ASSUME NEW q \in requests
        PROVE  /\ \/ request'[q].client = None
                  \/ /\ request'[q].client \in 1..lastSock
                     /\ sock'[request'[q].client].kind = "websocket"
               /\ \/ request'[q].session = None
                  \/ /\ request'[q].session \in 1..lastSock
                     /\ sock'[request'[q].session].kind = "session"
    BY <1>1, <1>2, <1>8, <1>11 DEF SafetyInv, KindsAreKept, IsWebsocket, IsSession
  <2> QED BY <2>1, <2>2 DEF KindsAreKept, IsWebsocket, IsSession
<1>17. SessionsAreOwn'
  BY <1>8, <1>14 DEF SafetyInv, SessionsAreOwn
<1>18. StatesAgree'
  <2>1. ASSUME NEW q \in requests, request'[q].state \in Active
        PROVE  /\ request'[q].session \in socks /\ sock'[request'[q].session].kind = "session"
               /\ sock'[request'[q].session].state \in {request'[q].state, "FAILED"}
    BY <1>1, <1>8, <1>10, <1>11, <1>12, <1>15, <2>1 DEF Sessions
  <2> QED BY <2>1, PromptStates DEF StatesAgree, Sessions, Active
<1>19. FailuresCounted'
  <2>1. ASSUME NEW x \in SockId PROVE sock'[x].pwfail <= MaxPwfail + 1
    <3>1. o.pwfail <= MaxPwfail + 1
      BY <1>3, <1>6, Bounds
    <3> QED BY <1>10, <1>13, <3>1 DEF SafetyInv, FailuresCounted
  <2>2. ASSUME NEW q \in requests, request'[q].state \in Prompting
        PROVE  sock'[request'[q].session].pwfail <= MaxPwfail
    <3>1. CASE q = id
      <4>1. o.state # "FAILED"
        BY <1>8, <2>2, <3>1 DEF Prompting
      <4>2. o.pwfail <= MaxPwfail
        BY <1>3, <1>6, <4>1, Bounds
      <4> QED BY <1>8, <1>10, <3>1, <4>2
    <3>2. CASE q # id
      BY <1>8, <1>13, <1>15, <2>2, <3>2 DEF SafetyInv, FailuresCounted, Active
    <3> QED BY <3>1, <3>2
  <2> QED BY <2>1, <2>2 DEF FailuresCounted
<1>20. ASSUME NoData PROVE TrustInv' /\ AuthedInv'
  <2>1. TrustInv /\ AuthedInv /\ s \in trusted'
    BY <1>6, <1>7, <1>20 DEF SafetyInv, s
  <2>2. NoCredentialsBeforeTrust'
    BY <1>7, <2>1 DEF TrustInv, NoCredentialsBeforeTrust
  <2>3. TrustIsGiven'
    BY <1>7, <1>8, <2>1 DEF TrustInv, TrustIsGiven
  <2>4. ErrorsAreDetached'
    BY <1>6, <1>8, <2>1 DEF AuthedInv, ErrorsAreDetached
  <2>5. EstablishedRequests'
    BY <1>7, <1>8, <2>1 DEF AuthedInv, EstablishedRequests
  <2>6. EstablishedIsAuthenticated'
    <3>1. ASSUME NEW x \in socks, sock'[x].kind = "session", sock'[x].state = "ESTABLISHED"
          PROVE  x \in authed'
      <4>1. CASE x = s
        BY <1>7, <1>10, <3>1, <4>1
      <4>2. CASE x # s
        BY <1>1, <1>7, <1>11, <1>12, <2>1, <3>1, <4>2
        DEF AuthedInv, EstablishedIsAuthenticated, Sessions
      <4> QED BY <4>1, <4>2
    <3> QED BY <3>1 DEF EstablishedIsAuthenticated, Sessions
  <2> QED BY <2>2, <2>3, <2>4, <2>5, <2>6 DEF TrustInv, AuthedInv
<1> QED BY <1>16, <1>17, <1>18, <1>19, <1>20 DEF SafetyInv, NoData

LEMMA HandleAnswerSafe ==
    ASSUME SafetyInv, NEW w \in SockId,
           HandleHostkeyAccepted(w) \/ HandlePassphrase(w) \/ HandlePassword(w)
    PROVE  SafetyInv'
<1> DEFINE r == request[Addressed]
<1>1. TypeInv'
  BY TypeInvNext DEF Next, Daemon, Pass, HandleRequest, SafetyInv
<1>2. /\ pc = "handle" /\ rbuf # <<>> /\ IsWebsocket(cursor)
      /\ UNCHANGED <<socks, requests, lastSock>>
  <2>1. /\ UNCHANGED <<socks, requests, lastSock>>
        /\ \E ops : Handling(w, ops)
    BY DEF HandleHostkeyAccepted, HandlePassphrase, HandlePassword, Awaiting
  <2> QED BY <2>1, HandlingFacts
<1>3. \E op \in PromptOp : Waits(Addressed, op)
  BY DEF HandleHostkeyAccepted, HandlePassphrase, HandlePassword, Awaiting, PromptOp
<1>4. Addressed \in requests /\ r \in Request /\ r.state \in Prompting
  BY <1>2, <1>3, WaitingTypes DEF SafetyInv
<1>5. CASE HandleHostkeyAccepted(w)
  <2>1. Authenticate(Addressed, r, TRUE)
    BY <1>5 DEF HandleHostkeyAccepted
  <2> QED BY <1>1, <1>2, <1>4, <2>1, AuthenticateSafe
<1>6. CASE HandlePassphrase(w) \/ HandlePassword(w)
  <2>1. r.state \in {"PASSPHRASE", "PASSWORD"}
    <3>1. \E op \in {"psphrase", "psword"} : PromptFor[r.state] = op
      BY <1>6 DEF HandlePassphrase, HandlePassword, Awaiting, Waits
    <3>2. PromptFor["HOSTKEY"] = "hostkey"
      BY DEF PromptFor
    <3> QED BY <1>4, <3>1, <3>2 DEF Prompting
  <2>2. NoData => r.session \in trusted
    BY <1>4, <2>1 DEF SafetyInv, TrustInv, TrustIsGiven
  <2>3. Incoming.arg \in Credential
    BY <1>2, <1>6, IncomingTypes DEF HandlePassphrase, HandlePassword, Awaiting, Handling,
                                     SafetyInv, TypeInv, TypeOK, Message
  <2>4. PICK q \in {[r EXCEPT !.passphrase = Incoming.arg], [r EXCEPT !.password = Incoming.arg]} :
            Authenticate(Addressed, q, FALSE)
    BY <1>6 DEF HandlePassphrase, HandlePassword
  <2> HIDE DEF r
  <2>5. q \in Request /\ q.session = r.session /\ q.client = r.client
    BY <1>4, <2>3 DEF Request
  <2> QED BY <1>1, <1>2, <1>4, <2>2, <2>4, <2>5, AuthenticateSafe DEF r
<1> QED BY <1>5, <1>6

-----------------------------------------------------------------------------
(* The theorems *)

LEMMA SafetyInvNext == SafetyInv /\ [Next]_vars => SafetyInv'
<1> SUFFICES ASSUME SafetyInv, [Next]_vars
             PROVE  SafetyInv'
  OBVIOUS
<1>1. CASE Environment \/ UNCHANGED vars
  BY <1>1, EnvironmentSafe
<1>2. CASE PrepFails \/ ClosesVisited
  BY <1>2, CloseSafe
<1>3. CASE Poll
  <2>1. TypeInv'
    BY TypeInvNext DEF SafetyInv
  <2> QED BY <1>3, <2>1, StillStep DEF Poll, memory, lasts, history
<1>4. CASE EndPassIdle \/ EndPassAccepts
  BY <1>4, EndPassSafe
<1>5. ASSUME NEW c \in ChannelId, ChannelInput(c)
      PROVE  SafetyInv'
  BY <1>5, InputSafe
<1>6. ASSUME NEW s \in SockId, HandleRequest(s)
      PROVE  SafetyInv'
  BY <1>6, NewRequestSafe, HandleEndSafe, HandleDataRefusedSafe, HandleRpcOpenSafe,
     HandleDataOpensSafe, HandleAnswerSafe DEF HandleRequest
<1>7. ASSUME NEW s \in SockId,
             \/ WebsocketReceives(s) \/ WebsocketDisconnects(s) \/ WebsocketReadError(s)
             \/ WebsocketMispolled(s) \/ VisitFailed(s) \/ VisitSession(s)
             \/ SessionPoller(s)
      PROVE  SafetyInv'
  BY <1>7, VisitSafe
<1> QED BY <1>1, <1>2, <1>3, <1>4, <1>5, <1>6, <1>7 DEF Next, Daemon, Pass

LEMMA SafetyInvInit == Init => SafetyInv
<1> SUFFICES ASSUME Init
             PROVE  SafetyInv
  OBVIOUS
<1>1. TypeInv
  BY TypeInvInit
<1>2. FailuresCounted
  <2>1. \A s \in SockId : sock[s].pwfail = 0
    BY DEF Init, NewWebsocket
  <2>2. 0 <= MaxPwfail + 1
    BY Bounds
  <2> QED BY <2>1, <2>2 DEF Init, FailuresCounted
<1> QED BY <1>1, <1>2 DEF Init, SafetyInv, KindsAreKept, SessionsAreOwn, StatesAgree,
        Sessions, TrustInv, NoCredentialsBeforeTrust, TrustIsGiven, AuthedInv,
        ErrorsAreDetached, EstablishedRequests, EstablishedIsAuthenticated

LEMMA SafetyInvariant == Spec => []SafetyInv
BY SafetyInvInit, SafetyInvNext, PTL DEF Spec

\* However many clients and requests there are, whatever they send and whatever
\* fails: the session of a request that waits for its user or runs is on the list
\* and in the state of the request, or it has failed.  mx_request_set_state writes
\* sockets that other requests point to as well, and the health check does.
THEOREM SessionsStayWithTheirRequests == Spec => []StatesAgree
<1>1. SafetyInv => StatesAgree
  BY DEF SafetyInv
<1> QED BY <1>1, SafetyInvariant, PTL

\* Whatever happens, mx_session_check_password tries no session more than
\* MAX_PWFAIL + 1 times.
THEOREM PasswordTriesAreBounded == Spec => []PasswordAttemptsBounded
<1>1. SafetyInv => PasswordAttemptsBounded
  BY SocksInRange DEF SafetyInv, FailuresCounted, PasswordAttemptsBounded, Sessions, TypeInv, TypeOK
<1> QED BY <1>1, SafetyInvariant, PTL

\* When no client sends data messages, mx_session_check_auth is not reached for a
\* session before its host key matched or was accepted.  With data messages this is
\* false: MixerClaims shows how.
THEOREM TrustComesFirst ==
    ASSUME "data" \notin Ops
    PROVE  Spec => []NoCredentialsBeforeTrust
<1>1. SafetyInv => NoCredentialsBeforeTrust
  BY DEF SafetyInv, TrustInv, NoData
<1> QED BY <1>1, SafetyInvariant, PTL

\* When no client sends data messages, a session on which mx_request_start_rpc
\* would run an RPC has been authenticated, although the health check and the end of
\* an RPC may mark a session established.
THEOREM EstablishedMeansAuthenticated ==
    ASSUME "data" \notin Ops
    PROVE  Spec => []EstablishedIsAuthenticated
<1>1. SafetyInv => EstablishedIsAuthenticated
  BY DEF SafetyInv, AuthedInv, NoData
<1> QED BY <1>1, SafetyInvariant, PTL
=============================================================================
