---------------------------- MODULE MuxerSafety ----------------------------
(***************************************************************************)
(* Theorems about the muxer of CLIRA, for every number of RPCs, websockets *)
(* and data messages and every way to cut the stream of frames: its types, *)
(* one end for each RPC, that it implements RpcService, the order of       *)
(* authinit and RPCs, and that replies are whole.                          *)
(***************************************************************************)
EXTENDS Muxer, SequenceTheorems, FiniteSetTheorems, TLAPS

-----------------------------------------------------------------------------
(* Division *)

LEMMA TimesMono ==
    ASSUME NEW d \in Nat, NEW a \in Int, NEW b \in Int, a <= b
    PROVE  d * a <= d * b
<1>1. d * b = d * a + d * (b - a)
  OBVIOUS
<1>2. d * (b - a) >= 0
  OBVIOUS
<1> QED BY <1>1, <1>2

LEMMA Division ==
    ASSUME NEW d \in Nat \ {0}, NEW n \in Nat
    PROVE  /\ n % d \in 0..(d - 1) /\ n \div d \in Nat
           /\ n = d * (n \div d) + (n % d)
<1>1. n % d \in 0..(d - 1)
  OBVIOUS
<1>2. n \div d \in Nat
  OBVIOUS
<1>3. n = d * (n \div d) + (n % d)
  OBVIOUS
<1> QED BY <1>1, <1>2, <1>3

LEMMA DivisionUnique ==
    ASSUME NEW d \in Nat \ {0}, NEW q \in Nat, NEW r \in 0..(d - 1)
    PROVE  (d * q + r) % d = r
<1> DEFINE n == d * q + r
           p == n \div d
           t == n % d
<1>1. n \in Nat
  OBVIOUS
<1>2. p \in Nat /\ t \in 0..(d - 1) /\ d * q + r = d * p + t
  <2> HIDE DEF n
  <2>1. n = d * q + r
    BY DEF n
  <2> QED BY <1>1, <2>1, Division
<1> HIDE DEF p, t
<1>3. ~ p < q
  <2> SUFFICES ASSUME p < q PROVE FALSE
    OBVIOUS
  <2>1. d * (p + 1) <= d * q
    BY <1>2, TimesMono
  <2>2. d * (p + 1) = d * p + d
    BY <1>2
  <2> QED BY <1>2, <2>1, <2>2
<1>4. ~ q < p
  <2> SUFFICES ASSUME q < p PROVE FALSE
    OBVIOUS
  <2>1. d * (q + 1) <= d * p
    BY <1>2, TimesMono
  <2>2. d * (q + 1) = d * q + d
    BY <1>2
  <2> QED BY <1>2, <2>1, <2>2
<1>5. p = q /\ t = r
  BY <1>2, <1>3, <1>4
<1> QED BY <1>5 DEF t

LEMMA ModShift ==
    ASSUME NEW d \in Nat \ {0}, NEW q \in Nat, NEW i \in Nat
    PROVE  (d * q + i) % d = i % d
<1> DEFINE r == i % d
           p == i \div d
<1>1. p \in Nat /\ r \in 0..(d - 1) /\ i = d * p + r
  BY Division
<1> HIDE DEF p, r
<1>2. d * q + i = d * (q + p) + r
  BY <1>1
<1>3. (d * (q + p) + r) % d = r
  <2>1. q + p \in Nat
    BY <1>1
  <2> QED BY <1>1, <2>1, DivisionUnique
<1> QED BY <1>2, <1>3 DEF r

LEMMA ModSmall ==
    ASSUME NEW d \in Nat \ {0}, NEW i \in 0..(d - 1)
    PROVE  i % d = i
<1>1. (d * 0 + i) % d = i
  BY DivisionUnique
<1> QED BY <1>1

-----------------------------------------------------------------------------
(* The k-th of a set of positions *)

Below(S, i) == {j \in S : j <= i}

LEMMA RankOnto ==
    ASSUME NEW n \in Nat, NEW S \in SUBSET (1..n), NEW k \in 1..Cardinality(S)
    PROVE  \E i \in S : Cardinality(Below(S, i)) = k
<1> DEFINE c    == Cardinality(S)
           rank == [i \in S |-> Cardinality(Below(S, i))]
<1>1. IsFiniteSet(S) /\ c \in Nat
  <2>1. IsFiniteSet(1..n)
    BY FS_Interval
  <2>2. IsFiniteSet(S)
    BY <2>1, FS_Subset
  <2> QED BY <2>2, FS_CardinalityType
<1>2. \A i \in S : IsFiniteSet(Below(S, i)) /\ Cardinality(Below(S, i)) \in 1..c
  <2> TAKE i \in S
  <2>1. Below(S, i) \in SUBSET S /\ i \in Below(S, i)
    BY DEF Below
  <2>2. IsFiniteSet(Below(S, i)) /\ Cardinality(Below(S, i)) <= c
    BY <1>1, <2>1, FS_Subset
  <2>3. Cardinality(Below(S, i)) \in Nat
    BY <2>2, FS_CardinalityType
  <2>4. Cardinality(Below(S, i)) # 0
    BY <2>1, <2>2, FS_EmptySet
  <2> QED BY <1>1, <2>2, <2>3, <2>4
<1>3. \A i, j \in S : i < j => Cardinality(Below(S, i)) < Cardinality(Below(S, j))
  <2> SUFFICES ASSUME NEW i \in S, NEW j \in S, i < j
               PROVE  Cardinality(Below(S, i)) < Cardinality(Below(S, j))
    OBVIOUS
  <2>1. Below(S, i) \in SUBSET Below(S, j) /\ j \in Below(S, j) \ Below(S, i)
    <3>1. S \subseteq Nat
      OBVIOUS
    <3>2. \A x \in S : x <= i => x <= j
      BY <3>1
    <3>3. j \in S /\ j <= j /\ ~ j <= i
      BY <3>1
    <3> QED BY <3>2, <3>3 DEF Below
  <2>2. Cardinality(Below(S, i)) <= Cardinality(Below(S, j))
    BY <1>2, <2>1, FS_Subset
  <2>3. Cardinality(Below(S, j)) # Cardinality(Below(S, i))
    <3>1. Below(S, j) # Below(S, i)
      BY <2>1
    <3> QED BY <1>2, <2>1, <3>1, FS_Subset
  <2> QED BY <1>2, <2>2, <2>3
<1>4. rank \in Injection(S, 1..c)
  <2>1. rank \in [S -> 1..c]
    BY <1>2
  <2>2. \A i, j \in S : rank[i] = rank[j] => i = j
    BY <1>2, <1>3
  <2> HIDE DEF rank
  <2> QED BY <2>1, <2>2 DEF Injection, IsInjective
<1>5. IsFiniteSet(1..c) /\ Cardinality(1..c) = c
  BY <1>1, FS_Interval
<1>6. rank \in Surjection(S, 1..c)
  <2> HIDE DEF rank
  <2> QED BY <1>1, <1>4, <1>5, FS_Injection
<1>7. \E i \in S : rank[i] = k
  <2> HIDE DEF rank
  <2> QED BY <1>6 DEF Surjection
<1> QED BY <1>7

LEMMA NthIsThere ==
    ASSUME NEW n \in Nat, NEW S \in SUBSET (1..n), NEW k \in 1..Cardinality(S)
    PROVE  Nth(S, k) \in S /\ Cardinality(Below(S, Nth(S, k))) = k
<1>1. \E i \in S : Cardinality(Below(S, i)) = k
  BY RankOnto
<1> QED BY <1>1 DEF Nth, Below

\* The position that is before no other is the last.
LEMMA NthOfGreatest ==
    ASSUME NEW n \in Nat, NEW S \in SUBSET (1..n), NEW k \in 1..Cardinality(S),
           \A j \in S : j <= Nth(S, k)
    PROVE  k = Cardinality(S)
<1>1. Below(S, Nth(S, k)) = S
  BY DEF Below
<1> QED BY <1>1, NthIsThere

LEMMA NthOfLast ==
    ASSUME NEW n \in Nat, NEW S \in SUBSET (1..n), S # {}
    PROVE  /\ Cardinality(S) \in Nat \ {0}
           /\ Nth(S, Cardinality(S)) \in S
           /\ \A j \in S : j <= Nth(S, Cardinality(S))
<1>1. IsFiniteSet(S)
  <2>1. IsFiniteSet(1..n)
    BY FS_Interval
  <2> QED BY <2>1, FS_Subset
<1>2. Cardinality(S) \in Nat \ {0}
  BY <1>1, FS_CardinalityType, FS_EmptySet
<1> DEFINE i == Nth(S, Cardinality(S))
<1>3. i \in S /\ Cardinality(Below(S, i)) = Cardinality(S)
  <2>1. Cardinality(S) \in 1..Cardinality(S)
    BY <1>2
  <2> QED BY <2>1, NthIsThere
<1> HIDE DEF i
<1>4. Below(S, i) \in SUBSET S
  BY DEF Below
<1>5. Below(S, i) = S
  BY <1>1, <1>3, <1>4, FS_Subset
<1>6. \A j \in S : j <= i
  BY <1>5 DEF Below
<1> QED BY <1>2, <1>3, <1>6 DEF i

-----------------------------------------------------------------------------
(* Types *)

\* Only an authinit has a muxid that is not that of an RPC.
SentMessage == {m \in Message : m.op = "authinit" <=> m.muxid \notin Rpc}
SentPiece   == {p \in Piece : p.op = "authinit" <=> p.muxid \notin Rpc}

SocketTypes ==
    /\ ws \in Socket \cup {None} /\ opening \in BOOLEAN /\ opened \in BOOLEAN
    /\ opening => ws \in Socket
    /\ pendingMessages \in Seq(SentMessage)
    /\ muxMap \subseteq Rpc \cup {Auth, None}
    /\ lastSocket \in Socket
    /\ ready \in [Socket -> {"none", "connecting", "open", "closing", "closed"}]
    /\ up \in [Socket -> Seq(SentMessage)]

StreamTypes ==
    /\ data \in Seq(SentPiece) /\ Len(data) < FrameLen
    /\ reading = IF data = <<>> THEN 0 ELSE FrameLen - Len(data)

PageTypes ==
    /\ authmuxid \in {Auth, None} /\ authwebsocketid \in Socket \cup {None}
    /\ queue \in Seq(Rpc)
    /\ lastRpc \in 0..MaxRpc /\ sentData \in 0..MaxData /\ dropped \in BOOLEAN
    /\ told \in [Rpc -> Seq(Final \cup {"reply"})]

MixerTypes ==
    /\ served \in [Socket -> SUBSET Nat]
    /\ down \in [Socket -> Seq(SentPiece)] /\ replied \in [Rpc -> 0..MaxReply]

TypeInv == SocketTypes /\ StreamTypes /\ PageTypes /\ MixerTypes

LEMMA Constants ==
    /\ MaxRpc \in Nat /\ MaxData \in Nat /\ MaxReply \in Nat
    /\ MaxSocket \in Nat \ {0} /\ FrameLen \in Nat \ {0, 1}
    /\ 1 \in Socket /\ None \notin Socket /\ None \notin Rpc /\ Auth \notin Rpc
BY MuxerAssumption DEF Socket, Rpc, None, Auth

LEMMA TypeInvIsTyped == TypeInv => TypeOK
<1> SUFFICES ASSUME TypeInv PROVE TypeOK
  OBVIOUS
<1>1. pendingMessages \in Seq(Message) /\ data \in Seq(Piece)
  <2>1. SentMessage \subseteq Message /\ SentPiece \subseteq Piece
    BY DEF SentMessage, SentPiece
  <2> QED BY <2>1, SeqMonotonic DEF TypeInv, SocketTypes, StreamTypes
<1>2. up \in [Socket -> Seq(Message)] /\ down \in [Socket -> Seq(Piece)]
  <2>1. SentMessage \subseteq Message /\ SentPiece \subseteq Piece
    BY DEF SentMessage, SentPiece
  <2>2. Seq(SentMessage) \subseteq Seq(Message) /\ Seq(SentPiece) \subseteq Seq(Piece)
    BY <2>1, SeqMonotonic
  <2> QED BY <2>2 DEF TypeInv, SocketTypes, MixerTypes
<1> QED BY <1>1, <1>2 DEF TypeInv, SocketTypes, StreamTypes, PageTypes, MixerTypes, TypeOK

LEMMA Messages ==
    /\ \A r \in Rpc : [op |-> "rpc", muxid |-> r] \in SentMessage
    /\ \A r \in Rpc : [op |-> "data", muxid |-> r] \in SentMessage
    /\ \A id \in {Auth, None} : Authinit(id) \in SentMessage
BY Constants DEF SentMessage, Message, Authinit

LEMMA Frames ==
    ASSUME NEW id, NEW op
    PROVE  /\ id \in Rpc /\ op \in {"reply", "complete", "error"}
              => Frame(op, id) \in Seq(SentPiece)
           /\ id \in {Auth, None} => Frame("authinit", id) \in Seq(SentPiece)
           /\ Len(Frame(op, id)) = FrameLen
           /\ \A i \in 1..FrameLen :
                 Frame(op, id)[i] = [op |-> op, muxid |-> id, head |-> i = 1]
BY Constants DEF Frame, SentPiece, Piece

LEMMA InitTypes == Init => TypeInv
<1> SUFFICES ASSUME Init PROVE TypeInv
  OBVIOUS
<1>1. SocketTypes
  <2>1. <<Authinit(Auth)>> \in Seq(SentMessage)
    BY Messages
  <2>2. ready \in [Socket -> {"none", "connecting", "open", "closing", "closed"}]
    BY DEF Init
  <2>3. up \in [Socket -> Seq(SentMessage)]
    BY DEF Init
  <2> QED BY <2>1, <2>2, <2>3, Constants DEF Init, SocketTypes
<1>2. StreamTypes
  BY Constants DEF Init, StreamTypes
<1>3. PageTypes
  <2>1. told \in [Rpc -> Seq(Final \cup {"reply"})]
    BY DEF Init
  <2>2. queue \in Seq(Rpc)
    BY EmptySeq DEF Init
  <2>5. dropped \in BOOLEAN
    BY DEF Init
  <2>3. lastRpc \in 0..MaxRpc /\ sentData \in 0..MaxData
    BY Constants DEF Init
  <2>4. authmuxid \in {Auth, None} /\ authwebsocketid \in Socket \cup {None}
    BY DEF Init
  <2> QED BY <2>1, <2>2, <2>3, <2>4, <2>5 DEF PageTypes
<1>4. MixerTypes
  BY Constants DEF Init, MixerTypes
<1> QED BY <1>1, <1>2, <1>3, <1>4 DEF TypeInv

LEMMA SendTypes ==
    ASSUME SocketTypes, NEW ms \in Seq(SentMessage), NEW map \in SUBSET (Rpc \cup {Auth, None}),
           authmuxid \in {Auth, None}, SendMessages(ms, map)
    PROVE  SocketTypes'
<1>1. CASE IsOpen
  <2>1. ws \in Socket
    BY <1>1 DEF SocketTypes, IsOpen
  <2>2. up[ws] \o ms \in Seq(SentMessage)
    BY <2>1, ConcatProperties DEF SocketTypes
  <2>3. up' \in [Socket -> Seq(SentMessage)]
    BY <1>1, <2>1, <2>2 DEF SocketTypes, SendMessages
  <2> QED BY <1>1, <2>3 DEF SocketTypes, SendMessages
<1>2. CASE ~ IsOpen /\ opening
  <2>1. pendingMessages \o ms \in Seq(SentMessage)
    BY ConcatProperties DEF SocketTypes
  <2> QED BY <1>2, <2>1 DEF SocketTypes, SendMessages
<1>3. CASE ~ IsOpen /\ ~ opening
  <2>1. lastSocket' \in Socket /\ lastSocket' # None
    BY <1>3, Constants DEF SocketTypes, SendMessages, Socket, None
  <2>2. pendingMessages' \in Seq(SentMessage)
    <3>1. <<Authinit(authmuxid)>> \in Seq(SentMessage)
      BY Messages
    <3>2. pendingMessages \o <<Authinit(authmuxid)>> \o ms \in Seq(SentMessage)
      BY <3>1, ConcatProperties DEF SocketTypes
    <3> QED BY <1>3, <3>2 DEF SendMessages
  <2> QED BY <1>3, <2>1, <2>2 DEF SocketTypes, SendMessages
<1> QED BY <1>1, <1>2, <1>3

-----------------------------------------------------------------------------
(* The frames of a message *)

LEMMA FramesOf ==
    ASSUME NEW s \in Seq(SentPiece)
    PROVE  LET F == WholeFrames(s)
           IN  /\ F \in Seq(SentPiece)
               /\ Len(F) = IF Aligned(s) THEN Len(s) \div FrameLen ELSE 0
               /\ \A i \in 1..Len(F) : /\ FrameLen * (i - 1) + 1 \in 1..Len(s)
                                       /\ F[i] = s[FrameLen * (i - 1) + 1]
<1> DEFINE q == Len(s) \div FrameLen
<1>1. q \in Nat /\ FrameLen * q <= Len(s)
  <2>1. Len(s) \in Nat /\ FrameLen \in Nat \ {0}
    BY Constants
  <2>2. /\ q \in Nat /\ Len(s) % FrameLen \in 0..(FrameLen - 1)
        /\ Len(s) = FrameLen * q + (Len(s) % FrameLen)
    BY <2>1, Division
  <2>3. FrameLen * q \in Nat
    BY <2>2, Constants
  <2> QED BY <2>1, <2>2, <2>3
<1>2. \A i \in 1..q : FrameLen * (i - 1) + 1 \in 1..Len(s)
  <2> TAKE i \in 1..q
  <2> HIDE DEF q
  <2>1. FrameLen * i <= FrameLen * q
    BY <1>1, TimesMono, Constants
  <2>2. FrameLen * (i - 1) = FrameLen * i - FrameLen
    BY <1>1, Constants
  <2>3. FrameLen * (i - 1) \in Nat
    BY <1>1, Constants
  <2>4. Len(s) \in Nat /\ FrameLen \in Nat /\ FrameLen > 1 /\ FrameLen * i \in Nat /\ FrameLen * q \in Nat
    BY <1>1, Constants
  <2> QED BY <1>1, <2>1, <2>2, <2>3, <2>4
<1>3. CASE Aligned(s)
  <2>1. WholeFrames(s) = [i \in 1..q |-> s[FrameLen * (i - 1) + 1]]
    BY <1>3 DEF WholeFrames
  <2> HIDE DEF q
  <2>2. \A i \in 1..q : s[FrameLen * (i - 1) + 1] \in SentPiece
    BY <1>2, ElementOfSeq
  <2> QED BY <1>1, <1>2, <1>3, <2>1, <2>2 DEF q
<1>4. CASE ~ Aligned(s)
  BY <1>4 DEF WholeFrames
<1> QED BY <1>3, <1>4

\* What is behind the last whole frame, as Dispatch keeps it
Rest(s) == IF Aligned(s) THEN SubSeq(s, FrameLen * Len(WholeFrames(s)) + 1, Len(s)) ELSE <<>>

LEMMA RestOf ==
    ASSUME NEW s \in Seq(SentPiece)
    PROVE  /\ Rest(s) \in Seq(SentPiece) /\ Len(Rest(s)) < FrameLen
           /\ Missing(s) = IF Rest(s) = <<>> THEN 0 ELSE FrameLen - Len(Rest(s))
           /\ Aligned(s) =>
                LET k == FrameLen * Len(WholeFrames(s))
                IN  /\ k \in 0..Len(s) /\ Len(Rest(s)) = Len(s) - k
                    /\ \A i \in 1..Len(Rest(s)) : Rest(s)[i] = s[k + i]
<1>1. CASE ~ Aligned(s)
  BY <1>1, EmptySeq, Constants DEF Rest, Missing
<1>2. CASE Aligned(s)
  <2> DEFINE q == Len(s) \div FrameLen
             r == Len(s) % FrameLen
             k == FrameLen * q
  <2>1. Len(s) \in Nat /\ FrameLen \in Nat \ {0, 1} /\ Len(WholeFrames(s)) = q
    BY <1>2, FramesOf, Constants
  <2>2. q \in Nat /\ r \in 0..(FrameLen - 1) /\ Len(s) = k + r
    BY <2>1, Division
  <2>3. k \in Nat
    BY <2>1, <2>2
  <2>4. Rest(s) = SubSeq(s, k + 1, Len(s))
    BY <1>2, <2>1 DEF Rest
  <2>5. Missing(s) = (FrameLen - r) % FrameLen
    BY <1>2 DEF Missing
  <2> HIDE DEF q, r, k
  <2>6. \A i \in (k + 1)..Len(s) : s[i] \in SentPiece
    BY <2>1, <2>3, ElementOfSeq
  <2>7. /\ Rest(s) \in Seq(SentPiece) /\ Len(Rest(s)) = r
        /\ \A i \in 1..r : Rest(s)[i] = s[k + i]
    BY <2>1, <2>2, <2>3, <2>4, <2>6, SubSeqProperties
  <2>8. Missing(s) = IF r = 0 THEN 0 ELSE FrameLen - r
    <3>1. CASE r = 0
      <4>1. (FrameLen * 1 + 0) % FrameLen = 0
        BY <2>1, DivisionUnique
      <4> QED BY <2>1, <2>5, <3>1, <4>1
    <3>2. CASE r # 0
      <4>1. FrameLen - r \in 0..(FrameLen - 1)
        BY <2>1, <2>2, <3>2
      <4> QED BY <2>1, <2>5, <3>2, <4>1, ModSmall
    <3> QED BY <3>1, <3>2
  <2>9. Rest(s) = <<>> <=> r = 0
    BY <2>7, EmptySeq
  <2>10. k = FrameLen * Len(WholeFrames(s))
    BY <2>1 DEF k
  <2> QED BY <1>2, <2>1, <2>2, <2>3, <2>7, <2>8, <2>9, <2>10
<1> QED BY <1>1, <1>2

\* The callbacks of an RPC end with a final one or have none, and have one exactly when
\* the RPC leaves the muxMap; without an entry there are no callbacks.
LEMMA CallbacksOf ==
    ASSUME NEW F \in Seq(SentPiece), NEW r \in Rpc
    PROVE  LET c == Callbacks(F, r)
           IN  /\ c \in Seq(Final \cup {"reply"})
               /\ \A k \in 1..Len(c) : c[k] \in Final => k = Len(c)
               /\ r \in Finished(F) <=> Len(c) > 0 /\ c[Len(c)] \in Final
               /\ r \notin muxMap => c = <<>>
<1> DEFINE S == Heard(F, r)
           n == Cardinality(S)
           c == Callbacks(F, r)
<1>1. S \in SUBSET (1..Len(F)) /\ Len(F) \in Nat /\ DOMAIN F = 1..Len(F)
  BY LenProperties DEF Heard, Mine
<1>0. S \subseteq Nat
  BY <1>1
<1>2. IsFiniteSet(S) /\ n \in Nat /\ (S = {} <=> n = 0)
  <2>1. IsFiniteSet(1..Len(F))
    BY <1>1, FS_Interval
  <2>2. IsFiniteSet(S)
    BY <1>1, <2>1, FS_Subset
  <2> QED BY <2>2, FS_CardinalityType, FS_EmptySet
<1>3. c = [k \in 1..n |-> F[Nth(S, k)].op]
  BY DEF Callbacks
<1>4. \A i \in S : F[i] \in SentPiece /\ F[i].muxid = r
  BY <1>1, ElementOfSeq DEF Heard, Mine
<1>5. \A i \in S : F[i].op \in Final \cup {"reply"}
  BY <1>4 DEF SentPiece, Piece, Final
<1>6. \A i, j \in S : F[i].op \in Final => j <= i
  BY DEF Heard, IsFinal
<1>7. r \in Finished(F) <=> \E i \in S : F[i].op \in Final
  BY DEF Finished, IsFinal
<1>8. r \notin muxMap => S = {}
  BY DEF Heard, Mine
<1> HIDE DEF S, c
<1>9. \A k \in 1..n : Nth(S, k) \in S
  BY <1>1, NthIsThere
<1>10. c \in Seq(Final \cup {"reply"}) /\ Len(c) = n
  BY <1>2, <1>3, <1>5, <1>9
<1>11. ASSUME NEW k \in 1..n, c[k] \in Final PROVE k = n
  <2>1. \A j \in S : j <= Nth(S, k)
    BY <1>3, <1>6, <1>9, <1>11
  <2> QED BY <1>1, <2>1, NthOfGreatest
<1>12. ASSUME NEW i \in S, F[i].op \in Final PROVE n > 0 /\ c[n] \in Final
  <2>1. n \in Nat \ {0} /\ Nth(S, n) \in S /\ \A j \in S : j <= Nth(S, n)
    BY <1>1, NthOfLast
  <2>2. Nth(S, n) = i
    <3>1. Nth(S, n) \in Nat /\ i \in Nat
      BY <1>0, <2>1
    <3>2. i <= Nth(S, n) /\ Nth(S, n) <= i
      BY <1>6, <1>12, <2>1
    <3> QED BY <3>1, <3>2
  <2> QED BY <1>3, <1>12, <2>1, <2>2
<1>13. ASSUME n > 0, c[n] \in Final PROVE \E i \in S : F[i].op \in Final
  BY <1>2, <1>3, <1>9, <1>13
<1>14. r \notin muxMap => c = <<>>
  BY <1>2, <1>8, <1>10, EmptySeq
<1> QED BY <1>7, <1>10, <1>11, <1>12, <1>13, <1>14 DEF c

\* The RPCs of the queue, as the messages that running the queue sends
Queued == [i \in DOMAIN queue |-> [op |-> "rpc", muxid |-> queue[i]]]

LEMMA QueuedMessages ==
    ASSUME queue \in Seq(Rpc)
    PROVE  /\ Queued \in Seq(SentMessage) /\ ToSet(queue) \subseteq Rpc
           /\ \A i \in DOMAIN Queued : Queued[i].op = "rpc"
<1>1. DOMAIN queue = 1..Len(queue) /\ Len(queue) \in Nat
  BY LenProperties
<1>2. \A i \in 1..Len(queue) : queue[i] \in Rpc
  BY ElementOfSeq
<1> QED BY <1>1, <1>2, Messages DEF Queued, ToSet

LEMMA DispatchTypes ==
    ASSUME TypeInv, NEW w \in Socket, NEW s \in Seq(SentPiece), Dispatch(w, s)
    PROVE  /\ SocketTypes' /\ StreamTypes'
           /\ told' \in [Rpc -> Seq(Final \cup {"reply"})]
           /\ queue' \in Seq(Rpc) /\ authwebsocketid' \in Socket \cup {None}
<1> DEFINE F == WholeFrames(s)
<1>1. F \in Seq(SentPiece)
  BY FramesOf
<1>2. told' \in [Rpc -> Seq(Final \cup {"reply"})]
  <2>1. told' = [r \in Rpc |-> told[r] \o Callbacks(F, r)]
    BY DEF Dispatch
  <2> HIDE DEF F
  <2>2. \A r \in Rpc : told[r] \o Callbacks(F, r) \in Seq(Final \cup {"reply"})
    BY <1>1, CallbacksOf, ConcatProperties DEF TypeInv, PageTypes
  <2> QED BY <2>1, <2>2
<1>3. StreamTypes'
  <2>1. reading' = Missing(s) /\ data' = Rest(s)
    BY DEF Dispatch, Rest
  <2> QED BY <2>1, RestOf DEF StreamTypes
<1>4. CASE \E i \in DOMAIN F : F[i].op = "authinit" /\ F[i].muxid \in muxMap
  <2>1. authwebsocketid' = w /\ queue' = <<>>
    BY <1>4 DEF Dispatch
  <2>2. SocketTypes'
    <3>1. CASE queue = <<>>
      BY <1>4, <3>1 DEF Dispatch, TypeInv, SocketTypes
    <3>2. CASE queue # <<>>
      <4>1. SendMessages(Queued, (muxMap \ Finished(F)) \cup ToSet(queue))
        BY <1>4, <3>2 DEF Dispatch, Queued
      <4>2. (muxMap \ Finished(F)) \cup ToSet(queue) \in SUBSET (Rpc \cup {Auth, None})
        BY QueuedMessages DEF TypeInv, SocketTypes, PageTypes
      <4> QED BY <4>1, <4>2, QueuedMessages, SendTypes DEF TypeInv, PageTypes
    <3> QED BY <3>1, <3>2
  <2> QED BY <1>2, <1>3, <2>1, <2>2, EmptySeq
<1>5. CASE ~ \E i \in DOMAIN F : F[i].op = "authinit" /\ F[i].muxid \in muxMap
  <2>1. /\ muxMap' = muxMap \ Finished(F)
        /\ ready' = IF Aligned(s) \/ ws = None THEN ready ELSE [ready EXCEPT ![ws] = "closing"]
        /\ UNCHANGED <<authwebsocketid, queue, ws, opening, opened, pendingMessages, lastSocket, up>>
    BY <1>5 DEF Dispatch
  <2>2. ready' \in [Socket -> {"none", "connecting", "open", "closing", "closed"}]
    BY <2>1 DEF TypeInv, SocketTypes
  <2> QED BY <1>2, <1>3, <2>1, <2>2 DEF TypeInv, SocketTypes, PageTypes
<1> QED BY <1>4, <1>5

LEMMA CloseTypes == ASSUME TypeInv, NEW w \in Socket, Closed(w) PROVE TypeInv'
<1>1. ready' \in [Socket -> {"none", "connecting", "open", "closing", "closed"}]
  BY DEF TypeInv, SocketTypes, Closed
<1>2. SocketTypes'
  BY <1>1 DEF TypeInv, SocketTypes, Closed, ForceClose
<1>3. told' \in [Rpc -> Seq(Final \cup {"reply"})]
  <2>1. \A r \in Rpc : Append(told[r], "close") \in Seq(Final \cup {"reply"})
    BY AppendProperties DEF TypeInv, PageTypes, Final
  <2> QED BY <2>1 DEF TypeInv, PageTypes, Closed, ForceClose
<1>4. PageTypes'
  BY <1>3 DEF TypeInv, PageTypes, Closed, ForceClose
<1>5. StreamTypes' /\ MixerTypes'
  BY DEF TypeInv, StreamTypes, MixerTypes, Closed, ForceClose, stream, mixer
<1> QED BY <1>2, <1>4, <1>5 DEF TypeInv

\* What a message brings is read behind what was kept of the last one.
LEMMA ReadsOn ==
    ASSUME TypeInv, NEW w \in Socket, NEW n \in Nat, Receives(w, n)
    PROVE  LET new == SubSeq(down[w], 1, n)
               all == data \o new
           IN  /\ new \in Seq(SentPiece) /\ Len(new) = n /\ n \in 1..Len(down[w])
               /\ all \in Seq(SentPiece) /\ Len(all) = Len(data) + n
               /\ down' = [down EXCEPT ![w] = SubSeq(@, n + 1, Len(@))]
               /\ SubSeq(down[w], n + 1, Len(down[w])) \in Seq(SentPiece)
               /\ IF reading > n
                  THEN /\ data' = all /\ reading' = reading - n /\ Len(all) < FrameLen
                       /\ UNCHANGED <<muxer, told, lastSocket, ready, up>>
                  ELSE Dispatch(w, all)
<1> DEFINE new == SubSeq(down[w], 1, n)
           all == data \o new
<1>1. down[w] \in Seq(SentPiece) /\ data \in Seq(SentPiece) /\ n \in 1..Len(down[w])
  BY DEF TypeInv, StreamTypes, MixerTypes, Receives
<1>2. \A i \in 1..Len(down[w]) : down[w][i] \in SentPiece
  BY <1>1, ElementOfSeq
<1>3. new \in Seq(SentPiece) /\ Len(new) = n
  <2>1. \A i \in 1..n : down[w][i] \in SentPiece
    BY <1>1, <1>2
  <2> QED BY <2>1, <1>1, SubSeqProperties
<1>4. SubSeq(down[w], n + 1, Len(down[w])) \in Seq(SentPiece)
  <2>1. Len(down[w]) \in Nat /\ n + 1 \in Int
    BY <1>1
  <2>2. \A i \in (n + 1)..Len(down[w]) : down[w][i] \in SentPiece
    BY <1>2, <2>1
  <2> QED BY <2>1, <2>2, SubSeqProperties
<1>5. all \in Seq(SentPiece) /\ Len(all) = Len(data) + n
  BY <1>1, <1>3, ConcatProperties
<1>6. (IF reading > 0 THEN data \o new ELSE new) = all
  <2>1. CASE data = <<>>
    <3>1. reading = 0
      BY <2>1 DEF TypeInv, StreamTypes
    <3>2. all = new
      BY <1>3, <2>1, ConcatEmptySeq
    <3> QED BY <3>1, <3>2
  <2>2. CASE data # <<>>
    <3>1. reading > 0
      BY <1>1, <2>2, Constants DEF TypeInv, StreamTypes
    <3> QED BY <3>1
  <2> QED BY <2>1, <2>2
<1>7. reading > n => Len(all) < FrameLen
  <2>1. reading > n => data # <<>>
    BY DEF TypeInv, StreamTypes
  <2>2. data # <<>> => reading = FrameLen - Len(data)
    BY DEF TypeInv, StreamTypes
  <2> QED BY <1>1, <1>5, <2>1, <2>2, Constants
<1> QED BY <1>1, <1>3, <1>4, <1>5, <1>6, <1>7 DEF Receives

LEMMA ReceiveTypes ==
    ASSUME TypeInv, NEW w \in Socket, NEW n \in Nat, Receives(w, n)
    PROVE  TypeInv'
<1> DEFINE all == data \o SubSeq(down[w], 1, n)
<1>1. MixerTypes'
  BY ReadsOn DEF TypeInv, MixerTypes, Receives
<1>2. UNCHANGED <<authmuxid, lastRpc, dropped, sentData>>
  BY DEF Receives
<1>3. CASE reading > n
  <2>1. /\ data' = all /\ reading' = reading - n /\ Len(all) < FrameLen
        /\ all \in Seq(SentPiece) /\ Len(all) = Len(data) + n /\ n > 0
        /\ UNCHANGED <<muxer, told, lastSocket, ready, up>>
    BY <1>3, ReadsOn
  <2>2. SocketTypes'
    BY <2>1 DEF TypeInv, SocketTypes, muxer
  <2>3. PageTypes'
    BY <1>2, <2>1 DEF TypeInv, PageTypes, muxer
  <2>4. StreamTypes'
    <3>1. reading = FrameLen - Len(data) /\ data \in Seq(SentPiece)
      BY <1>3 DEF TypeInv, StreamTypes
    <3>2. all # <<>>
      <4>1. Len(data) \in Nat /\ Len(all) # 0
        BY <2>1, <3>1
      <4> QED BY <4>1, EmptySeq
    <3> HIDE DEF all
    <3> QED BY <2>1, <3>1, <3>2, Constants DEF StreamTypes
  <2> QED BY <1>1, <2>2, <2>3, <2>4 DEF TypeInv
<1>4. CASE ~ reading > n
  <2>1. all \in Seq(SentPiece) /\ Dispatch(w, all)
    BY <1>4, ReadsOn
  <2>2. /\ SocketTypes' /\ StreamTypes'
        /\ told' \in [Rpc -> Seq(Final \cup {"reply"})]
        /\ queue' \in Seq(Rpc) /\ authwebsocketid' \in Socket \cup {None}
    BY <2>1, DispatchTypes
  <2>3. PageTypes'
    BY <1>2, <2>2 DEF TypeInv, PageTypes
  <2> QED BY <1>1, <2>2, <2>3 DEF TypeInv
<1> QED BY <1>3, <1>4

LEMMA AskTypes == ASSUME TypeInv, PageRpc PROVE TypeInv'
<1>1. lastRpc' = lastRpc + 1 /\ lastRpc' \in Rpc /\ lastRpc' \in 0..MaxRpc
  BY Constants DEF PageRpc, Rpc, TypeInv, PageTypes
<1>2. StreamTypes' /\ MixerTypes'
  BY DEF PageRpc, TypeInv, StreamTypes, MixerTypes, stream, mixer
<1>3. UNCHANGED <<authmuxid, authwebsocketid, sentData, dropped, told>>
  BY DEF PageRpc
<1>4. CASE MustQueue
  <2>1. queue' \in Seq(Rpc)
    <3>1. Append(queue, lastRpc') \in Seq(Rpc)
      BY <1>1, AppendProperties DEF TypeInv, PageTypes
    <3> QED BY <1>4, <3>1 DEF PageRpc
  <2>2. SocketTypes'
    BY <1>4 DEF PageRpc, TypeInv, SocketTypes
  <2> QED BY <1>1, <1>2, <1>3, <2>1, <2>2 DEF TypeInv, PageTypes
<1>5. CASE ~ MustQueue
  <2> DEFINE ms == <<[op |-> "rpc", muxid |-> lastRpc']>>
  <2>1. ms \in Seq(SentMessage)
    BY <1>1, Messages
  <2>2. SendMessages(ms, muxMap \cup {lastRpc'}) /\ queue' = queue
    BY <1>5 DEF PageRpc
  <2> HIDE DEF ms
  <2>3. SocketTypes'
    BY <1>1, <2>1, <2>2, SendTypes DEF TypeInv, PageTypes, SocketTypes
  <2> QED BY <1>1, <1>2, <1>3, <2>2, <2>3 DEF TypeInv, PageTypes
<1> QED BY <1>4, <1>5

LEMMA DataTypes == ASSUME TypeInv, PageData PROVE TypeInv'
<1>1. sentData' \in 0..MaxData
  BY Constants DEF PageData, TypeInv, PageTypes
<1>2. StreamTypes' /\ MixerTypes'
  BY DEF PageData, TypeInv, StreamTypes, MixerTypes, stream, mixer
<1>3. UNCHANGED <<authmuxid, authwebsocketid, queue, lastRpc, dropped, told>>
  BY DEF PageData
<1>4. PICK r \in 1..lastRpc : SendMessages(<<[op |-> "data", muxid |-> r]>>, muxMap)
  BY DEF PageData
<1>5. r \in Rpc
  BY Constants DEF Rpc, TypeInv, PageTypes
<1>6. SocketTypes'
  <2> DEFINE ms == <<[op |-> "data", muxid |-> r]>>
  <2>1. ms \in Seq(SentMessage)
    BY <1>5, Messages
  <2>2. SendMessages(ms, muxMap)
    BY <1>4
  <2> HIDE DEF ms
  <2> QED BY <2>1, <2>2, SendTypes DEF TypeInv, PageTypes, SocketTypes
<1> QED BY <1>1, <1>2, <1>3, <1>6 DEF TypeInv, PageTypes

LEMMA PageClosesTypes == ASSUME TypeInv, PageCloses PROVE TypeInv'
<1>1. SocketTypes'
  <2>1. ready' \in [Socket -> {"none", "connecting", "open", "closing", "closed"}]
    BY DEF PageCloses, TypeInv, SocketTypes
  <2> QED BY <2>1 DEF PageCloses, TypeInv, SocketTypes
<1>2. PageTypes'
  BY DEF PageCloses, TypeInv, PageTypes
<1>3. StreamTypes' /\ MixerTypes'
  BY DEF PageCloses, TypeInv, StreamTypes, MixerTypes, stream, mixer
<1> QED BY <1>1, <1>2, <1>3 DEF TypeInv

LEMMA OpenTypes == ASSUME TypeInv, NEW w \in Socket, SocketOpens(w) PROVE TypeInv'
<1>1. SocketTypes'
  <2>1. ready' \in [Socket -> {"none", "connecting", "open", "closing", "closed"}]
    BY DEF SocketOpens, TypeInv, SocketTypes
  <2>2. pendingMessages' \in Seq(SentMessage)
    BY HeadTailProperties, EmptySeq DEF SocketOpens, TypeInv, SocketTypes
  <2>3. up' \in [Socket -> Seq(SentMessage)]
    <3>1. \A x \in Socket : up[x] \o pendingMessages \in Seq(SentMessage)
      BY ConcatProperties DEF TypeInv, SocketTypes
    <3>2. up' = up \/ (ws \in Socket /\ up' = [up EXCEPT ![ws] = up[ws] \o pendingMessages])
      BY DEF SocketOpens, TypeInv, SocketTypes
    <3> QED BY <3>1, <3>2 DEF TypeInv, SocketTypes
  <2> QED BY <2>1, <2>2, <2>3 DEF SocketOpens, TypeInv, SocketTypes
<1>2. PageTypes' /\ StreamTypes' /\ MixerTypes'
  BY DEF SocketOpens, TypeInv, PageTypes, StreamTypes, MixerTypes, page, stream, mixer
<1> QED BY <1>1, <1>2 DEF TypeInv

\* What the mixer may send, each in answer to a message that it has
MixerFrames(r) == {Frame("reply", r), Frame("complete", r), Frame("error", r),
                   Frame("error", r) \o Frame("error", r)}

LEMMA MixerFramesAreSent ==
    \A r \in Rpc : \A f \in MixerFrames(r) : f \in Seq(SentPiece)
<1> SUFFICES ASSUME NEW r \in Rpc, NEW f \in MixerFrames(r) PROVE f \in Seq(SentPiece)
  OBVIOUS
<1>1. \A op \in {"reply", "complete", "error"} : Frame(op, r) \in Seq(SentPiece)
  BY Frames
<1>2. Frame("error", r) \o Frame("error", r) \in Seq(SentPiece)
  BY <1>1, ConcatProperties
<1> QED BY <1>1, <1>2 DEF MixerFrames

LEMMA MixerTypesKept ==
    ASSUME TypeInv, NEW w \in Socket, NEW i \in DOMAIN up[w],
           MixerAuthenticates(w, i) \/ MixerReplies(w, i) \/ MixerFinishes(w, i)
    PROVE  TypeInv'
<1>1. up[w][i] \in SentMessage /\ i \in Nat
  BY LenProperties, ElementOfSeq DEF TypeInv, SocketTypes
<1>2. PICK frames \in Seq(SentPiece), done \in BOOLEAN : MixerSends(w, i, frames, done)
  <2>1. CASE MixerAuthenticates(w, i)
    <3>1. up[w][i].muxid \in {Auth, None}
      BY <1>1, <2>1 DEF MixerAuthenticates, SentMessage, Message
    <3>2. Frame("authinit", up[w][i].muxid) \in Seq(SentPiece)
      BY <3>1, Frames
    <3> QED BY <2>1, <3>2 DEF MixerAuthenticates
  <2>2. CASE MixerReplies(w, i) \/ MixerFinishes(w, i)
    <3>1. up[w][i].muxid \in Rpc
      BY <1>1, <2>2 DEF MixerReplies, MixerFinishes, SentMessage, Message
    <3>2. \E f \in MixerFrames(up[w][i].muxid), done \in BOOLEAN : MixerSends(w, i, f, done)
      BY <2>2 DEF MixerReplies, MixerFinishes, MixerFrames
    <3> QED BY <3>1, <3>2, MixerFramesAreSent
  <2> QED BY <2>1, <2>2
<1>3. down' \in [Socket -> Seq(SentPiece)]
  <2>1. down[w] \o frames \in Seq(SentPiece)
    BY ConcatProperties DEF TypeInv, MixerTypes
  <2> QED BY <1>2, <2>1 DEF MixerSends, TypeInv, MixerTypes
<1>4. served' \in [Socket -> SUBSET Nat]
  BY <1>1, <1>2 DEF MixerSends, TypeInv, MixerTypes
<1>5. replied' \in [Rpc -> 0..MaxReply]
  <2>1. CASE MixerReplies(w, i)
    <3>1. replied[up[w][i].muxid] < MaxReply
          /\ replied' = [replied EXCEPT ![up[w][i].muxid] = replied[up[w][i].muxid] + 1]
      BY <2>1 DEF MixerReplies
    <3>2. up[w][i].muxid \in Rpc
      BY <1>1, <2>1 DEF MixerReplies, SentMessage, Message
    <3> QED BY <3>1, <3>2, Constants DEF TypeInv, MixerTypes
  <2>2. CASE ~ MixerReplies(w, i)
    BY <2>2 DEF MixerAuthenticates, MixerFinishes, TypeInv, MixerTypes
  <2> QED BY <2>1, <2>2
<1>6. SocketTypes' /\ PageTypes' /\ StreamTypes'
  BY <1>2 DEF MixerSends, TypeInv, SocketTypes, PageTypes, StreamTypes, muxer, page, stream
<1> QED BY <1>3, <1>4, <1>5, <1>6 DEF TypeInv, MixerTypes

LEMMA TypeStep == TypeInv /\ [Next]_vars => TypeInv'
<1> SUFFICES ASSUME TypeInv, [Next]_vars PROVE TypeInv'
  OBVIOUS
<1>1. CASE PageRpc \/ PageData \/ PageCloses
  BY <1>1, AskTypes, DataTypes, PageClosesTypes
<1>2. ASSUME NEW w \in Socket, SocketOpens(w) PROVE TypeInv'
  BY <1>2, OpenTypes
<1>3. ASSUME NEW w \in Socket, SocketCloses(w) \/ ConnectionLost(w) PROVE TypeInv'
  BY <1>3, CloseTypes DEF SocketCloses, ConnectionLost
<1>4. ASSUME NEW w \in Socket, SocketReceives(w) PROVE TypeInv'
  BY <1>4, ReceiveTypes DEF SocketReceives
<1>5. ASSUME NEW w \in Socket, NEW i \in DOMAIN up[w],
             MixerAuthenticates(w, i) \/ MixerReplies(w, i) \/ MixerFinishes(w, i)
      PROVE  TypeInv'
  BY <1>5, MixerTypesKept
<1>6. CASE UNCHANGED vars
  BY <1>6 DEF vars, muxer, page, stream, mixer, TypeInv, SocketTypes, PageTypes, StreamTypes,
     MixerTypes
<1> QED BY <1>1, <1>2, <1>3, <1>4, <1>5, <1>6 DEF Next

\* The variables of the muxer (web/core/clira.muxer.js) keep their types, and what it
\* has of a frame and what it waits for make a frame.
THEOREM MuxerIsTyped == Spec => []TypeOK
<1>1. Init => TypeInv
  BY InitTypes
<1> QED BY <1>1, TypeStep, TypeInvIsTyped, PTL DEF Spec

-----------------------------------------------------------------------------
(* One end *)

InQueue(r) == \E i \in DOMAIN queue : queue[i] = r
Unended(r) == r <= lastRpc /\ Ends(r) = {}

\* What can still get callbacks has had no end: the entries of the muxMap and what waits
\* in the queue to become one, which is not in the muxMap already.
EndInv ==
    /\ OneEnd
    /\ \A r \in Rpc : r > lastRpc => Ends(r) = {}
    /\ \A r \in Rpc : r \in muxMap => Unended(r)
    /\ \A r \in Rpc : InQueue(r) => Unended(r) /\ r \notin muxMap

\* A step in which the RPCs of E end, and no other
EndStep(E) ==
    /\ E \subseteq muxMap \cap Rpc
    /\ \A r \in E : Ends(r)' = {Len(told'[r])}
    /\ \A r \in Rpc \ E : told'[r] = told[r] \/ (r \in muxMap /\ Ends(r)' = {})

LEMMA InitEnds == Init => EndInv
<1> SUFFICES ASSUME Init PROVE EndInv
  OBVIOUS
<1>1. \A r \in Rpc : Ends(r) = {}
  BY DEF Init, Ends
<1>2. \A r \in Rpc : ~ InQueue(r) /\ r \notin muxMap
  BY Constants DEF Init, InQueue
<1> QED BY <1>1, <1>2 DEF EndInv, OneEnd

\* New entries of the muxMap and of the queue come from the queue and from mx_muxid.
LEMMA EndInvKept ==
    ASSUME TypeInv, TypeInv', EndInv, NEW E, EndStep(E), lastRpc' \in {lastRpc, lastRpc + 1},
           \A r \in Rpc : r \in muxMap' =>
             r \in muxMap \ E \/ InQueue(r) \/ (r > lastRpc /\ r <= lastRpc'),
           \A r \in Rpc : InQueue(r)' =>
             r \notin muxMap' /\ (InQueue(r) \/ (r > lastRpc /\ r <= lastRpc'))
    PROVE  EndInv'
<1>1. lastRpc \in Nat /\ lastRpc' \in Nat /\ lastRpc <= lastRpc'
  BY DEF TypeInv, PageTypes
<1>2. \A r \in Rpc : r \in Nat
  BY DEF Rpc
<1>3. \A r \in Rpc \ E : Ends(r) = {} => Ends(r)' = {}
  BY DEF EndStep, Ends
<1>4. OneEnd'
  <2> SUFFICES ASSUME NEW r \in Rpc PROVE (Ends(r) \subseteq {Len(told[r])})'
    BY DEF OneEnd
  <2>1. CASE r \in E
    BY <2>1 DEF EndStep
  <2>2. CASE told'[r] = told[r]
    BY <2>2 DEF Ends, EndInv, OneEnd
  <2>3. CASE Ends(r)' = {}
    BY <2>3
  <2> QED BY <2>1, <2>2, <2>3 DEF EndStep
<1>5. \A r \in Rpc : r > lastRpc => r \notin E /\ Ends(r) = {}
  BY <1>1, <1>2 DEF EndInv, EndStep, Unended
<1>6. \A r \in Rpc : InQueue(r) => r \notin E
  BY DEF EndInv, EndStep
<1>7. \A r \in Rpc : (r > lastRpc => Ends(r) = {})'
  BY <1>1, <1>2, <1>3, <1>5
<1>8. \A r \in Rpc \ E : Unended(r) => Unended(r)'
  BY <1>1, <1>2, <1>3 DEF Unended
<1>9. \A r \in Rpc : r > lastRpc /\ r <= lastRpc' => Unended(r)'
  BY <1>3, <1>5 DEF Unended
<1>10. \A r \in Rpc : (r \in muxMap => Unended(r))'
  BY <1>6, <1>8, <1>9 DEF EndInv
<1>11. \A r \in Rpc : (InQueue(r) => Unended(r) /\ r \notin muxMap)'
  <2> SUFFICES ASSUME NEW r \in Rpc, InQueue(r)' PROVE Unended(r)' /\ r \notin muxMap'
    OBVIOUS
  <2>1. r \notin muxMap' /\ (InQueue(r) \/ (r > lastRpc /\ r <= lastRpc'))
    OBVIOUS
  <2>2. InQueue(r) => Unended(r)
    BY DEF EndInv
  <2> QED BY <1>6, <1>8, <1>9, <2>1, <2>2
<1> QED BY <1>4, <1>7, <1>10, <1>11 DEF EndInv

\* A step that tells the page nothing ends nothing.
LEMMA SilentStep ==
    ASSUME EndInv, told' = told
    PROVE  EndStep({})
BY DEF EndStep

\* Sending makes no entry but that of authmuxid.
LEMMA SendEntries ==
    ASSUME TypeInv, NEW ms, NEW map, SendMessages(ms, map)
    PROVE  \A r \in Rpc : r \in muxMap' => r \in map
BY Constants DEF SendMessages, TypeInv, PageTypes

LEMMA AskEnds ==
    ASSUME TypeInv, TypeInv', EndInv, PageRpc
    PROVE  EndInv' /\ EndStep({})
<1>1. EndStep({}) /\ lastRpc' = lastRpc + 1 /\ lastRpc \in Nat /\ lastRpc' \in Rpc
  BY SilentStep, Constants DEF PageRpc, TypeInv, PageTypes, Rpc
<1>2. lastRpc' \notin muxMap /\ ~ InQueue(lastRpc')
  BY <1>1 DEF EndInv, Unended
<1>3. /\ \A r \in Rpc : r \in muxMap' => r \in muxMap \/ r = lastRpc'
      /\ \A r \in Rpc : InQueue(r)' => r \notin muxMap' /\ (InQueue(r) \/ r = lastRpc')
  <2>1. CASE MustQueue
    <3>1. muxMap' = muxMap /\ queue' = Append(queue, lastRpc')
      BY <2>1 DEF PageRpc
    <3>2. \A r \in Rpc : InQueue(r)' => InQueue(r) \/ r = lastRpc'
      BY <1>1, <3>1, AppendProperties DEF InQueue, TypeInv, PageTypes
    <3>3. \A r \in Rpc : InQueue(r) => r \notin muxMap
      BY DEF EndInv
    <3> QED BY <1>2, <3>1, <3>2, <3>3
  <2>2. CASE ~ MustQueue
    <3>1. queue' = queue
      BY <2>2 DEF PageRpc
    <3>2. \A r \in Rpc : r \in muxMap' => r \in muxMap \/ r = lastRpc'
      BY <2>2, SendEntries DEF PageRpc
    <3>3. \A r \in Rpc : InQueue(r)' <=> InQueue(r)
      BY <3>1 DEF InQueue
    <3>4. \A r \in Rpc : InQueue(r) => r \notin muxMap
      BY DEF EndInv
    <3> QED BY <1>2, <3>2, <3>3, <3>4
  <2> QED BY <2>1, <2>2
<1>4. \A r \in Rpc : r \in muxMap' =>
             r \in muxMap \ {} \/ InQueue(r) \/ (r > lastRpc /\ r <= lastRpc')
  BY <1>1, <1>3
<1>5. \A r \in Rpc : InQueue(r)' =>
             r \notin muxMap' /\ (InQueue(r) \/ (r > lastRpc /\ r <= lastRpc'))
  BY <1>1, <1>3
<1> QED BY <1>1, <1>4, <1>5, EndInvKept

\* Whatever leaves what has been told, the queue and the RPCs of the muxMap as they are
LEMMA QuietEnds ==
    ASSUME TypeInv, TypeInv', EndInv, UNCHANGED <<told, queue, lastRpc>>,
           \A r \in Rpc : r \in muxMap' => r \in muxMap
    PROVE  EndInv' /\ EndStep({})
<1>1. EndStep({})
  BY SilentStep
<1>2. \A r \in Rpc : r \in muxMap' =>
             r \in muxMap \ {} \/ InQueue(r) \/ (r > lastRpc /\ r <= lastRpc')
  OBVIOUS
<1>3. \A r \in Rpc : InQueue(r)' =>
             r \notin muxMap' /\ (InQueue(r) \/ (r > lastRpc /\ r <= lastRpc'))
  <2>1. \A r \in Rpc : InQueue(r)' => InQueue(r)
    BY DEF InQueue
  <2>2. \A r \in Rpc : InQueue(r) => r \notin muxMap
    BY DEF EndInv
  <2> QED BY <2>1, <2>2
<1> QED BY <1>1, <1>2, <1>3, EndInvKept

LEMMA CloseEnds ==
    ASSUME TypeInv, TypeInv', EndInv, NEW w, Closed(w)
    PROVE  EndInv' /\ EndStep(muxMap \cap Rpc)
<1>1. /\ told' = [r \in Rpc |-> IF r \in muxMap THEN Append(told[r], "close") ELSE told[r]]
      /\ muxMap' = {} /\ queue' = queue /\ lastRpc' = lastRpc
  BY DEF Closed, ForceClose, Entries
<1>2. ASSUME NEW r \in Rpc, r \in muxMap PROVE Ends(r)' = {Len(told'[r])}
  <2>1. told[r] \in Seq(Final \cup {"reply"}) /\ "close" \in Final
    BY DEF TypeInv, PageTypes, Final
  <2>2. told'[r] = Append(told[r], "close") /\ Ends(r) = {}
    BY <1>1, <1>2 DEF EndInv, Unended
  <2> DEFINE t == Append(told[r], "close")
  <2>3. /\ Len(t) = Len(told[r]) + 1 /\ t[Len(t)] \in Final /\ DOMAIN t = 1..Len(t)
        /\ \A i \in 1..Len(told[r]) : t[i] = told[r][i]
        /\ DOMAIN told[r] = 1..Len(told[r]) /\ Len(told[r]) \in Nat
    BY <2>1, AppendProperties, LenProperties
  <2> HIDE DEF t
  <2>4. {i \in DOMAIN t : t[i] \in Final} = {Len(t)}
    BY <2>2, <2>3 DEF Ends
  <2> QED BY <2>2, <2>4 DEF Ends, t
<1>3. EndStep(muxMap \cap Rpc)
  BY <1>1, <1>2 DEF EndStep
<1>4. \A r \in Rpc : InQueue(r)' <=> InQueue(r)
  BY <1>1 DEF InQueue
<1> QED BY <1>1, <1>3, <1>4, EndInvKept

LEMMA EndsOfConcat ==
    ASSUME NEW S, NEW t \in Seq(S), NEW c \in Seq(S),
           \A i \in DOMAIN t : t[i] \notin Final,
           \A k \in 1..Len(c) : c[k] \in Final => k = Len(c)
    PROVE  {i \in DOMAIN (t \o c) : (t \o c)[i] \in Final}
              = IF Len(c) > 0 /\ c[Len(c)] \in Final THEN {Len(t \o c)} ELSE {}
<1> DEFINE u == t \o c
<1>1. /\ Len(t) \in Nat /\ Len(c) \in Nat /\ DOMAIN t = 1..Len(t)
      /\ u \in Seq(S) /\ Len(u) = Len(t) + Len(c) /\ DOMAIN u = 1..Len(u)
      /\ \A i \in 1..Len(t) + Len(c) : u[i] = IF i <= Len(t) THEN t[i] ELSE c[i - Len(t)]
  BY ConcatProperties, LenProperties
<1> HIDE DEF u
<1>2. ASSUME NEW i \in DOMAIN u, u[i] \in Final
      PROVE  i = Len(u) /\ Len(c) > 0 /\ c[Len(c)] \in Final
  <2>1. i \in 1..Len(t) + Len(c) /\ ~ i <= Len(t)
    BY <1>1, <1>2
  <2>2. i - Len(t) \in 1..Len(c) /\ u[i] = c[i - Len(t)]
    BY <1>1, <2>1
  <2>3. i - Len(t) = Len(c) /\ c[i - Len(t)] \in Final
    BY <1>2, <2>2
  <2>4. i = Len(u) /\ Len(c) > 0
    BY <1>1, <2>1, <2>3
  <2> QED BY <2>3, <2>4
<1>3. ASSUME Len(c) > 0, c[Len(c)] \in Final
      PROVE  Len(u) \in DOMAIN u /\ u[Len(u)] \in Final
  <2>1. Len(u) \in 1..Len(t) + Len(c) /\ ~ Len(u) <= Len(t) /\ Len(u) - Len(t) = Len(c)
    BY <1>1, <1>3
  <2> QED BY <1>1, <1>3, <2>1
<1> QED BY <1>2, <1>3 DEF u

\* The RPCs that frames end are told so, and leave the muxMap; the queue, if it is run,
\* becomes part of the muxMap.
LEMMA DispatchEnds ==
    ASSUME TypeInv, EndInv, NEW w \in Socket, NEW s \in Seq(SentPiece), Dispatch(w, s)
    PROVE  /\ EndStep(Finished(WholeFrames(s)))
           /\ \A r \in Rpc : r \in muxMap' => r \in muxMap \ Finished(WholeFrames(s)) \/ InQueue(r)
           /\ queue' = <<>> \/ (queue' = queue /\ muxMap' \subseteq muxMap)
<1> DEFINE F == WholeFrames(s)
           E == Finished(F)
<1>1. F \in Seq(SentPiece)
  BY FramesOf
<1>2. told' = [r \in Rpc |-> told[r] \o Callbacks(F, r)]
  BY DEF Dispatch
<1>3. E \subseteq Rpc
  BY DEF Finished
<1>4. /\ \A r \in Rpc : r \in muxMap' => r \in muxMap \ E \/ InQueue(r)
      /\ queue' = <<>> \/ (queue' = queue /\ muxMap' \subseteq muxMap)
  <2>1. CASE \E i \in DOMAIN F : F[i].op = "authinit" /\ F[i].muxid \in muxMap
    <3>1. queue' = <<>>
      BY <2>1 DEF Dispatch
    <3>2. CASE queue = <<>>
      BY <2>1, <3>1, <3>2 DEF Dispatch
    <3>3. CASE queue # <<>>
      <4>1. SendMessages(Queued, (muxMap \ E) \cup ToSet(queue))
        BY <2>1, <3>3 DEF Dispatch, Queued
      <4>2. \A r \in Rpc : r \in muxMap' => r \in (muxMap \ E) \cup ToSet(queue)
        BY <4>1, SendEntries
      <4>3. \A r \in ToSet(queue) : InQueue(r)
        BY DEF InQueue, ToSet
      <4> QED BY <3>1, <4>2, <4>3
    <3> QED BY <3>2, <3>3
  <2>2. CASE ~ \E i \in DOMAIN F : F[i].op = "authinit" /\ F[i].muxid \in muxMap
    <3>1. muxMap' = muxMap \ E /\ queue' = queue
      BY <2>2 DEF Dispatch
    <3> QED BY <3>1
  <2> QED BY <2>1, <2>2
<1> HIDE DEF F
<1>6. ASSUME NEW r \in Rpc
      PROVE  /\ r \in E => r \in muxMap /\ Ends(r)' = {Len(told'[r])}
             /\ r \notin E => told'[r] = told[r] \/ (r \in muxMap /\ Ends(r)' = {})
  <2> DEFINE c == Callbacks(F, r)
             T == Final \cup {"reply"}
  <2>1. /\ c \in Seq(T) /\ \A k \in 1..Len(c) : c[k] \in Final => k = Len(c)
        /\ r \in E <=> Len(c) > 0 /\ c[Len(c)] \in Final
        /\ r \notin muxMap => c = <<>>
    BY <1>1, CallbacksOf
  <2>2. told[r] \in Seq(T) /\ told'[r] = told[r] \o c
    BY <1>2 DEF TypeInv, PageTypes
  <2> HIDE DEF c, E, T
  <2>3. CASE r \notin muxMap
    <3>1. c = <<>> /\ r \notin E
      BY <2>1, <2>3, EmptySeq
    <3> QED BY <2>2, <2>3, <3>1, ConcatEmptySeq
  <2>4. CASE r \in muxMap
    <3>1. \A i \in DOMAIN told[r] : told[r][i] \notin Final
      BY <2>4 DEF EndInv, Unended, Ends
    <3>2. {i \in DOMAIN (told[r] \o c) : (told[r] \o c)[i] \in Final}
             = IF Len(c) > 0 /\ c[Len(c)] \in Final THEN {Len(told[r] \o c)} ELSE {}
      BY <2>1, <2>2, <3>1, EndsOfConcat
    <3>3. Ends(r)' = IF r \in E THEN {Len(told'[r])} ELSE {}
      BY <2>1, <2>2, <3>2 DEF Ends
    <3> QED BY <2>4, <3>3
  <2> QED BY <2>3, <2>4
<1>7. EndStep(E)
  BY <1>3, <1>6 DEF EndStep
<1> QED BY <1>4, <1>7 DEF F

LEMMA ReceiveEnds ==
    ASSUME TypeInv, TypeInv', EndInv, NEW w \in Socket, NEW n \in Nat, Receives(w, n)
    PROVE  EndInv' /\ \E E : EndStep(E)
<1> DEFINE all == data \o SubSeq(down[w], 1, n)
           E   == Finished(WholeFrames(all))
<1>1. CASE reading > n
  BY <1>1, ReadsOn, QuietEnds DEF Receives, muxer
<1>2. CASE ~ reading > n
  <2>1. all \in Seq(SentPiece) /\ Dispatch(w, all)
    BY <1>2, ReadsOn
  <2>2. /\ EndStep(E)
        /\ \A r \in Rpc : r \in muxMap' => r \in muxMap \ E \/ InQueue(r)
        /\ queue' = <<>> \/ (queue' = queue /\ muxMap' \subseteq muxMap)
    BY <2>1, DispatchEnds
  <2> HIDE DEF E, all
  <2>3. lastRpc' = lastRpc
    BY DEF Receives
  <2>4. \A r \in Rpc : InQueue(r)' => r \notin muxMap' /\ InQueue(r)
    <3>1. CASE queue' = <<>>
      BY <3>1 DEF InQueue
    <3>2. CASE queue' = queue /\ muxMap' \subseteq muxMap
      BY <3>2 DEF InQueue, EndInv
    <3> QED BY <2>2, <3>1, <3>2
  <2>5. \A r \in Rpc : r \in muxMap' =>
             r \in muxMap \ E \/ InQueue(r) \/ (r > lastRpc /\ r <= lastRpc')
    BY <2>2
  <2>6. \A r \in Rpc : InQueue(r)' =>
             r \notin muxMap' /\ (InQueue(r) \/ (r > lastRpc /\ r <= lastRpc'))
    BY <2>4
  <2>7. EndInv'
    BY <2>2, <2>3, <2>5, <2>6, EndInvKept
  <2> QED BY <2>2, <2>7
<1> QED BY <1>1, <1>2

\* Every step ends some RPCs, and only the page asks for one, which ends nothing.
LEMMA EndsStep ==
    ASSUME TypeInv, TypeInv', EndInv, [Next]_vars
    PROVE  /\ EndInv'
           /\ \/ PageRpc /\ EndStep({})
              \/ lastRpc' = lastRpc /\ \E E : EndStep(E)
<1>1. CASE PageRpc
  BY <1>1, AskEnds
<1>2. CASE PageData
  <2>1. PICK r \in 1..lastRpc : SendMessages(<<[op |-> "data", muxid |-> r]>>, muxMap)
    BY <1>2 DEF PageData
  <2>2. \A x \in Rpc : x \in muxMap' => x \in muxMap
    BY <2>1, SendEntries
  <2>3. UNCHANGED <<told, queue, lastRpc>>
    BY <1>2 DEF PageData
  <2> QED BY <2>2, <2>3, QuietEnds
<1>3. CASE PageCloses
  BY <1>3, QuietEnds DEF PageCloses
<1>4. ASSUME NEW w \in Socket, SocketOpens(w)
      PROVE  EndInv' /\ lastRpc' = lastRpc /\ \E E : EndStep(E)
  BY <1>4, QuietEnds DEF SocketOpens, page
<1>5. ASSUME NEW w \in Socket, SocketCloses(w) \/ ConnectionLost(w)
      PROVE  EndInv' /\ lastRpc' = lastRpc /\ \E E : EndStep(E)
  <2>1. Closed(w)
    BY <1>5 DEF SocketCloses, ConnectionLost
  <2>2. lastRpc' = lastRpc
    BY <2>1 DEF Closed, ForceClose
  <2> QED BY <2>1, <2>2, CloseEnds
<1>6. ASSUME NEW w \in Socket, SocketReceives(w)
      PROVE  EndInv' /\ lastRpc' = lastRpc /\ \E E : EndStep(E)
  <2>1. PICK n \in 1..MaxPiece : Receives(w, n)
    BY <1>6 DEF SocketReceives
  <2>2. n \in Nat
    OBVIOUS
  <2>3. lastRpc' = lastRpc
    BY <2>1 DEF Receives
  <2> QED BY <2>1, <2>2, <2>3, ReceiveEnds
<1>7. ASSUME NEW w \in Socket, NEW i \in DOMAIN up[w],
             MixerAuthenticates(w, i) \/ MixerReplies(w, i) \/ MixerFinishes(w, i)
      PROVE  EndInv' /\ lastRpc' = lastRpc /\ \E E : EndStep(E)
  <2>1. UNCHANGED <<told, queue, lastRpc, muxMap>>
    BY <1>7 DEF MixerAuthenticates, MixerReplies, MixerFinishes, MixerSends, muxer, page
  <2> QED BY <2>1, QuietEnds
<1>8. CASE UNCHANGED vars
  BY <1>8, QuietEnds DEF vars, muxer, page
<1> QED BY <1>1, <1>2, <1>3, <1>4, <1>5, <1>6, <1>7, <1>8 DEF Next

\* An RPC hears one of complete, error and close, once and last: OneEnd, whatever the
\* mixer sends and whichever websockets close (muxerMessage and forceClose).
THEOREM OneEndIsKept == Spec => []OneEnd
<1>1. Init => TypeInv /\ EndInv
  BY InitTypes, InitEnds
<1>2. TypeInv /\ EndInv /\ [Next]_vars => TypeInv' /\ EndInv'
  BY TypeStep, EndsStep
<1>3. EndInv => OneEnd
  BY DEF EndInv
<1> QED BY <1>1, <1>2, <1>3, PTL DEF Spec

\* How far each RPC is for RpcService
Call == [r \in Rpc |-> IF r > lastRpc THEN "idle"
                       ELSE IF Ends(r) = {} THEN "asked" ELSE Last(told[r])]

LEMMA EndStepIsServed ==
    ASSUME TypeInv, EndInv, lastRpc' = lastRpc, NEW E, EndStep(E)
    PROVE  Service!EndTogether
<1> DEFINE how == [r \in E |-> Last(told'[r])]
<1>1. E \subseteq Rpc /\ \A r \in E : r \in muxMap
  BY DEF EndStep
<1>2. \A r \in E : Call[r] = "asked"
  BY <1>1, Constants DEF EndInv, Unended, Call, TypeInv, PageTypes, Rpc
<1>3. \A r \in E : Ends(r)' # {} /\ Last(told'[r]) \in Final
  <2> TAKE r \in E
  <2>1. Len(told'[r]) \in Ends(r)'
    BY DEF EndStep
  <2> QED BY <2>1 DEF Ends, Last
<1>4. Call' = [r \in Rpc |-> IF r \in E THEN how[r] ELSE Call[r]]
  <2>1. ASSUME NEW r \in Rpc PROVE Call'[r] = IF r \in E THEN how[r] ELSE Call[r]
    <3>1. CASE r \in E
      <4>1. ~ r > lastRpc
        BY <1>1, <3>1, Constants DEF EndInv, Unended, TypeInv, PageTypes, Rpc
      <4> QED BY <1>3, <3>1, <4>1 DEF Call
    <3>2. CASE r \notin E /\ told'[r] = told[r]
      BY <3>2 DEF Call, Ends
    <3>3. CASE r \notin E /\ r \in muxMap /\ Ends(r)' = {}
      BY <3>3 DEF Call, EndInv, Unended
    <3> QED BY <3>1, <3>2, <3>3 DEF EndStep
  <2> QED BY <2>1 DEF Call
<1>5. how \in [E -> Service!Endings]
  BY <1>3 DEF Service!Endings, Final
<1>6. E \in SUBSET {r \in Rpc : Call[r] = "asked"}
  BY <1>1, <1>2
<1> HIDE DEF how
<1> QED BY <1>4, <1>5, <1>6 DEF Service!EndTogether, Call

LEMMA AskIsServed ==
    ASSUME TypeInv, EndInv, PageRpc
    PROVE  \E r \in Rpc : Service!Ask(r)
<1>1. /\ lastRpc' = lastRpc + 1 /\ lastRpc \in Nat /\ lastRpc' \in Rpc /\ told' = told
      /\ \A r \in Rpc : r \in Nat
  BY Constants DEF PageRpc, TypeInv, PageTypes, Rpc
<1>2. \A r \in Rpc : Ends(r)' = Ends(r)
  BY <1>1 DEF Ends
<1>3. Ends(lastRpc') = {} /\ Call[lastRpc'] = "idle"
  BY <1>1 DEF EndInv, Call
<1>4. \A r \in Rpc : Call'[r] = IF r = lastRpc' THEN "asked" ELSE Call[r]
  <2> TAKE r \in Rpc
  <2>1. CASE r = lastRpc'
    BY <1>1, <1>2, <1>3, <2>1 DEF Call
  <2>2. CASE r # lastRpc'
    <3>1. r > lastRpc' <=> r > lastRpc
      BY <1>1, <2>2
    <3> QED BY <1>1, <1>2, <2>2, <3>1 DEF Call
  <2> QED BY <2>1, <2>2
<1>5. Call' = [Call EXCEPT ![lastRpc'] = "asked"]
  BY <1>4 DEF Call
<1> DEFINE new == lastRpc'
<1>6. new \in Rpc /\ Call[new] = "idle" /\ Call' = [Call EXCEPT ![new] = "asked"]
  BY <1>1, <1>3, <1>5
<1> HIDE DEF new
<1> QED BY <1>6 DEF Service!Ask, Call

\* To the rest of a page the muxer is an RpcService: an RPC that was asked for gets its
\* callbacks, whose last is its end, and several end in one event of the browser.
THEOREM MuxerIsAService == Spec => ImplementsService
<1>1. Init => TypeInv /\ EndInv /\ Service!RpcInit
  <2> SUFFICES ASSUME Init PROVE TypeInv /\ EndInv /\ Service!RpcInit
    OBVIOUS
  <2>1. \A r \in Rpc : r > lastRpc
    BY Constants DEF Init, Rpc
  <2> QED BY <2>1, InitTypes, InitEnds DEF Service!RpcInit
<1>2. TypeInv /\ EndInv /\ [Next]_vars => TypeInv' /\ EndInv'
  BY TypeStep, EndsStep
<1>3. TypeInv /\ TypeInv' /\ EndInv /\ [Next]_vars => [Service!RpcNext]_Call
  <2> SUFFICES ASSUME TypeInv, TypeInv', EndInv, [Next]_vars PROVE Service!RpcNext
    OBVIOUS
  <2>1. CASE PageRpc
    BY <2>1, AskIsServed DEF Service!RpcNext
  <2>2. CASE ~ PageRpc
    BY <2>2, EndsStep, EndStepIsServed DEF Service!RpcNext
  <2> QED BY <2>1, <2>2
<1> QED BY <1>1, <1>2, <1>3, PTL DEF Spec, ImplementsService, Service!RpcSpec, Call

-----------------------------------------------------------------------------
(* The answer to authinit comes first *)

\* The mixer is done with an authinit of the first websocket.
Authed == \E j \in served[1] : j \in DOMAIN up[1] /\ up[1][j].op = "authinit"

AllQueued == \A r \in 1..lastRpc : InQueue(r)

\* The first websocket's pieces that the page has not dealt with
Stream == data \o down[1]

Framed(s) == Aligned(s) /\ \E q \in Nat : Len(s) = FrameLen * q

\* Until the page forgets the muxer there is one websocket, whose stream is whole frames;
\* RPCs are queued until an authinit of it has been answered, and not any more then.
Online ==
    /\ ws = 1 /\ opening /\ lastSocket = 1 /\ ready[1] \in {"connecting", "open"}
    /\ Framed(Stream)
    /\ \A i \in DOMAIN Stream : Stream[i].op = "authinit" => Authed
    /\ authwebsocketid # None => queue = <<>> /\ Authed /\ ready[1] = "open"
    /\ authwebsocketid = None => AllQueued

\* Afterwards there are new websockets only for data of RPCs that were sent, and nothing
\* runs what is left in the queue.
Offline ==
    queue # <<>> => lastSocket = 1 /\ ready[1] \in {"closing", "closed"} /\ AllQueued

SocketsInv ==
    /\ ws <= lastSocket
    /\ \A w \in Socket : w > lastSocket => ready[w] = "none"
    /\ \A i \in DOMAIN pendingMessages : pendingMessages[i].op # "rpc"

AuthInv ==
    /\ SocketsInv
    /\ ~ dropped => Online
    /\ dropped => Offline
    /\ AuthFirst

LEMMA InitAuth == Init => AuthInv
<1> SUFFICES ASSUME Init PROVE AuthInv
  OBVIOUS
<1>1. SocketsInv
  BY Constants DEF Init, SocketsInv, Authinit, Socket
<1>2. Stream = <<>>
  BY Constants DEF Init, Stream
<1>3. Framed(Stream)
  <2>1. Len(Stream) = FrameLen * 0
    BY <1>2, Constants
  <2> QED BY <1>2, <2>1 DEF Framed, Aligned
<1>4. AllQueued
  BY DEF Init, AllQueued
<1>5. Online
  BY <1>2, <1>3, <1>4, Constants DEF Init, Online
<1>6. AuthFirst
  BY Constants DEF Init, AuthFirst
<1> QED BY <1>1, <1>5, <1>6 DEF Init, AuthInv

\* The mixer does not forget, and what it has received stays received.
LEMMA AuthedStays ==
    ASSUME TypeInv, served[1] \subseteq served'[1],
           up'[1] = up[1] \/ \E ms \in Seq(SentMessage) : up'[1] = up[1] \o ms, Authed
    PROVE  Authed'
<1>1. PICK j \in served[1] : j \in DOMAIN up[1] /\ up[1][j].op = "authinit"
  BY DEF Authed
<1>2. up[1] \in Seq(SentMessage)
  BY Constants DEF TypeInv, SocketTypes
<1>3. j \in DOMAIN up'[1] /\ up'[1][j] = up[1][j]
  <2>1. CASE up'[1] = up[1]
    BY <1>1, <2>1
  <2>2. ASSUME NEW ms \in Seq(SentMessage), up'[1] = up[1] \o ms
        PROVE  j \in DOMAIN up'[1] /\ up'[1][j] = up[1][j]
    <3>1. DOMAIN up[1] = 1..Len(up[1]) /\ Len(up[1]) \in Nat /\ Len(ms) \in Nat
      BY <1>2, LenProperties
    <3>2. /\ DOMAIN up'[1] = 1..Len(up[1]) + Len(ms)
          /\ \A k \in 1..Len(up[1]) + Len(ms) :
                up'[1][k] = IF k <= Len(up[1]) THEN up[1][k] ELSE ms[k - Len(up[1])]
      BY <1>2, <2>2, <3>1, ConcatProperties, LenProperties
    <3> QED BY <1>1, <3>1, <3>2
  <2> QED BY <2>1, <2>2
<1> QED BY <1>1, <1>3 DEF Authed

LEMMA AuthFirstKept ==
    ASSUME TypeInv, AuthFirst, \A w \in Socket : served[w] \subseteq served'[w],
           \A w \in Socket : \/ up'[w] = up[w]
                             \/ \E ms \in Seq(SentMessage) :
                                   /\ up'[w] = up[w] \o ms
                                   /\ \/ \A i \in DOMAIN ms : ms[i].op # "rpc"
                                      \/ w = 1 /\ Authed
    PROVE  AuthFirst'
<1> SUFFICES ASSUME NEW w \in Socket, NEW i \in DOMAIN up'[w], up'[w][i].op = "rpc"
             PROVE  \E j \in 1..(i - 1) : up'[w][j].op = "authinit" /\ j \in served'[w]
  BY DEF AuthFirst
<1>1. up[w] \in Seq(SentMessage) /\ DOMAIN up[w] = 1..Len(up[w]) /\ Len(up[w]) \in Nat
  BY LenProperties DEF TypeInv, SocketTypes
<1>2. ASSUME i \in DOMAIN up[w], up[w][i].op = "rpc",
             \A j \in DOMAIN up[w] : up'[w][j] = up[w][j]
      PROVE  \E j \in 1..(i - 1) : up'[w][j].op = "authinit" /\ j \in served'[w]
  <2>1. PICK j \in 1..(i - 1) : up[w][j].op = "authinit" /\ j \in served[w]
    BY <1>2 DEF AuthFirst
  <2>2. j \in DOMAIN up[w]
    BY <1>1, <1>2
  <2> QED BY <1>2, <2>1, <2>2
<1>3. CASE up'[w] = up[w]
  BY <1>2, <1>3
<1>4. ASSUME NEW ms \in Seq(SentMessage), up'[w] = up[w] \o ms,
             (\A k \in DOMAIN ms : ms[k].op # "rpc") \/ (w = 1 /\ Authed)
      PROVE  \E j \in 1..(i - 1) : up'[w][j].op = "authinit" /\ j \in served'[w]
  <2>1. /\ DOMAIN up'[w] = 1..Len(up[w]) + Len(ms) /\ Len(ms) \in Nat /\ DOMAIN ms = 1..Len(ms)
        /\ \A k \in 1..Len(up[w]) + Len(ms) :
              up'[w][k] = IF k <= Len(up[w]) THEN up[w][k] ELSE ms[k - Len(up[w])]
    BY <1>1, <1>4, ConcatProperties, LenProperties
  <2>2. \A j \in DOMAIN up[w] : up'[w][j] = up[w][j]
    BY <1>1, <2>1
  <2>3. CASE i <= Len(up[w])
    <3>1. i \in DOMAIN up[w]
      BY <1>1, <2>1, <2>3
    <3>2. up[w][i].op = "rpc"
      BY <2>2, <3>1
    <3> QED BY <1>2, <2>2, <3>1, <3>2
  <2>4. CASE ~ i <= Len(up[w])
    <3>1. i - Len(up[w]) \in DOMAIN ms /\ up'[w][i] = ms[i - Len(up[w])]
      <4>1. i \in 1..Len(up[w]) + Len(ms)
        BY <2>1
      <4>2. i - Len(up[w]) \in 1..Len(ms)
        BY <1>1, <2>1, <2>4, <4>1
      <4> QED BY <2>1, <2>4, <4>1, <4>2
    <3>2. w = 1 /\ Authed
      BY <1>4, <3>1
    <3>3. PICK j \in served[1] : j \in DOMAIN up[1] /\ up[1][j].op = "authinit"
      BY <3>2 DEF Authed
    <3>4. j \in 1..(i - 1)
      BY <1>1, <2>1, <2>4, <3>2, <3>3
    <3> QED BY <2>2, <3>2, <3>3, <3>4
  <2> QED BY <2>3, <2>4
<1> QED BY <1>3, <1>4

LEMMA FramedConcat ==
    ASSUME NEW s \in Seq(SentPiece), NEW t \in Seq(SentPiece), Framed(s), Framed(t)
    PROVE  Framed(s \o t)
<1> DEFINE u == s \o t
<1>1. /\ Len(s) \in Nat /\ Len(t) \in Nat /\ DOMAIN s = 1..Len(s) /\ DOMAIN t = 1..Len(t)
      /\ Len(u) = Len(s) + Len(t) /\ DOMAIN u = 1..Len(s) + Len(t)
      /\ \A i \in 1..Len(s) + Len(t) : u[i] = IF i <= Len(s) THEN s[i] ELSE t[i - Len(s)]
  BY ConcatProperties, LenProperties
<1> HIDE DEF u
<1>2. PICK p \in Nat : Len(s) = FrameLen * p
  BY DEF Framed
<1>3. PICK q \in Nat : Len(t) = FrameLen * q
  BY DEF Framed
<1>4. Len(u) = FrameLen * (p + q) /\ p + q \in Nat
  BY <1>1, <1>2, <1>3, Constants
<1>5. ASSUME NEW i \in DOMAIN u PROVE u[i].head = (i % FrameLen = 1)
  <2>1. i \in 1..Len(s) + Len(t)
    BY <1>1
  <2>2. CASE i <= Len(s)
    <3>1. i \in DOMAIN s /\ u[i] = s[i]
      BY <1>1, <2>1, <2>2
    <3> QED BY <3>1 DEF Framed, Aligned
  <2>3. CASE ~ i <= Len(s)
    <3> DEFINE j == i - Len(s)
    <3>1. j \in 1..Len(t) /\ u[i] = t[j] /\ i = FrameLen * p + j
      BY <1>1, <1>2, <2>1, <2>3
    <3> HIDE DEF j
    <3>2. i % FrameLen = j % FrameLen
      <4>1. j \in Nat /\ FrameLen \in Nat \ {0}
        BY <1>1, <3>1, Constants
      <4>2. (FrameLen * p + j) % FrameLen = j % FrameLen
        BY <4>1, ModShift
      <4> QED BY <3>1, <4>2
    <3>3. t[j].head = (j % FrameLen = 1)
      BY <1>1, <3>1 DEF Framed, Aligned
    <3> QED BY <3>1, <3>2, <3>3
  <2> QED BY <2>2, <2>3
<1>6. Framed(u)
  BY <1>4, <1>5 DEF Framed, Aligned
<1> QED BY <1>6 DEF u

LEMMA FrameIsFramed ==
    ASSUME NEW op, NEW id
    PROVE  Framed(Frame(op, id))
<1> DEFINE f == Frame(op, id)
<1>1. /\ Len(f) = FrameLen /\ DOMAIN f = 1..FrameLen
      /\ \A i \in 1..FrameLen : f[i].head = (i = 1)
  BY Frames DEF Frame
<1> HIDE DEF f
<1>2. ASSUME NEW i \in 1..FrameLen PROVE (i = 1) = (i % FrameLen = 1)
  <2>1. CASE i = FrameLen
    <3>1. (FrameLen * 1 + 0) % FrameLen = 0
      BY DivisionUnique, Constants
    <3>2. FrameLen * 1 + 0 = FrameLen /\ FrameLen # 1
      BY Constants
    <3> QED BY <2>1, <3>1, <3>2
  <2>2. CASE i # FrameLen
    <3>1. i \in 0..(FrameLen - 1) /\ FrameLen \in Nat \ {0}
      BY <2>2, Constants
    <3> QED BY <3>1, ModSmall
  <2> QED BY <2>1, <2>2
<1>3. Len(f) = FrameLen * 1
  BY <1>1, Constants
<1>4. Framed(f)
  BY <1>1, <1>2, <1>3 DEF Framed, Aligned
<1> QED BY <1>4 DEF f

\* When what there is of whole frames is dealt with, the rest of the stream is whole frames.
LEMMA FramedRest ==
    ASSUME NEW s \in Seq(SentPiece), NEW t \in Seq(SentPiece), Framed(s \o t)
    PROVE  /\ Aligned(s) /\ Framed(Rest(s) \o t)
           /\ \A i \in DOMAIN (Rest(s) \o t) :
                 \E j \in DOMAIN (s \o t) : (s \o t)[j] = (Rest(s) \o t)[i]
<1> DEFINE u == s \o t
           v == Rest(s) \o t
           m == Len(WholeFrames(s))
           k == FrameLen * m
<1>1. /\ Len(s) \in Nat /\ Len(t) \in Nat /\ DOMAIN s = 1..Len(s) /\ DOMAIN t = 1..Len(t)
      /\ Len(u) = Len(s) + Len(t) /\ DOMAIN u = 1..Len(s) + Len(t)
      /\ \A i \in 1..Len(s) + Len(t) : u[i] = IF i <= Len(s) THEN s[i] ELSE t[i - Len(s)]
  BY ConcatProperties, LenProperties
<1>2. PICK q \in Nat : Len(u) = FrameLen * q
  BY DEF Framed
<1>3. \A i \in DOMAIN u : u[i].head = (i % FrameLen = 1)
  BY DEF Framed, Aligned
<1> HIDE DEF u
<1>4. Aligned(s)
  <2> SUFFICES ASSUME NEW i \in DOMAIN s PROVE s[i].head = (i % FrameLen = 1)
    BY DEF Aligned
  <2>1. i \in DOMAIN u /\ u[i] = s[i]
    BY <1>1
  <2> QED BY <1>3, <2>1
<1>5. m \in Nat
  BY FramesOf, LenProperties
<1>6. k \in 0..Len(s) /\ Len(Rest(s)) = Len(s) - k /\ Rest(s) \in Seq(SentPiece)
      /\ \A i \in 1..Len(Rest(s)) : Rest(s)[i] = s[k + i]
  BY <1>4, RestOf
<1> HIDE DEF m, k
<1>7. /\ Len(v) = Len(Rest(s)) + Len(t) /\ DOMAIN v = 1..Len(Rest(s)) + Len(t)
      /\ \A i \in 1..Len(Rest(s)) + Len(t) :
            v[i] = IF i <= Len(Rest(s)) THEN Rest(s)[i] ELSE t[i - Len(Rest(s))]
  <2> DEFINE R == Rest(s)
  <2>1. R \in Seq(SentPiece)
    BY <1>6
  <2> HIDE DEF R
  <2>2. /\ R \o t \in Seq(SentPiece) /\ Len(R \o t) = Len(R) + Len(t)
        /\ \A i \in 1..Len(R) + Len(t) : (R \o t)[i] = IF i <= Len(R) THEN R[i] ELSE t[i - Len(R)]
    BY <2>1, ConcatProperties
  <2>3. DOMAIN (R \o t) = 1..Len(R) + Len(t)
    BY <2>2, LenProperties
  <2> QED BY <2>2, <2>3 DEF R
<1> HIDE DEF v
<1>8. ASSUME NEW i \in DOMAIN v PROVE i \in Nat /\ k + i \in DOMAIN u /\ v[i] = u[k + i]
  <2>1. i \in 1..(Len(s) - k) + Len(t) /\ k + i \in 1..Len(s) + Len(t)
    BY <1>1, <1>6, <1>7
  <2>2. CASE i <= Len(s) - k
    BY <1>1, <1>6, <1>7, <2>1, <2>2
  <2>3. CASE ~ i <= Len(s) - k
    <3>1. i - (Len(s) - k) = (k + i) - Len(s) /\ ~ k + i <= Len(s)
      BY <1>1, <1>6, <2>1, <2>3
    <3> QED BY <1>1, <1>6, <1>7, <2>1, <2>3, <3>1
  <2> QED BY <2>2, <2>3
<1>9. ASSUME NEW i \in DOMAIN v PROVE v[i].head = (i % FrameLen = 1)
  <2>1. (FrameLen * m + i) % FrameLen = i % FrameLen
    BY <1>5, <1>8, ModShift, Constants
  <2> QED BY <1>3, <1>8, <2>1 DEF k
<1>10. \E p \in Nat : Len(v) = FrameLen * p
  <2>1. Len(v) = FrameLen * q - FrameLen * m /\ Len(v) >= 0
    BY <1>1, <1>2, <1>6, <1>7 DEF k
  <2>2. ~ q < m
    <3> SUFFICES ASSUME q < m PROVE FALSE
      OBVIOUS
    <3>1. FrameLen * (q + 1) <= FrameLen * m
      BY <1>5, TimesMono, Constants
    <3>2. FrameLen * (q + 1) = FrameLen * q + FrameLen
      BY Constants
    <3>3. FrameLen * q \in Nat /\ FrameLen * m \in Nat /\ FrameLen \in Nat \ {0, 1}
      BY <1>5, Constants
    <3> QED BY <2>1, <3>1, <3>2, <3>3
  <2>3. q - m \in Nat /\ FrameLen * (q - m) = FrameLen * q - FrameLen * m
    BY <1>5, <2>2, Constants
  <2> QED BY <2>1, <2>3
<1>11. Framed(v)
  BY <1>9, <1>10 DEF Framed, Aligned
<1> QED BY <1>4, <1>8, <1>11 DEF u, v

\* The stream, cut where a message ends
LEMMA StreamIsCut ==
    ASSUME TypeInv, NEW n \in Nat, Receives(1, n)
    PROVE  LET all  == data \o SubSeq(down[1], 1, n)
               rest == SubSeq(down[1], n + 1, Len(down[1]))
           IN  Stream = all \o rest /\ down'[1] = rest
<1>1. /\ SubSeq(down[1], 1, n) \in Seq(SentPiece) /\ n \in 1..Len(down[1])
      /\ SubSeq(down[1], n + 1, Len(down[1])) \in Seq(SentPiece)
      /\ down' = [down EXCEPT ![1] = SubSeq(@, n + 1, Len(@))]
  BY ReadsOn, Constants
<1>2. down[1] \in Seq(SentPiece) /\ data \in Seq(SentPiece) /\ 1 \in DOMAIN down
  BY Constants DEF TypeInv, MixerTypes, StreamTypes
<1>3. SubSeq(down[1], 1, n) \o SubSeq(down[1], n + 1, Len(down[1])) = down[1]
  <2>1. 1 \in 1..Len(down[1]) + 1 /\ n \in 1 - 1..Len(down[1]) /\ Len(down[1]) \in n..Len(down[1])
    BY <1>1, <1>2
  <2> QED BY <1>2, <2>1, ConcatAdjacentSubSeq, SubSeqFull
<1> DEFINE new  == SubSeq(down[1], 1, n)
           rest == SubSeq(down[1], n + 1, Len(down[1]))
<1>4. down'[1] = rest
  BY <1>1, <1>2
<1>5. new \in Seq(SentPiece) /\ rest \in Seq(SentPiece) /\ new \o rest = down[1]
  BY <1>1, <1>3
<1> HIDE DEF new, rest
<1>6. Stream = (data \o new) \o rest
  <2>1. (data \o new) \o rest = data \o (new \o rest)
    <3>1. ASSUME NEW a \in Seq(SentPiece), NEW b \in Seq(SentPiece), NEW c \in Seq(SentPiece)
          PROVE  (a \o b) \o c = a \o (b \o c)
      BY ConcatAssociative
    <3>2. /\ data \in Seq(SentPiece) /\ new \in Seq(SentPiece) /\ rest \in Seq(SentPiece)
      BY <1>2, <1>5
    <3> QED BY <3>1, <3>2, Zenon
  <2> QED BY <1>5, <2>1 DEF Stream
<1> QED BY <1>4, <1>6 DEF new, rest

NoRpc(ms) == \A i \in DOMAIN ms : ms[i].op # "rpc"

LEMMA NoRpcConcat ==
    ASSUME NEW s \in Seq(SentMessage), NEW t \in Seq(SentMessage), NoRpc(s), NoRpc(t)
    PROVE  NoRpc(s \o t)
<1>1. /\ Len(s) \in Nat /\ Len(t) \in Nat /\ DOMAIN s = 1..Len(s) /\ DOMAIN t = 1..Len(t)
      /\ DOMAIN (s \o t) = 1..Len(s) + Len(t)
      /\ \A i \in 1..Len(s) + Len(t) : (s \o t)[i] = IF i <= Len(s) THEN s[i] ELSE t[i - Len(s)]
  BY ConcatProperties, LenProperties
<1> SUFFICES ASSUME NEW i \in 1..Len(s) + Len(t) PROVE (s \o t)[i].op # "rpc"
  BY <1>1 DEF NoRpc
<1>2. CASE i <= Len(s)
  <2>1. i \in DOMAIN s
    BY <1>1, <1>2
  <2> QED BY <1>1, <1>2, <2>1 DEF NoRpc
<1>3. CASE ~ i <= Len(s)
  <2>1. i - Len(s) \in DOMAIN t
    BY <1>1, <1>3
  <2> QED BY <1>1, <1>3, <2>1 DEF NoRpc
<1> QED BY <1>2, <1>3

\* Sending what is no RPC
LEMMA SendSockets ==
    ASSUME TypeInv, SocketsInv, AuthFirst, UNCHANGED served,
           NEW ms \in Seq(SentMessage), NoRpc(ms), NEW map, SendMessages(ms, map)
    PROVE  SocketsInv' /\ AuthFirst' /\ (Authed => Authed')
<1>1. NoRpc(pendingMessages) /\ pendingMessages \in Seq(SentMessage)
  BY DEF SocketsInv, NoRpc, TypeInv, SocketTypes
<1>2. ws <= lastSocket /\ lastSocket \in Nat /\ \A w \in Socket : w \in Nat
  BY DEF SocketsInv, TypeInv, SocketTypes, Socket
<1>3. \A w \in Socket : up'[w] = up[w] \/ up'[w] = up[w] \o ms
  BY DEF SendMessages, TypeInv, SocketTypes
<1>4. AuthFirst' /\ (Authed => Authed')
  <2>1. \A w \in Socket : \/ up'[w] = up[w]
                          \/ \E xs \in Seq(SentMessage) :
                                /\ up'[w] = up[w] \o xs
                                /\ (\A i \in DOMAIN xs : xs[i].op # "rpc") \/ (w = 1 /\ Authed)
    BY <1>3 DEF NoRpc
  <2>2. \A w \in Socket : served[w] \subseteq served'[w]
    OBVIOUS
  <2>3. up'[1] = up[1] \/ \E xs \in Seq(SentMessage) : up'[1] = up[1] \o xs
    BY <1>3, Constants
  <2> QED BY <2>1, <2>2, <2>3, AuthFirstKept, AuthedStays, Constants
<1>5. CASE IsOpen
  <2>1. UNCHANGED <<pendingMessages, ws, lastSocket, ready>>
    BY <1>5 DEF SendMessages
  <2> QED BY <1>4, <2>1 DEF SocketsInv
<1>6. CASE ~ IsOpen /\ opening
  <2>1. NoRpc(pendingMessages \o ms) /\ pendingMessages' = pendingMessages \o ms
    BY <1>1, <1>6, NoRpcConcat DEF SendMessages
  <2>2. UNCHANGED <<ws, lastSocket, ready>>
    BY <1>6 DEF SendMessages
  <2> QED BY <1>4, <2>1, <2>2 DEF SocketsInv, NoRpc
<1>7. CASE ~ IsOpen /\ ~ opening
  <2>1. ws' = lastSocket + 1 /\ lastSocket' = lastSocket + 1
        /\ ready' = [ready EXCEPT ![ws'] = "connecting"]
        /\ pendingMessages' = pendingMessages \o <<Authinit(authmuxid)>> \o ms
    BY <1>7 DEF SendMessages
  <2>2. NoRpc(<<Authinit(authmuxid)>>) /\ <<Authinit(authmuxid)>> \in Seq(SentMessage)
    BY Messages DEF NoRpc, Authinit, TypeInv, PageTypes
  <2>3. /\ NoRpc(pendingMessages \o <<Authinit(authmuxid)>>)
        /\ pendingMessages \o <<Authinit(authmuxid)>> \in Seq(SentMessage)
    BY <1>1, <2>2, NoRpcConcat, ConcatProperties
  <2>4. NoRpc(pendingMessages')
    BY <2>1, <2>3, NoRpcConcat
  <2>5. \A w \in Socket : w > lastSocket' => ready'[w] = "none"
    BY <1>2, <2>1 DEF SocketsInv, TypeInv, SocketTypes
  <2> QED BY <1>2, <1>4, <2>1, <2>4, <2>5 DEF SocketsInv, NoRpc
<1> QED BY <1>4, <1>5, <1>6, <1>7

LEMMA AskAuth == ASSUME TypeInv, AuthInv, PageRpc PROVE AuthInv'
<1>1. /\ ~ dropped /\ dropped' = dropped /\ authwebsocketid' = authwebsocketid
      /\ lastRpc' = lastRpc + 1 /\ lastRpc \in Nat /\ lastRpc' \in Rpc
      /\ UNCHANGED <<data, down, served>>
  BY Constants DEF PageRpc, stream, mixer, TypeInv, PageTypes, Rpc
<1>2. Online /\ SocketsInv /\ AuthFirst
  BY <1>1 DEF AuthInv
<1>3. Stream' = Stream
  BY <1>1 DEF Stream
<1>4. CASE MustQueue
  <2>1. /\ queue' = Append(queue, lastRpc') /\ authwebsocketid = None
        /\ UNCHANGED <<ws, opening, pendingMessages, lastSocket, ready, up>>
    BY <1>4 DEF PageRpc, MustQueue
  <2>2. AllQueued'
    <3> SUFFICES ASSUME NEW r \in 1..lastRpc' PROVE InQueue(r)'
      BY DEF AllQueued
    <3>1. queue' \in Seq(Rpc) /\ Len(queue') = Len(queue) + 1 /\ queue'[Len(queue) + 1] = lastRpc'
          /\ DOMAIN queue' = 1..Len(queue) + 1 /\ DOMAIN queue = 1..Len(queue) /\ Len(queue) \in Nat
          /\ \A i \in 1..Len(queue) : queue'[i] = queue[i]
      BY <1>1, <2>1, AppendProperties, LenProperties DEF TypeInv, PageTypes
    <3>2. CASE r = lastRpc'
      BY <3>1, <3>2 DEF InQueue
    <3>3. CASE r # lastRpc'
      <4>1. r \in 1..lastRpc
        BY <1>1, <3>3
      <4>2. InQueue(r)
        BY <1>2, <2>1, <4>1 DEF Online, AllQueued
      <4> QED BY <3>1, <4>2 DEF InQueue
    <3> QED BY <3>2, <3>3
  <2>3. Authed' <=> Authed
    BY <1>1, <2>1 DEF Authed
  <2>4. Online'
    BY <1>1, <1>2, <1>3, <2>1, <2>2, <2>3 DEF Online
  <2>5. SocketsInv' /\ AuthFirst'
    BY <1>1, <1>2, <2>1 DEF SocketsInv, AuthFirst
  <2> QED BY <1>1, <2>4, <2>5 DEF AuthInv
<1>5. CASE ~ MustQueue
  <2> DEFINE ms == <<[op |-> "rpc", muxid |-> lastRpc']>>
  <2>1. authwebsocketid # None /\ queue' = queue /\ SendMessages(ms, muxMap \cup {lastRpc'})
    BY <1>5 DEF PageRpc, MustQueue
  <2>2. ws = 1 /\ ready[1] = "open" /\ Authed /\ IsOpen
    BY <1>2, <2>1, Constants DEF Online, IsOpen, None
  <2>3. up' = [up EXCEPT ![1] = @ \o ms]
        /\ UNCHANGED <<ws, opening, pendingMessages, lastSocket, ready>>
    BY <2>1, <2>2 DEF SendMessages
  <2>4. ms \in Seq(SentMessage)
    BY <1>1, Messages
  <2> HIDE DEF ms
  <2>5. \A w \in Socket : up'[w] = up[w] \/ (w = 1 /\ up'[w] = up[w] \o ms)
    BY <2>3 DEF TypeInv, SocketTypes
  <2>6. AuthFirst'
    <3>1. \A w \in Socket : \/ up'[w] = up[w]
                            \/ \E xs \in Seq(SentMessage) :
                                  /\ up'[w] = up[w] \o xs
                                  /\ (\A i \in DOMAIN xs : xs[i].op # "rpc") \/ (w = 1 /\ Authed)
      BY <2>2, <2>4, <2>5
    <3> QED BY <1>1, <1>2, <3>1, AuthFirstKept
  <2>7. Authed'
    <3>1. up'[1] = up[1] \/ \E xs \in Seq(SentMessage) : up'[1] = up[1] \o xs
      BY <2>4, <2>5, Constants
    <3> QED BY <1>1, <2>2, <3>1, AuthedStays
  <2>8. Online'
    BY <1>1, <1>2, <1>3, <2>1, <2>2, <2>3, <2>7 DEF Online
  <2>9. SocketsInv'
    BY <1>2, <2>3 DEF SocketsInv
  <2> QED BY <1>1, <2>6, <2>8, <2>9 DEF AuthInv
<1> QED BY <1>4, <1>5

LEMMA DataAuth == ASSUME TypeInv, AuthInv, PageData PROVE AuthInv'
<1>1. PICK r \in 1..lastRpc :
         /\ \A i \in DOMAIN queue : queue[i] # r
         /\ SendMessages(<<[op |-> "data", muxid |-> r]>>, muxMap)
  BY DEF PageData
<1>2. /\ UNCHANGED <<authwebsocketid, queue, lastRpc, dropped, data, down, served>>
      /\ r \in Rpc /\ dropped \in BOOLEAN
  BY Constants DEF PageData, stream, mixer, TypeInv, PageTypes, Rpc
<1>3. ~ AllQueued
  BY <1>1 DEF AllQueued, InQueue
<1> DEFINE ms == <<[op |-> "data", muxid |-> r]>>
<1>4. ms \in Seq(SentMessage) /\ NoRpc(ms)
  BY <1>2, Messages DEF NoRpc
<1>5. SendMessages(ms, muxMap)
  BY <1>1
<1> HIDE DEF ms
<1>6. SocketsInv' /\ AuthFirst' /\ (Authed => Authed')
  <2>1. SocketsInv /\ AuthFirst /\ UNCHANGED served
    BY <1>2 DEF AuthInv
  <2> QED BY <1>4, <1>5, <2>1, SendSockets
<1>7. CASE ~ dropped
  <2>1. Online /\ authwebsocketid # None
    BY <1>3, <1>7 DEF AuthInv, Online
  <2>2. IsOpen
    BY <2>1, Constants DEF Online, IsOpen, None
  <2>3. UNCHANGED <<ws, opening, lastSocket, ready>>
    BY <1>5, <2>2 DEF SendMessages
  <2>4. Stream' = Stream
    BY <1>2 DEF Stream
  <2>5. Online'
    BY <1>2, <1>6, <2>1, <2>3, <2>4 DEF Online
  <2> QED BY <1>2, <1>6, <1>7, <2>5 DEF AuthInv
<1>8. CASE dropped
  <2>1. queue = <<>>
    BY <1>3, <1>8 DEF AuthInv, Offline
  <2>2. Offline'
    BY <1>2, <2>1 DEF Offline
  <2> QED BY <1>2, <1>6, <1>8, <2>2 DEF AuthInv
<1> QED BY <1>7, <1>8

LEMMA PageClosesAuth == ASSUME TypeInv, AuthInv, PageCloses PROVE AuthInv'
<1>1. /\ dropped' /\ ws' = None /\ ready' = IF opening THEN [ready EXCEPT ![ws] = "closing"] ELSE ready
      /\ UNCHANGED <<pendingMessages, queue, lastRpc, lastSocket, up, served>>
  BY DEF PageCloses, mixer
<1>2. Online /\ SocketsInv /\ AuthFirst
  BY DEF PageCloses, AuthInv
<1>3. ready' = [ready EXCEPT ![1] = "closing"] /\ lastSocket = 1
  BY <1>1, <1>2 DEF Online
<1>4. SocketsInv'
  <2>1. \A w \in Socket : w > lastSocket => ready'[w] = "none"
    BY <1>2, <1>3 DEF SocketsInv, TypeInv, SocketTypes
  <2> QED BY <1>1, <1>2, <1>3, <2>1, Constants DEF SocketsInv, None
<1>5. AuthFirst'
  BY <1>1, <1>2 DEF AuthFirst
<1>6. Offline'
  <2>1. ready'[1] = "closing"
    BY <1>3, Constants DEF TypeInv, SocketTypes
  <2>2. queue # <<>> => AllQueued
    BY <1>2 DEF Online
  <2>3. AllQueued' <=> AllQueued
    BY <1>1 DEF AllQueued, InQueue
  <2> QED BY <1>1, <1>3, <2>1, <2>2, <2>3 DEF Offline
<1> QED BY <1>1, <1>4, <1>5, <1>6 DEF AuthInv

LEMMA CloseAuth ==
    ASSUME TypeInv, AuthInv, NEW w \in Socket, Closed(w), ready[w] # "none"
    PROVE  AuthInv'
<1>1. /\ dropped' /\ ws' = None
      /\ UNCHANGED <<pendingMessages, queue, lastRpc, lastSocket, up, served>>
  BY DEF Closed, ForceClose, mixer
<1>2. SocketsInv /\ AuthFirst /\ (~ dropped => Online) /\ (dropped => Offline)
  BY DEF AuthInv
<1>3. /\ ready'[w] = "closed"
      /\ \A x \in Socket : ready'[x] = ready[x] \/ x = w \/ (x = ws /\ ready'[x] = "closing")
  BY DEF Closed, TypeInv, SocketTypes
<1>4. w <= lastSocket /\ ws <= lastSocket /\ lastSocket \in Nat \ {0} /\ \A x \in Socket : x \in Nat
  BY <1>2, Constants DEF SocketsInv, TypeInv, SocketTypes, Socket
<1>5. SocketsInv'
  <2>1. \A x \in Socket : x > lastSocket => ready'[x] = "none"
    BY <1>2, <1>3, <1>4 DEF SocketsInv
  <2> QED BY <1>1, <1>2, <1>4, <2>1 DEF SocketsInv, None
<1>6. AuthFirst'
  BY <1>1, <1>2 DEF AuthFirst
<1>7. Offline'
  <2> SUFFICES ASSUME queue # <<>>
               PROVE  lastSocket = 1 /\ ready'[1] \in {"closing", "closed"} /\ AllQueued
    BY <1>1 DEF Offline, AllQueued, InQueue
  <2>1. lastSocket = 1 /\ AllQueued
    BY <1>2 DEF Online, Offline, TypeInv, PageTypes
  <2>2. w = 1
    BY <1>4, <2>1 DEF Socket
  <2> QED BY <1>3, <2>1, <2>2
<1> QED BY <1>1, <1>5, <1>6, <1>7 DEF AuthInv

\* What is pending goes out, or its first message is lost.
LEMMA OpenAuth == ASSUME TypeInv, AuthInv, NEW w \in Socket, SocketOpens(w) PROVE AuthInv'
<1> DEFINE state == IF ws = None THEN "none" ELSE ready'[ws]
<1>1. /\ ready[w] = "connecting" /\ ready' = [ready EXCEPT ![w] = "open"]
      /\ up' = IF state = "open" THEN [up EXCEPT ![ws] = @ \o pendingMessages] ELSE up
      /\ pendingMessages' = IF state \in {"open", "closing"} \/ pendingMessages = <<>>
                            THEN <<>> ELSE Tail(pendingMessages)
      /\ UNCHANGED <<ws, opening, authwebsocketid, queue, data, lastRpc, dropped, lastSocket,
                     served, down>>
  BY DEF SocketOpens, stream, page, mixer
<1> HIDE DEF state
<1>2. SocketsInv /\ AuthFirst /\ (~ dropped => Online) /\ (dropped => Offline)
  BY DEF AuthInv
<1>3. pendingMessages \in Seq(SentMessage) /\ NoRpc(pendingMessages) /\ NoRpc(pendingMessages')
  <2>1. pendingMessages \in Seq(SentMessage) /\ NoRpc(pendingMessages)
    BY <1>2 DEF SocketsInv, NoRpc, TypeInv, SocketTypes
  <2>2. CASE pendingMessages' = <<>>
    BY <2>1, <2>2 DEF NoRpc
  <2>3. CASE pendingMessages # <<>> /\ pendingMessages' = Tail(pendingMessages)
    <3>1. \A i \in DOMAIN Tail(pendingMessages) :
             i + 1 \in DOMAIN pendingMessages
             /\ Tail(pendingMessages)[i] = pendingMessages[i + 1]
      BY <2>1, <2>3, LenProperties, HeadTailProperties
    <3> QED BY <2>1, <2>3, <3>1 DEF NoRpc
  <2> QED BY <1>1, <2>1, <2>2, <2>3
<1>4. \A x \in Socket : up'[x] = up[x] \/ up'[x] = up[x] \o pendingMessages
  BY <1>1 DEF TypeInv, SocketTypes
<1>5. AuthFirst' /\ (Authed => Authed')
  <2>1. \A x \in Socket : \/ up'[x] = up[x]
                          \/ \E ms \in Seq(SentMessage) :
                                /\ up'[x] = up[x] \o ms
                                /\ (\A i \in DOMAIN ms : ms[i].op # "rpc") \/ (x = 1 /\ Authed)
    BY <1>3, <1>4 DEF NoRpc
  <2>2. \A x \in Socket : served[x] \subseteq served'[x]
    BY <1>1
  <2>3. up'[1] = up[1] \/ \E ms \in Seq(SentMessage) : up'[1] = up[1] \o ms
    BY <1>3, <1>4, Constants
  <2> QED BY <1>2, <2>1, <2>2, <2>3, AuthFirstKept, AuthedStays, Constants
<1>6. w <= lastSocket /\ lastSocket \in Nat /\ w \in Nat \ {0}
  BY <1>1, <1>2 DEF SocketsInv, TypeInv, SocketTypes, Socket
<1>7. SocketsInv'
  <2>1. \A x \in Socket : x > lastSocket => ready'[x] = "none"
    BY <1>1, <1>2, <1>6 DEF SocketsInv, TypeInv, SocketTypes
  <2> QED BY <1>1, <1>2, <1>3, <2>1 DEF SocketsInv, NoRpc
<1>8. CASE ~ dropped
  <2>1. Online
    BY <1>2, <1>8
  <2>2. w = 1 /\ ready'[1] = "open"
    BY <1>1, <1>6, <2>1, Constants DEF Online, TypeInv, SocketTypes
  <2>3. Stream' = Stream
    BY <1>1 DEF Stream
  <2>4. AllQueued' <=> AllQueued
    BY <1>1 DEF AllQueued, InQueue
  <2>5. Online'
    BY <1>1, <1>5, <2>1, <2>2, <2>3, <2>4 DEF Online
  <2> QED BY <1>1, <1>5, <1>7, <1>8, <2>5 DEF AuthInv
<1>9. CASE dropped
  <2>1. queue = <<>>
    <3> SUFFICES ASSUME queue # <<>> PROVE FALSE
      OBVIOUS
    <3>1. lastSocket = 1 /\ ready[1] \in {"closing", "closed"}
      BY <1>2, <1>9 DEF Offline
    <3> QED BY <1>1, <1>6, <3>1
  <2>2. Offline'
    BY <1>1, <2>1 DEF Offline
  <2> QED BY <1>1, <1>5, <1>7, <1>9, <2>2 DEF AuthInv
<1> QED BY <1>8, <1>9, <1>1 DEF TypeInv, PageTypes

\* What the mixer sends are whole frames, and its answer to an authinit says it is served.
LEMMA MixerSendsAuth ==
    ASSUME TypeInv, AuthInv, NEW w \in Socket, NEW i \in DOMAIN up[w] \ served[w],
           NEW frames \in Seq(SentPiece), NEW done \in BOOLEAN, MixerSends(w, i, frames, done),
           Framed(frames),
           \A k \in DOMAIN frames : frames[k].op = "authinit" => up[w][i].op = "authinit" /\ done
    PROVE  AuthInv'
<1>1. /\ ready[w] = "open"
      /\ down' = [down EXCEPT ![w] = @ \o frames]
      /\ served' = IF done THEN [served EXCEPT ![w] = @ \cup {i}] ELSE served
      /\ UNCHANGED <<ws, opening, authwebsocketid, queue, pendingMessages, data, lastRpc, dropped,
                     lastSocket, ready, up>>
  BY DEF MixerSends, muxer, stream, page
<1>2. SocketsInv /\ AuthFirst /\ (~ dropped => Online) /\ (dropped => Offline)
  BY DEF AuthInv
<1>3. \A x \in Socket : served[x] \subseteq served'[x]
  BY <1>1 DEF TypeInv, MixerTypes
<1>4. SocketsInv' /\ AuthFirst'
  BY <1>1, <1>2, <1>3 DEF SocketsInv, AuthFirst
<1>5. AllQueued' <=> AllQueued
  BY <1>1 DEF AllQueued, InQueue
<1>6. CASE dropped
  <2>1. Offline'
    BY <1>1, <1>2, <1>5, <1>6 DEF Offline
  <2> QED BY <1>1, <1>4, <1>6, <2>1 DEF AuthInv
<1>7. CASE ~ dropped
  <2>1. Online /\ w \in Nat \ {0} /\ w <= lastSocket /\ lastSocket = 1
    BY <1>1, <1>2, <1>7 DEF SocketsInv, Online, TypeInv, SocketTypes, Socket
  <2>2. w = 1
    BY <2>1
  <2>3. data \in Seq(SentPiece) /\ down[1] \in Seq(SentPiece) /\ frames \in Seq(SentPiece)
    BY Constants DEF TypeInv, StreamTypes, MixerTypes
  <2>4. Stream' = Stream \o frames
    <3>1. down'[1] = down[1] \o frames
      BY <1>1, <2>2 DEF TypeInv, MixerTypes
    <3>2. \A d \in Seq(SentPiece) : (data \o d) \o frames = data \o (d \o frames)
      <4> TAKE d \in Seq(SentPiece)
      <4>1. data \in Seq(SentPiece) /\ d \in Seq(SentPiece) /\ frames \in Seq(SentPiece)
        BY <2>3
      <4> QED BY <4>1, ConcatAssociative
    <3>3. Stream' = data \o (down[1] \o frames)
      BY <1>1, <3>1 DEF Stream
    <3> QED BY <2>3, <3>2, <3>3 DEF Stream
  <2>5. Stream \in Seq(SentPiece)
    BY <2>3, ConcatProperties DEF Stream
  <2>6. Framed(Stream')
    <3>1. Framed(Stream)
      BY <2>1 DEF Online
    <3> QED BY <2>3, <2>4, <2>5, <3>1, FramedConcat
  <2>7. Authed => Authed'
    BY <1>1, <1>3, AuthedStays, Constants
  <2>8. ASSUME NEW k \in DOMAIN Stream', Stream'[k].op = "authinit" PROVE Authed'
    <3>1. /\ DOMAIN Stream = 1..Len(Stream) /\ DOMAIN frames = 1..Len(frames)
          /\ Len(Stream) \in Nat /\ Len(frames) \in Nat
          /\ DOMAIN (Stream \o frames) = 1..Len(Stream) + Len(frames)
          /\ \A j \in 1..Len(Stream) + Len(frames) :
                (Stream \o frames)[j] = IF j <= Len(Stream) THEN Stream[j] ELSE frames[j - Len(Stream)]
      BY <2>3, <2>5, ConcatProperties, LenProperties
    <3>2. CASE k <= Len(Stream)
      <4>1. k \in DOMAIN Stream /\ Stream[k].op = "authinit"
        BY <2>4, <2>8, <3>1, <3>2
      <4> QED BY <2>1, <2>7, <4>1 DEF Online
    <3>3. CASE ~ k <= Len(Stream)
      <4>1. k - Len(Stream) \in DOMAIN frames /\ frames[k - Len(Stream)].op = "authinit"
        BY <2>4, <2>8, <3>1, <3>3
      <4>2. up[1][i].op = "authinit" /\ i \in served'[1] /\ i \in DOMAIN up[1]
        BY <1>1, <2>2, <4>1 DEF TypeInv, MixerTypes
      <4> QED BY <1>1, <4>2 DEF Authed
    <3> QED BY <3>2, <3>3
  <2>9. Online'
    BY <1>1, <1>5, <2>1, <2>6, <2>7, <2>8 DEF Online
  <2> QED BY <1>1, <1>4, <1>7, <2>9 DEF AuthInv
<1> QED BY <1>6, <1>7, <1>1

LEMMA MixerAuth ==
    ASSUME TypeInv, AuthInv, NEW w \in Socket, NEW i \in DOMAIN up[w],
           MixerAuthenticates(w, i) \/ MixerReplies(w, i) \/ MixerFinishes(w, i)
    PROVE  AuthInv'
<1>1. up[w][i] \in SentMessage
  BY ElementOfSeq, LenProperties DEF TypeInv, SocketTypes
<1> DEFINE id == up[w][i].muxid
<1>2. /\ (up[w][i].op = "authinit") => id \in {Auth, None}
      /\ (up[w][i].op = "rpc") => id \in Rpc
  BY <1>1 DEF SentMessage, Message
<1>3. ASSUME NEW op \in {"authinit", "reply", "complete", "error"}
      PROVE  \A k \in DOMAIN Frame(op, id) : Frame(op, id)[k].op = op
  BY DEF Frame
<1>4. CASE MixerAuthenticates(w, i)
  <2> DEFINE frames == Frame("authinit", id)
  <2>1. MixerSends(w, i, frames, TRUE) /\ up[w][i].op = "authinit"
    BY <1>4 DEF MixerAuthenticates
  <2>2. frames \in Seq(SentPiece) /\ Framed(frames)
    BY <1>2, <2>1, Frames, FrameIsFramed
  <2>3. i \in DOMAIN up[w] \ served[w]
    BY <2>1 DEF MixerSends
  <2> HIDE DEF frames
  <2> QED BY <2>1, <2>2, <2>3, MixerSendsAuth
<1>5. CASE MixerReplies(w, i)
  <2> DEFINE frames == Frame("reply", id)
  <2>1. MixerSends(w, i, frames, FALSE) /\ up[w][i].op = "rpc"
    BY <1>5 DEF MixerReplies
  <2>2. frames \in Seq(SentPiece) /\ Framed(frames)
    BY <1>2, <2>1, Frames, FrameIsFramed
  <2>3. i \in DOMAIN up[w] \ served[w]
    BY <2>1 DEF MixerSends
  <2>4. \A k \in DOMAIN frames : frames[k].op # "authinit"
    BY <1>3
  <2> HIDE DEF frames
  <2> QED BY <2>1, <2>2, <2>3, <2>4, MixerSendsAuth
<1>6. CASE MixerFinishes(w, i)
  <2>1. PICK frames \in {Frame("complete", id), Frame("error", id),
                         Frame("error", id) \o Frame("error", id)} :
           MixerSends(w, i, frames, TRUE)
    BY <1>6 DEF MixerFinishes
  <2>2. up[w][i].op = "rpc"
    BY <1>6 DEF MixerFinishes
  <2>3. i \in DOMAIN up[w] \ served[w]
    BY <2>1 DEF MixerSends
  <2>4. /\ Frame("complete", id) \in Seq(SentPiece) /\ Framed(Frame("complete", id))
        /\ Frame("error", id) \in Seq(SentPiece) /\ Framed(Frame("error", id))
        /\ \A k \in DOMAIN Frame("complete", id) : Frame("complete", id)[k].op # "authinit"
        /\ \A k \in DOMAIN Frame("error", id) : Frame("error", id)[k].op # "authinit"
    BY <1>2, <1>3, <2>2, Frames, FrameIsFramed
  <2>5. /\ Frame("error", id) \o Frame("error", id) \in Seq(SentPiece)
        /\ Framed(Frame("error", id) \o Frame("error", id))
    BY <2>4, FramedConcat, ConcatProperties
  <2>6. ASSUME NEW f \in Seq(SentPiece), \A k \in DOMAIN f : f[k].op # "authinit"
        PROVE  \A k \in DOMAIN (f \o f) : (f \o f)[k].op # "authinit"
    <3>1. /\ DOMAIN f = 1..Len(f) /\ Len(f) \in Nat /\ DOMAIN (f \o f) = 1..Len(f) + Len(f)
          /\ \A k \in 1..Len(f) + Len(f) : (f \o f)[k] = IF k <= Len(f) THEN f[k] ELSE f[k - Len(f)]
      BY ConcatProperties, LenProperties
    <3> QED BY <2>6, <3>1
  <2>7. frames \in Seq(SentPiece) /\ Framed(frames) /\ \A k \in DOMAIN frames : frames[k].op # "authinit"
    BY <2>1, <2>4, <2>5, <2>6
  <2> QED BY <2>1, <2>3, <2>7, MixerSendsAuth
<1> QED BY <1>4, <1>5, <1>6

LEMMA DispatchAuth ==
    ASSUME TypeInv, AuthInv, ~ dropped, ready[1] = "open", UNCHANGED <<lastRpc, dropped, served>>,
           NEW all \in Seq(SentPiece), NEW rest \in Seq(SentPiece), Stream = all \o rest,
           down'[1] = rest, Dispatch(1, all)
    PROVE  AuthInv'
<1> DEFINE F == WholeFrames(all)
<1>1. Online /\ SocketsInv /\ AuthFirst
  BY DEF AuthInv
<1>2. /\ Aligned(all) /\ Framed(Rest(all) \o rest)
      /\ \A i \in DOMAIN (Rest(all) \o rest) :
            \E j \in DOMAIN (all \o rest) : (all \o rest)[j] = (Rest(all) \o rest)[i]
  BY <1>1, FramedRest DEF Online
<1>3. data' = Rest(all)
  BY <1>2 DEF Dispatch, Rest
<1>4. Stream' = Rest(all) \o rest
  BY <1>3 DEF Stream
<1>5. \A i \in DOMAIN F : F[i].op = "authinit" => Authed
  <2> SUFFICES ASSUME NEW i \in DOMAIN F, F[i].op = "authinit" PROVE Authed
    OBVIOUS
  <2>1. F \in Seq(SentPiece) /\ i \in 1..Len(F)
    BY FramesOf, LenProperties
  <2>2. FrameLen * (i - 1) + 1 \in 1..Len(all) /\ F[i] = all[FrameLen * (i - 1) + 1]
    BY <2>1, FramesOf
  <2> DEFINE k == FrameLen * (i - 1) + 1
  <2>3. k \in 1..Len(all) /\ all[k].op = "authinit"
    BY <2>2
  <2> HIDE DEF k
  <2>4. k \in DOMAIN (all \o rest) /\ (all \o rest)[k] = all[k]
    <3>1. /\ Len(all) \in Nat /\ Len(rest) \in Nat
          /\ DOMAIN (all \o rest) = 1..Len(all) + Len(rest)
          /\ \A j \in 1..Len(all) + Len(rest) :
                (all \o rest)[j] = IF j <= Len(all) THEN all[j] ELSE rest[j - Len(all)]
      BY ConcatProperties, LenProperties
    <3> QED BY <2>3, <3>1
  <2> QED BY <1>1, <2>3, <2>4 DEF Online
<1>6. \A i \in DOMAIN Stream' : Stream'[i].op = "authinit" => Authed
  BY <1>1, <1>2, <1>4 DEF Online
<1> HIDE DEF F
<1>7. CASE \E i \in DOMAIN F : F[i].op = "authinit" /\ F[i].muxid \in muxMap
  <2>1. Authed /\ authwebsocketid' = 1 /\ queue' = <<>>
    BY <1>5, <1>7 DEF Dispatch, F
  <2> DEFINE ms == Queued
  <2>2. ms \in Seq(SentMessage)
    BY QueuedMessages DEF TypeInv, PageTypes
  <2>3. UNCHANGED <<ws, opening, pendingMessages, lastSocket, ready>>
        /\ (up' = up \/ up' = [up EXCEPT ![1] = @ \o ms])
    <3>1. CASE queue = <<>>
      BY <1>7, <3>1 DEF Dispatch, F
    <3>2. CASE queue # <<>>
      <4>1. SendMessages(ms, (muxMap \ Finished(F)) \cup ToSet(queue))
        BY <1>7, <3>2 DEF Dispatch, Queued, F
      <4>2. IsOpen /\ ws = 1
        BY <1>1, Constants DEF Online, IsOpen, None
      <4> QED BY <4>1, <4>2 DEF SendMessages
    <3> QED BY <3>1, <3>2
  <2> HIDE DEF ms
  <2>4. \A w \in Socket : up'[w] = up[w] \/ (w = 1 /\ up'[w] = up[w] \o ms)
    BY <2>3 DEF TypeInv, SocketTypes
  <2>5. AuthFirst'
    <3>1. \A w \in Socket : \/ up'[w] = up[w]
                            \/ \E xs \in Seq(SentMessage) :
                                  /\ up'[w] = up[w] \o xs
                                  /\ (\A i \in DOMAIN xs : xs[i].op # "rpc") \/ (w = 1 /\ Authed)
      BY <2>1, <2>2, <2>4
    <3>2. \A w \in Socket : served[w] \subseteq served'[w]
      OBVIOUS
    <3> QED BY <1>1, <3>1, <3>2, AuthFirstKept
  <2>6. Authed'
    <3>1. up'[1] = up[1] \/ \E xs \in Seq(SentMessage) : up'[1] = up[1] \o xs
      BY <2>2, <2>4, Constants
    <3>2. served[1] \subseteq served'[1]
      OBVIOUS
    <3> QED BY <2>1, <3>1, <3>2, AuthedStays
  <2>7. Online'
    BY <1>1, <1>2, <1>4, <2>1, <2>3, <2>6, Constants DEF Online, None
  <2>8. SocketsInv'
    BY <1>1, <2>3 DEF SocketsInv
  <2> QED BY <2>5, <2>7, <2>8 DEF AuthInv
<1>8. CASE ~ \E i \in DOMAIN F : F[i].op = "authinit" /\ F[i].muxid \in muxMap
  <2>1. UNCHANGED <<authwebsocketid, queue, ws, opening, pendingMessages, lastSocket, ready, up>>
    BY <1>2, <1>8 DEF Dispatch, F
  <2>2. (Authed' <=> Authed) /\ (AllQueued' <=> AllQueued)
    BY <2>1 DEF Authed, AllQueued, InQueue
  <2>3. Online'
    BY <1>1, <1>2, <1>4, <1>6, <2>1, <2>2 DEF Online
  <2>4. SocketsInv' /\ AuthFirst'
    BY <1>1, <2>1 DEF SocketsInv, AuthFirst
  <2> QED BY <2>3, <2>4 DEF AuthInv
<1> QED BY <1>7, <1>8

LEMMA ReceiveAuth ==
    ASSUME TypeInv, AuthInv, NEW w \in Socket, NEW n \in Nat, Receives(w, n)
    PROVE  AuthInv'
<1> DEFINE new  == SubSeq(down[w], 1, n)
           all  == data \o new
           rest == SubSeq(down[w], n + 1, Len(down[w]))
<1>1. ready[w] = "open" /\ UNCHANGED <<lastRpc, dropped, served>>
  BY DEF Receives
<1>2. rest \in Seq(SentPiece) /\ all \in Seq(SentPiece)
  BY ReadsOn
<1>3. /\ (reading > n => data' = all /\ UNCHANGED <<muxer, told, lastSocket, ready, up>>)
      /\ (~ reading > n => Dispatch(w, all))
  BY ReadsOn
<1>4. w \in Nat \ {0} /\ w <= lastSocket /\ lastSocket \in Nat
  BY <1>1 DEF AuthInv, SocketsInv, TypeInv, SocketTypes, Socket
<1>5. CASE ~ dropped
  <2>1. Online
    BY <1>5 DEF AuthInv
  <2>2. w = 1
    BY <1>4, <2>1 DEF Online
  <2>3. Stream = all \o rest /\ down'[1] = rest
    BY <2>2, StreamIsCut
  <2> HIDE DEF all, rest, new
  <2>4. CASE reading > n
    <3>1. Stream' = Stream
      BY <1>3, <2>3, <2>4 DEF Stream
    <3>2. UNCHANGED <<authwebsocketid, queue, ws, opening, pendingMessages, lastSocket, ready, up>>
      BY <1>3, <2>4 DEF muxer
    <3>3. (Authed' <=> Authed) /\ (AllQueued' <=> AllQueued)
      BY <1>1, <3>2 DEF Authed, AllQueued, InQueue
    <3>4. Online'
      BY <2>1, <3>1, <3>2, <3>3 DEF Online
    <3>5. SocketsInv' /\ AuthFirst'
      BY <1>1, <3>2 DEF SocketsInv, AuthFirst, AuthInv
    <3> QED BY <1>1, <1>5, <3>4, <3>5 DEF AuthInv
  <2>5. CASE ~ reading > n
    <3>1. ready[1] = "open" /\ Dispatch(1, all)
      BY <1>1, <1>3, <2>2, <2>5
    <3> QED BY <1>1, <1>2, <1>5, <2>3, <3>1, DispatchAuth DEF all, rest
  <2> QED BY <2>4, <2>5
<1>6. CASE dropped
  <2>1. queue = <<>>
    <3> SUFFICES ASSUME queue # <<>> PROVE FALSE
      OBVIOUS
    <3>1. lastSocket = 1 /\ ready[1] \in {"closing", "closed"}
      BY <1>6 DEF AuthInv, Offline
    <3> QED BY <1>1, <1>4, <3>1
  <2> HIDE DEF all
  <2>2. /\ queue' = <<>> /\ UNCHANGED <<ws, pendingMessages, lastSocket, up>>
        /\ ready' = ready \/ ready' = [ready EXCEPT ![ws] = "closing"]
    <3>1. CASE reading > n
      BY <1>3, <2>1, <3>1 DEF muxer
    <3>2. CASE ~ reading > n
      BY <1>3, <2>1, <3>2 DEF Dispatch
    <3> QED BY <3>1, <3>2
  <2>3. SocketsInv'
    <3>1. SocketsInv /\ lastSocket \in Nat
      BY <1>4 DEF AuthInv
    <3>2. ASSUME NEW x \in Socket, x > lastSocket PROVE ready'[x] = "none"
      <4>1. x # ws /\ ready[x] = "none"
        BY <3>1, <3>2 DEF SocketsInv, TypeInv, SocketTypes, Socket, None
      <4> QED BY <2>2, <4>1 DEF TypeInv, SocketTypes
    <3> QED BY <2>2, <3>1, <3>2 DEF SocketsInv
  <2>4. AuthFirst' /\ Offline'
    BY <1>1, <2>2 DEF AuthInv, AuthFirst, Offline
  <2> QED BY <1>1, <1>6, <2>3, <2>4 DEF AuthInv
<1> QED BY <1>5, <1>6

LEMMA AuthStep == TypeInv /\ AuthInv /\ [Next]_vars => AuthInv'
<1> SUFFICES ASSUME TypeInv, AuthInv, [Next]_vars PROVE AuthInv'
  OBVIOUS
<1>1. ASSUME NEW w \in Socket, SocketCloses(w) \/ ConnectionLost(w) PROVE AuthInv'
  <2>1. Closed(w) /\ ready[w] # "none"
    BY <1>1 DEF SocketCloses, ConnectionLost
  <2> QED BY <2>1, CloseAuth
<1>2. ASSUME NEW w \in Socket, SocketReceives(w) PROVE AuthInv'
  <2>1. PICK n \in 1..MaxPiece : Receives(w, n)
    BY <1>2 DEF SocketReceives
  <2>2. n \in Nat
    OBVIOUS
  <2> QED BY <2>1, <2>2, ReceiveAuth
<1>3. CASE UNCHANGED vars
  <2>1. UNCHANGED <<ws, opening, authwebsocketid, queue, pendingMessages, data, lastRpc, dropped,
                    lastSocket, ready, up, served, down>>
    BY <1>3 DEF vars, muxer, stream, page, mixer
  <2>2. Stream' = Stream /\ (Authed' <=> Authed) /\ (AllQueued' <=> AllQueued)
    BY <2>1 DEF Stream, Authed, AllQueued, InQueue
  <2>3. (Online' <=> Online) /\ (Offline' <=> Offline)
    BY <2>1, <2>2 DEF Online, Offline
  <2>4. (SocketsInv' <=> SocketsInv) /\ (AuthFirst' <=> AuthFirst)
    BY <2>1 DEF SocketsInv, AuthFirst
  <2> QED BY <2>1, <2>3, <2>4 DEF AuthInv
<1> QED BY <1>1, <1>2, <1>3, AskAuth, DataAuth, PageClosesAuth, OpenAuth, MixerAuth DEF Next

\* On every websocket the answer to an authinit comes before the first RPC: AuthFirst,
\* although an RPC may be asked for at any time, a queue is run by the callback of
\* whichever frame, and data reopens a muxer that was closed (muxerRpc, muxerMessage).
THEOREM AuthComesFirst == Spec => []AuthFirst
<1>1. Init => TypeInv /\ AuthInv
  BY InitTypes, InitAuth
<1>2. TypeInv /\ AuthInv /\ [Next]_vars => TypeInv' /\ AuthInv'
  BY TypeStep, AuthStep
<1>3. AuthInv => AuthFirst
  BY DEF AuthInv
<1> QED BY <1>1, <1>2, <1>3, PTL DEF Spec


-----------------------------------------------------------------------------
(* Whole replies *)

\* What the mixer has received of an RPC, and the frames for it, among those that the page
\* has not dealt with
Sent(r)       == {i \in DOMAIN up[1] : up[1][i].op = "rpc" /\ up[1][i].muxid = r}
Replies(G, r) == {i \in DOMAIN G : G[i].op = "reply" /\ G[i].muxid = r}
Endings(G, r) == {i \in DOMAIN G : G[i].op \in {"complete", "error"} /\ G[i].muxid = r}
InOrder(G, r) == \A i \in Replies(G, r), j \in Endings(G, r) : i < j

Completed(t)  == \E i \in DOMAIN t : t[i] = "complete"
Heards(t)     == {i \in DOMAIN t : t[i] = "reply"}
Whole(r)      == Completed(told[r]) => Cardinality(Heards(told[r])) = replied[r]

\* An RPC goes up once.  With an entry in the muxMap it has been told what the mixer has
\* replied but for what is in the frames G; its end comes after that, and the mixer sends
\* nothing after the end.
Relayed(r, G) ==
    /\ \A i, j \in Sent(r) : i = j
    /\ Sent(r) = {} => replied[r] = 0 /\ told[r] = <<>> /\ \A i \in DOMAIN G : G[i].muxid # r
    /\ r \in muxMap => Len(told[r]) + Cardinality(Replies(G, r)) = replied[r]
    /\ Endings(G, r) # {} \/ Completed(told[r]) => Sent(r) \subseteq served[1]
    /\ InOrder(G, r)

\* The other websockets carry no RPC, and what they bring has its header first.
OthersInv ==
    /\ \A i, j \in DOMAIN queue : queue[i] = queue[j] => i = j
    /\ \A w \in Socket : ready[w] = "none" => down[w] = <<>>
    /\ \A w \in Socket \ {1} : /\ \A i \in DOMAIN up[w] : up[w][i].op # "rpc"
                               /\ \A i \in DOMAIN down[w] : down[w][i].op = "authinit"

\* What is left of the first websocket when it is closed does not pass for the beginning of
\* what another one brings.
StaleInv ==
    /\ ready[1] \in {"closing", "closed"}
    /\ \/ \A i \in DOMAIN data : data[i].op = "authinit"
       \/ ~ Aligned(data)
       \/ \A w \in Socket \ {1} : down[w] # <<>> => down[w][1].head

WholeInv ==
    /\ OthersInv
    /\ \A r \in Rpc : Whole(r)
    /\ ~ dropped => \A r \in Rpc : /\ Relayed(r, WholeFrames(Stream))
                                   /\ InQueue(r) \/ r > lastRpc => Sent(r) = {}
    /\ dropped => StaleInv

-----------------------------------------------------------------------------
(* The frames of a stream *)

LEMMA Concat ==
    ASSUME NEW S, NEW s \in Seq(S), NEW t \in Seq(S)
    PROVE  /\ Len(s) \in Nat /\ Len(t) \in Nat /\ DOMAIN s = 1..Len(s) /\ DOMAIN t = 1..Len(t)
           /\ s \o t \in Seq(S) /\ Len(s \o t) = Len(s) + Len(t)
           /\ DOMAIN (s \o t) = 1..Len(s) + Len(t)
           /\ \A i \in 1..Len(s) : (s \o t)[i] = s[i]
           /\ \A i \in 1..Len(t) : (s \o t)[Len(s) + i] = t[i]
<1>1. /\ Len(s) \in Nat /\ Len(t) \in Nat /\ DOMAIN s = 1..Len(s) /\ DOMAIN t = 1..Len(t)
      /\ s \o t \in Seq(S) /\ Len(s \o t) = Len(s) + Len(t)
      /\ \A i \in 1..Len(s) + Len(t) : (s \o t)[i] = IF i <= Len(s) THEN s[i] ELSE t[i - Len(s)]
  BY ConcatProperties, LenProperties
<1>2. DOMAIN (s \o t) = 1..Len(s) + Len(t)
  BY <1>1, LenProperties
<1>3. \A i \in 1..Len(s) : (s \o t)[i] = s[i]
  BY <1>1
<1>4. ASSUME NEW i \in 1..Len(t) PROVE (s \o t)[Len(s) + i] = t[i]
  <2>1. Len(s) + i \in 1..Len(s) + Len(t) /\ ~ Len(s) + i <= Len(s) /\ (Len(s) + i) - Len(s) = i
    BY <1>1
  <2> QED BY <1>1, <2>1
<1> QED BY <1>1, <1>2, <1>3, <1>4

\* Two sequences of the same members are the same.
LEMMA SameSeq ==
    ASSUME NEW S, NEW s \in Seq(S), NEW t \in Seq(S), Len(s) = Len(t),
           \A i \in 1..Len(s) : s[i] = t[i]
    PROVE  s = t
BY SeqEqual

LEMMA FrameCount ==
    ASSUME NEW s \in Seq(SentPiece), Aligned(s), NEW p \in Nat, Len(s) = FrameLen * p
    PROVE  Len(WholeFrames(s)) = p
<1> DEFINE m == Len(WholeFrames(s))
<1>1. m \in Nat
  BY FramesOf, LenProperties
<1>2. FrameLen * m <= FrameLen * p /\ FrameLen * p - FrameLen * m < FrameLen
  <2>1. FrameLen * m \in 0..Len(s) /\ Len(Rest(s)) = Len(s) - FrameLen * m /\ Len(Rest(s)) < FrameLen
    BY RestOf
  <2> QED BY <2>1
<1> HIDE DEF m
<1>3. ~ p < m
  <2> SUFFICES ASSUME p < m PROVE FALSE
    OBVIOUS
  <2>1. FrameLen * (p + 1) <= FrameLen * m
    BY <1>1, TimesMono, Constants
  <2>2. FrameLen * (p + 1) = FrameLen * p + FrameLen
    BY Constants
  <2>3. FrameLen * m \in Nat /\ FrameLen * p \in Nat /\ FrameLen \in Nat \ {0}
    BY <1>1, Constants
  <2> QED BY <1>2, <2>1, <2>2, <2>3
<1>4. ~ m < p
  <2> SUFFICES ASSUME m < p PROVE FALSE
    OBVIOUS
  <2>1. FrameLen * (m + 1) <= FrameLen * p
    BY <1>1, TimesMono, Constants
  <2>2. FrameLen * (m + 1) = FrameLen * m + FrameLen
    BY <1>1, Constants
  <2>3. FrameLen * m \in Nat /\ FrameLen * p \in Nat /\ FrameLen \in Nat \ {0}
    BY <1>1, Constants
  <2> QED BY <1>2, <2>1, <2>2, <2>3
<1> QED BY <1>1, <1>3, <1>4 DEF m

\* Dealing with the whole frames of s leaves the frames of what is behind them.
LEMMA FramesAreCut ==
    ASSUME NEW s \in Seq(SentPiece), NEW t \in Seq(SentPiece), Framed(s \o t)
    PROVE  WholeFrames(s \o t) = WholeFrames(s) \o WholeFrames(Rest(s) \o t)
<1> DEFINE F == WholeFrames(s)
           R == Rest(s)
           m == Len(F)
           k == FrameLen * m
           u == s \o t
           v == R \o t
           H == WholeFrames(v)
           G == WholeFrames(u)
<1>0. Aligned(s) /\ Framed(v) /\ Framed(u)
  BY FramedRest
<1>1. /\ k \in 0..Len(s) /\ Len(R) = Len(s) - k /\ R \in Seq(SentPiece)
      /\ \A i \in 1..Len(R) : R[i] = s[k + i]
  BY <1>0, RestOf
<1> HIDE DEF R
<1>2. /\ Len(s) \in Nat /\ Len(t) \in Nat
      /\ u \in Seq(SentPiece) /\ Len(u) = Len(s) + Len(t)
      /\ \A i \in 1..Len(s) : u[i] = s[i]
      /\ \A i \in 1..Len(t) : u[Len(s) + i] = t[i]
  BY Concat
<1>3. /\ v \in Seq(SentPiece) /\ Len(v) = Len(R) + Len(t)
      /\ \A i \in 1..Len(R) : v[i] = R[i]
      /\ \A i \in 1..Len(t) : v[Len(R) + i] = t[i]
  <2>1. R \in Seq(SentPiece)
    BY <1>1
  <2> QED BY <2>1, Concat
<1>4. /\ F \in Seq(SentPiece) /\ G \in Seq(SentPiece) /\ H \in Seq(SentPiece)
      /\ \A i \in 1..Len(F) : FrameLen * (i - 1) + 1 \in 1..Len(s) /\ F[i] = s[FrameLen * (i - 1) + 1]
      /\ \A i \in 1..Len(G) : FrameLen * (i - 1) + 1 \in 1..Len(u) /\ G[i] = u[FrameLen * (i - 1) + 1]
      /\ \A i \in 1..Len(H) : FrameLen * (i - 1) + 1 \in 1..Len(v) /\ H[i] = v[FrameLen * (i - 1) + 1]
  <2> HIDE DEF u, v
  <2> QED BY <1>2, <1>3, FramesOf
<1>5. m \in Nat
  BY <1>4
<1>6. PICK p \in Nat : Len(v) = FrameLen * p
  BY <1>0 DEF Framed
<1>7. Len(u) = FrameLen * (m + p) /\ m + p \in Nat
  <2> HIDE DEF F, u, v
  <2>1. Len(u) = k + Len(v)
    BY <1>1, <1>2, <1>3
  <2>2. FrameLen * (m + p) = FrameLen * m + FrameLen * p
    <3> HIDE DEF m
    <3> QED BY <1>5, <1>6, Constants
  <2> QED BY <1>5, <1>6, <2>1, <2>2
<1>8. Len(H) = p /\ Len(G) = m + p
  <2> HIDE DEF u, v, m
  <2> QED BY <1>0, <1>2, <1>3, <1>6, <1>7, FrameCount DEF Framed
<1>9. \A i \in 1..Len(v) : u[k + i] = v[i]
  <2> HIDE DEF u, v, k
  <2> TAKE i \in 1..Len(v)
  <2>1. CASE i <= Len(R)
    <3>1. i \in 1..Len(R) /\ k + i \in 1..Len(s)
      BY <1>1, <1>2, <1>3, <2>1
    <3> QED BY <1>1, <1>2, <1>3, <3>1
  <2>2. CASE ~ i <= Len(R)
    <3> DEFINE j == i - Len(R)
    <3>1. j \in 1..Len(t) /\ k + i = Len(s) + j /\ i = Len(R) + j
      BY <1>1, <1>2, <1>3, <2>2
    <3> HIDE DEF j
    <3> QED BY <1>2, <1>3, <3>1
  <2> QED BY <2>1, <2>2
<1> HIDE DEF u, v, F, G, H
<1>10. /\ F \o H \in Seq(SentPiece) /\ Len(F \o H) = m + p
       /\ \A i \in 1..m : (F \o H)[i] = F[i]
       /\ \A i \in 1..p : (F \o H)[m + i] = H[i]
  <2>1. F \in Seq(SentPiece) /\ H \in Seq(SentPiece)
    BY <1>4
  <2>2. /\ F \o H \in Seq(SentPiece) /\ Len(F \o H) = Len(F) + Len(H)
        /\ \A i \in 1..Len(F) : (F \o H)[i] = F[i]
        /\ \A i \in 1..Len(H) : (F \o H)[Len(F) + i] = H[i]
    BY <2>1, Concat
  <2> HIDE DEF k
  <2> QED BY <1>8, <2>2
<1>11. ASSUME NEW i \in 1..Len(G) PROVE G[i] = (F \o H)[i]
  <2>1. CASE i <= m
    <3>1. i \in 1..m
      BY <1>5, <2>1
    <3>2. FrameLen * (i - 1) + 1 \in 1..Len(s) /\ F[i] = s[FrameLen * (i - 1) + 1]
      BY <1>4, <3>1
    <3> QED BY <1>2, <1>4, <1>10, <3>1, <3>2
  <2>2. CASE ~ i <= m
    <3> DEFINE j == i - m
    <3>1. j \in 1..p /\ i = m + j
      BY <1>5, <1>8, <2>2
    <3> HIDE DEF j
    <3>2. FrameLen * (j - 1) + 1 \in 1..Len(v) /\ H[j] = v[FrameLen * (j - 1) + 1]
      BY <1>4, <1>8, <3>1
    <3>3. FrameLen * (i - 1) + 1 = k + (FrameLen * (j - 1) + 1)
      <4> HIDE DEF m
      <4>1. FrameLen * ((m + j) - 1) = FrameLen * m + FrameLen * (j - 1)
        BY <1>5, <3>1, Constants
      <4> QED BY <1>5, <3>1, <4>1, Constants
    <3>4. G[i] = H[j]
      BY <1>4, <1>9, <3>2, <3>3
    <3> QED BY <1>10, <3>1, <3>4
  <2> QED BY <2>1, <2>2
<1>12. Len(G) = Len(F \o H)
  BY <1>8, <1>10
<1>13. G = F \o H
  BY <1>4, <1>10, <1>11, <1>12, SameSeq
<1> QED BY <1>13 DEF F, G, H, u, v, R


LEMMA FramesConcat ==
    ASSUME NEW s \in Seq(SentPiece), NEW t \in Seq(SentPiece), Framed(s), Framed(t)
    PROVE  WholeFrames(s \o t) = WholeFrames(s) \o WholeFrames(t)
<1>1. Framed(s \o t)
  BY FramedConcat
<1>2. PICK p \in Nat : Len(s) = FrameLen * p
  BY DEF Framed
<1>3. Len(WholeFrames(s)) = p
  BY <1>2, FrameCount DEF Framed
<1>4. Rest(s) \in Seq(SentPiece) /\ Len(Rest(s)) = Len(s) - FrameLen * p
  BY <1>3, RestOf DEF Framed
<1>5. Len(Rest(s)) = 0
  <2> DEFINE k == FrameLen * p
  <2>1. k \in Nat
    BY <1>2, LenProperties
  <2>2. Len(s) = k /\ Len(Rest(s)) = Len(s) - k
    BY <1>2, <1>4
  <2> HIDE DEF k
  <2> QED BY <2>1, <2>2
<1>6. Rest(s) = <<>>
  BY <1>4, <1>5, EmptySeq
<1>7. Rest(s) \o t = t
  BY <1>6, ConcatEmptySeq
<1> QED BY <1>1, <1>7, FramesAreCut

LEMMA FrameIsOne ==
    ASSUME NEW op, NEW id, Frame(op, id) \in Seq(SentPiece)
    PROVE  /\ WholeFrames(Frame(op, id)) \in Seq(SentPiece)
           /\ Len(WholeFrames(Frame(op, id))) = 1
           /\ WholeFrames(Frame(op, id))[1].op = op /\ WholeFrames(Frame(op, id))[1].muxid = id
<1> DEFINE f == Frame(op, id)
           F == WholeFrames(f)
<1>1. Framed(f) /\ Len(f) = FrameLen /\ f[1] = [op |-> op, muxid |-> id, head |-> TRUE]
  <2>1. Framed(f)
    BY FrameIsFramed
  <2>2. Len(f) = FrameLen /\ \A i \in 1..FrameLen : f[i] = [op |-> op, muxid |-> id, head |-> i = 1]
    BY Frames
  <2>3. 1 \in 1..FrameLen
    BY Constants
  <2> QED BY <2>1, <2>2, <2>3
<1> HIDE DEF f
<1>2. f \in Seq(SentPiece)
  BY DEF f
<1>3. Len(F) = 1
  <2>1. Len(f) = FrameLen * 1
    BY <1>1, Constants
  <2> QED BY <1>1, <1>2, <2>1, FrameCount DEF Framed
<1>4. F \in Seq(SentPiece) /\ F[1] = f[FrameLen * (1 - 1) + 1]
  <2>1. F \in Seq(SentPiece) /\ \A i \in 1..Len(F) : F[i] = f[FrameLen * (i - 1) + 1]
    BY <1>2, FramesOf
  <2>2. 1 \in 1..Len(F)
    BY <1>3
  <2> HIDE DEF F
  <2> QED BY <2>1, <2>2
<1>5. FrameLen * (1 - 1) + 1 = 1
  BY Constants
<1> HIDE DEF F
<1>6. F[1] = [op |-> op, muxid |-> id, head |-> TRUE]
  BY <1>1, <1>4, <1>5
<1>7. F \in Seq(SentPiece) /\ Len(F) = 1 /\ F[1].op = op /\ F[1].muxid = id
  BY <1>3, <1>4, <1>6
<1> QED BY <1>7 DEF F, f

-----------------------------------------------------------------------------
(* Counting replies *)

LEMMA ShiftedCount ==
    ASSUME NEW S \in SUBSET Nat, IsFiniteSet(S), NEW k \in Nat
    PROVE  IsFiniteSet({k + i : i \in S}) /\ Cardinality({k + i : i \in S}) = Cardinality(S)
<1> DEFINE T == {k + i : i \in S}
           f == [i \in S |-> k + i]
<1>1. f \in Surjection(S, T)
  BY DEF Surjection
<1>2. f \in Injection(S, T)
  <2>1. f \in [S -> T]
    OBVIOUS
  <2>2. ASSUME NEW i \in S, NEW j \in S, f[i] = f[j] PROVE i = j
    <3>1. k + i = k + j
      BY <2>2
    <3>2. i \in Nat /\ j \in Nat
      OBVIOUS
    <3> QED BY <3>1, <3>2
  <2> HIDE DEF f, T
  <2> QED BY <2>1, <2>2 DEF Injection, IsInjective
<1> HIDE DEF f, T
<1>3. IsFiniteSet(T) /\ Cardinality(T) = Cardinality(S)
  BY <1>1, <1>2, FS_Surjection
<1> QED BY <1>3 DEF T

LEMMA RepliesAreFinite ==
    ASSUME NEW F \in Seq(SentPiece), NEW r
    PROVE  /\ Replies(F, r) \in SUBSET (1..Len(F)) /\ Replies(F, r) \in SUBSET Nat
           /\ IsFiniteSet(Replies(F, r)) /\ Cardinality(Replies(F, r)) \in Nat
<1>1. DOMAIN F = 1..Len(F) /\ Len(F) \in Nat
  BY LenProperties
<1>2. Replies(F, r) \in SUBSET (1..Len(F)) /\ Replies(F, r) \in SUBSET Nat
  BY <1>1 DEF Replies
<1>3. IsFiniteSet(1..Len(F))
  BY <1>1, FS_Interval
<1>4. IsFiniteSet(Replies(F, r))
  BY <1>2, <1>3, FS_Subset
<1> QED BY <1>2, <1>4, FS_CardinalityType

LEMMA RepliesConcat ==
    ASSUME NEW F \in Seq(SentPiece), NEW H \in Seq(SentPiece), NEW r
    PROVE  /\ Replies(F \o H, r) = Replies(F, r) \cup {Len(F) + i : i \in Replies(H, r)}
           /\ Endings(F \o H, r) = Endings(F, r) \cup {Len(F) + i : i \in Endings(H, r)}
           /\ Cardinality(Replies(F \o H, r)) = Cardinality(Replies(F, r)) + Cardinality(Replies(H, r))
<1> DEFINE G == F \o H
           n == Len(F)
           S == Replies(F, r)
           T == {n + i : i \in Replies(H, r)}
<1>1. /\ n \in Nat /\ Len(H) \in Nat /\ DOMAIN F = 1..n /\ DOMAIN H = 1..Len(H)
      /\ DOMAIN G = 1..n + Len(H)
      /\ \A i \in 1..n : G[i] = F[i]
      /\ \A i \in 1..Len(H) : G[n + i] = H[i]
  BY Concat
<1> HIDE DEF G, n
<1>2. \A i \in 1..n + Len(H) : i \in 1..n \/ \E j \in 1..Len(H) : i = n + j
  <2> SUFFICES ASSUME NEW i \in 1..n + Len(H), i \notin 1..n PROVE i - n \in 1..Len(H) /\ i = n + (i - n)
    OBVIOUS
  <2> QED BY <1>1
<1>3. /\ \A i \in 1..n : i \in DOMAIN G /\ i \in DOMAIN F
      /\ \A i \in 1..Len(H) : n + i \in DOMAIN G /\ i \in DOMAIN H
  BY <1>1
<1>4. Replies(G, r) = S \cup T
  <2>1. ASSUME NEW i \in Replies(G, r) PROVE i \in S \cup T
    <3>1. i \in 1..n + Len(H) /\ G[i].op = "reply" /\ G[i].muxid = r
      BY <1>1 DEF Replies
    <3>2. CASE i \in 1..n
      BY <1>1, <1>3, <3>1, <3>2 DEF Replies
    <3>3. CASE i \notin 1..n
      <4>1. PICK j \in 1..Len(H) : i = n + j
        BY <1>2, <3>1, <3>3
      <4>2. j \in Replies(H, r)
        BY <1>1, <1>3, <3>1, <4>1 DEF Replies
      <4> QED BY <4>1, <4>2
    <3> QED BY <3>2, <3>3
  <2>2. ASSUME NEW i \in S PROVE i \in Replies(G, r)
    BY <1>1, <1>3, <2>2 DEF Replies
  <2>3. ASSUME NEW j \in Replies(H, r) PROVE n + j \in Replies(G, r)
    BY <1>1, <1>3, <2>3 DEF Replies
  <2> QED BY <2>1, <2>2, <2>3
<1>5. Endings(G, r) = Endings(F, r) \cup {n + i : i \in Endings(H, r)}
  BY <1>1, <1>2, <1>3 DEF Endings
<1>6. IsFiniteSet(S) /\ Cardinality(S) \in Nat
  BY RepliesAreFinite
<1>7. IsFiniteSet(T) /\ Cardinality(T) = Cardinality(Replies(H, r)) /\ Cardinality(T) \in Nat
  <2>1. IsFiniteSet(Replies(H, r)) /\ Replies(H, r) \in SUBSET Nat /\ Cardinality(Replies(H, r)) \in Nat
    BY RepliesAreFinite
  <2> QED BY <1>1, <2>1, ShiftedCount
<1>8. S \cap T = {}
  <2>1. S \subseteq 1..n /\ Replies(H, r) \subseteq 1..Len(H)
    BY <1>1 DEF Replies
  <2>2. \A i \in 1..Len(H) : n + i \notin 1..n
    BY <1>1
  <2> QED BY <2>1, <2>2
<1> HIDE DEF S, T
<1>9. Cardinality(S \cup T) = Cardinality(S) + Cardinality(T)
  <2>1. Cardinality(S \cap T) = 0
    BY <1>8, FS_EmptySet
  <2>2. Cardinality(S \cup T) = Cardinality(S) + Cardinality(T) - Cardinality(S \cap T)
    BY <1>6, <1>7, FS_Union
  <2> QED BY <1>6, <1>7, <2>1, <2>2
<1>10. Cardinality(Replies(G, r)) = Cardinality(Replies(F, r)) + Cardinality(Replies(H, r))
  BY <1>4, <1>7, <1>9 DEF S
<1> QED BY <1>4, <1>5, <1>10 DEF G, n, S, T


LEMMA LeastPosition ==
    ASSUME NEW n \in Nat, NEW S \in SUBSET (1..n), S # {}
    PROVE  \E i \in S : \A j \in S : i <= j
<1>1. Cardinality(S) \in Nat \ {0}
  BY NthOfLast
<1>2. 1 \in 1..Cardinality(S)
  BY <1>1
<1> DEFINE i == Nth(S, 1)
<1>3. i \in S /\ Cardinality(Below(S, i)) = 1
  BY <1>2, NthIsThere
<1> HIDE DEF i
<1>4. IsFiniteSet(Below(S, i))
  <2>1. IsFiniteSet(1..n)
    BY FS_Interval
  <2>2. Below(S, i) \in SUBSET (1..n)
    BY DEF Below
  <2> QED BY <2>1, <2>2, FS_Subset
<1>5. i \in Below(S, i)
  BY <1>3 DEF Below
<1>6. Below(S, i) = {i}
  BY <1>3, <1>4, <1>5, FS_Singleton
<1>7. \A j \in S : i <= j
  <2> TAKE j \in S
  <2>1. j \notin Below(S, i) \/ j = i
    BY <1>6
  <2>2. i \in Nat /\ j \in Nat
    BY <1>3
  <2> QED BY <2>1, <2>2 DEF Below
<1> QED BY <1>3, <1>7

\* The callbacks of an RPC are the replies for it and, if there is one, its first end.
LEMMA CallbacksAreCounted ==
    ASSUME NEW F \in Seq(SentPiece), NEW r \in Rpc, r \in muxMap, InOrder(F, r)
    PROVE  /\ Len(Callbacks(F, r))
                 = Cardinality(Replies(F, r)) + IF Endings(F, r) = {} THEN 0 ELSE 1
           /\ Completed(Callbacks(F, r)) => Endings(F, r) # {}
           /\ r \in Finished(F) <=> Endings(F, r) # {}
<1> DEFINE S == Heard(F, r)
           R == Replies(F, r)
           E == Endings(F, r)
           c == Callbacks(F, r)
<1>1. DOMAIN F = 1..Len(F) /\ Len(F) \in Nat /\ \A i \in DOMAIN F : F[i] \in SentPiece
  BY LenProperties, ElementOfSeq
<1>2. \A i \in Mine(F, r) : /\ i \in R \/ i \in E
                            /\ IsFinal(F[i]) <=> i \in E
  <2> SUFFICES ASSUME NEW i \in Mine(F, r)
               PROVE  /\ i \in R \/ i \in E
                      /\ IsFinal(F[i]) <=> i \in E
    OBVIOUS
  <2>1. i \in DOMAIN F /\ F[i].muxid = r /\ F[i].op \in {"reply", "complete", "error"}
    BY <1>1 DEF Mine, SentPiece, Piece
  <2> QED BY <2>1 DEF Replies, Endings, IsFinal, Final
<1>3. \A i \in R \cup E : i \in Mine(F, r)
  BY DEF Replies, Endings, Mine
<1>4. S = {i \in R \cup E : \A j \in E : i <= j}
  BY <1>2, <1>3 DEF Heard
<1>5. R \in SUBSET (1..Len(F)) /\ IsFiniteSet(R) /\ Cardinality(R) \in Nat
  BY RepliesAreFinite
<1>6. E \in SUBSET (1..Len(F)) /\ R \cap E = {}
  BY <1>1 DEF Endings, Replies
<1>7. \A i \in R, j \in E : i < j
  BY DEF InOrder
<1>8. r \in Finished(F) <=> E # {}
  <2>1. r \in Finished(F) <=> \E i \in S : i \in E
    <3>1. \A i \in S : IsFinal(F[i]) <=> i \in E
      BY <1>2 DEF Heard
    <3> QED BY <3>1 DEF Finished
  <2> HIDE DEF S, E
  <2>2. CASE E = {}
    BY <2>1, <2>2
  <2>3. CASE E # {}
    <3>1. PICK i \in E : \A j \in E : i <= j
      BY <1>1, <1>6, <2>3, LeastPosition
    <3> QED BY <1>4, <2>1, <3>1
  <2> QED BY <2>2, <2>3
<1>9. Cardinality(S) = Cardinality(R) + IF E = {} THEN 0 ELSE 1
  <2> HIDE DEF S, R, E
  <2>1. CASE E = {}
    <3>1. S = R
      BY <1>4, <2>1
    <3> QED BY <1>5, <2>1, <3>1
  <2>2. CASE E # {}
    <3>1. PICK i \in E : \A j \in E : i <= j
      BY <1>1, <1>6, <2>2, LeastPosition
    <3>2. \A j, k \in 1..Len(F) : (j <= k /\ k <= j => j = k) /\ (j < k => j <= k)
      BY <1>1
    <3>3. S = R \cup {i}
      <4>1. \A j \in E : (\A k \in E : j <= k) => j = i
        BY <1>6, <3>1, <3>2
      <4>2. \A j \in R : \A k \in E : j <= k
        BY <1>5, <1>6, <1>7, <3>2
      <4> QED BY <1>4, <3>1, <4>1, <4>2
    <3>4. i \notin R
      BY <1>6, <3>1
    <3> QED BY <1>5, <2>2, <3>3, <3>4, FS_AddElement
  <2> QED BY <2>1, <2>2
<1>10. Len(c) = Cardinality(S)
  <2>1. c = [k \in 1..Cardinality(S) |-> F[Nth(S, k)].op]
    BY DEF Callbacks
  <2>2. Cardinality(S) \in Nat
    <3> HIDE DEF S
    <3> QED BY <1>5, <1>9
  <2> HIDE DEF S, c
  <2> QED BY <2>1, <2>2
<1>11. Completed(c) => r \in Finished(F)
  <2> SUFFICES ASSUME NEW k \in DOMAIN c, c[k] = "complete" PROVE r \in Finished(F)
    BY DEF Completed
  <2>1. /\ c \in Seq(Final \cup {"reply"})
        /\ \A i \in 1..Len(c) : c[i] \in Final => i = Len(c)
        /\ r \in Finished(F) <=> Len(c) > 0 /\ c[Len(c)] \in Final
    BY CallbacksOf
  <2> HIDE DEF c
  <2>2. k \in 1..Len(c) /\ c[k] \in Final
    BY <2>1, LenProperties DEF Final
  <2>3. k = Len(c) /\ Len(c) > 0
    BY <2>1, <2>2, LenProperties
  <2> QED BY <2>1, <2>2, <2>3
<1> HIDE DEF S, R, E, c
<1>12. Len(c) = Cardinality(R) + IF E = {} THEN 0 ELSE 1
  BY <1>9, <1>10
<1> QED BY <1>8, <1>11, <1>12 DEF R, E, c


LEMMA OrderOfConcat ==
    ASSUME NEW F \in Seq(SentPiece), NEW H \in Seq(SentPiece), NEW r
    PROVE  InOrder(F \o H, r) <=> /\ InOrder(F, r) /\ InOrder(H, r)
                                  /\ Endings(F, r) = {} \/ Replies(H, r) = {}
<1> DEFINE n == Len(F)
<1>1. n \in Nat /\ Len(H) \in Nat /\ DOMAIN F = 1..n /\ DOMAIN H = 1..Len(H)
  BY LenProperties
<1>2. /\ Replies(F \o H, r) = Replies(F, r) \cup {n + i : i \in Replies(H, r)}
      /\ Endings(F \o H, r) = Endings(F, r) \cup {n + i : i \in Endings(H, r)}
  BY RepliesConcat
<1>3. /\ Replies(F, r) \subseteq 1..n /\ Endings(F, r) \subseteq 1..n
      /\ Replies(H, r) \subseteq 1..Len(H) /\ Endings(H, r) \subseteq 1..Len(H)
  BY <1>1 DEF Replies, Endings
<1> HIDE DEF n
<1>4. \A i, j \in 1..Len(H) : n + i < n + j <=> i < j
  BY <1>1
<1>5. \A i \in 1..n, j \in 1..Len(H) : i < n + j /\ ~ n + j < i
  BY <1>1
<1>6. ASSUME InOrder(F \o H, r)
      PROVE  InOrder(F, r) /\ InOrder(H, r) /\ (Endings(F, r) = {} \/ Replies(H, r) = {})
  <2>1. InOrder(F, r)
    BY <1>2, <1>6 DEF InOrder
  <2>2. \A i \in Replies(H, r), j \in Endings(H, r) : n + i < n + j
    BY <1>2, <1>6 DEF InOrder
  <2>3. \A i \in Replies(H, r), j \in Endings(F, r) : n + i < j
    BY <1>2, <1>6 DEF InOrder
  <2>4. InOrder(H, r)
    BY <1>3, <1>4, <2>2 DEF InOrder
  <2>5. Endings(F, r) = {} \/ Replies(H, r) = {}
    BY <1>3, <1>5, <2>3
  <2> QED BY <2>1, <2>4, <2>5
<1>7. ASSUME InOrder(F, r), InOrder(H, r), Endings(F, r) = {} \/ Replies(H, r) = {}
      PROVE  InOrder(F \o H, r)
  <2> SUFFICES ASSUME NEW i \in Replies(F, r) \cup {n + x : x \in Replies(H, r)},
                      NEW j \in Endings(F, r) \cup {n + x : x \in Endings(H, r)}
               PROVE  i < j
    BY <1>2 DEF InOrder
  <2>1. CASE i \in Replies(F, r) /\ j \in Endings(F, r)
    BY <1>7, <2>1 DEF InOrder
  <2>2. CASE i \in Replies(F, r) /\ j \notin Endings(F, r)
    BY <1>3, <1>5, <2>2
  <2>3. CASE i \notin Replies(F, r)
    <3>1. PICK x \in Replies(H, r) : i = n + x
      BY <2>3
    <3>2. PICK y \in Endings(H, r) : j = n + y
      BY <1>7, <3>1
    <3>3. x < y
      BY <1>7 DEF InOrder
    <3> QED BY <1>3, <1>4, <3>1, <3>2, <3>3
  <2> QED BY <2>1, <2>2, <2>3
<1> QED BY <1>6, <1>7

\* Of an RPC that has an entry, what the frames F tell is what the mixer had replied but for
\* what is in H, and if they tell the end of it there is nothing in H any more.
LEMMA DispatchCounts ==
    ASSUME TypeInv, EndInv, NEW r \in Rpc, r \in muxMap,
           NEW F \in Seq(SentPiece), NEW H \in Seq(SentPiece), Relayed(r, F \o H),
           NEW t, t = told[r] \o Callbacks(F, r)
    PROVE  /\ r \notin Finished(F) => Len(t) + Cardinality(Replies(H, r)) = replied[r]
           /\ Completed(t) => /\ Cardinality(Heards(t)) = replied[r]
                              /\ Endings(F \o H, r) # {}
<1> DEFINE c == Callbacks(F, r)
           T == Final \cup {"reply"}
           a == Len(told[r])
           b == Cardinality(Replies(F, r))
           d == Cardinality(Replies(H, r))
<1>1. told[r] \in Seq(T) /\ replied[r] \in Nat
  BY Constants DEF TypeInv, PageTypes, MixerTypes
<1>2. /\ c \in Seq(T) /\ \A k \in 1..Len(c) : c[k] \in Final => k = Len(c)
      /\ r \in Finished(F) <=> Len(c) > 0 /\ c[Len(c)] \in Final
  BY CallbacksOf
<1>3. \A i \in DOMAIN told[r] : told[r][i] \notin Final
  BY DEF EndInv, Unended, Ends
<1>4. /\ InOrder(F, r) /\ (Endings(F, r) = {} \/ Replies(H, r) = {})
      /\ Endings(F, r) # {} => Endings(F \o H, r) # {}
  <2>1. InOrder(F \o H, r)
    BY DEF Relayed
  <2>2. Endings(F \o H, r) = Endings(F, r) \cup {Len(F) + i : i \in Endings(H, r)}
    BY RepliesConcat
  <2> QED BY <2>1, <2>2, OrderOfConcat
<1>5. /\ Len(c) = b + (IF Endings(F, r) = {} THEN 0 ELSE 1)
      /\ Completed(c) => Endings(F, r) # {}
      /\ r \in Finished(F) <=> Endings(F, r) # {}
  BY <1>4, CallbacksAreCounted
<1>6. b \in Nat /\ d \in Nat /\ Cardinality(Replies(F \o H, r)) = b + d
  BY RepliesAreFinite, RepliesConcat
<1>7. a + (b + d) = replied[r]
  BY <1>6 DEF Relayed
<1> HIDE DEF c, T
<1>8. /\ a \in Nat /\ Len(c) \in Nat /\ DOMAIN told[r] = 1..a /\ DOMAIN c = 1..Len(c)
      /\ t \in Seq(T) /\ Len(t) = a + Len(c) /\ DOMAIN t = 1..a + Len(c)
      /\ \A i \in 1..a : t[i] = told[r][i]
      /\ \A i \in 1..Len(c) : t[a + i] = c[i]
  <2>1. t = told[r] \o c
    BY DEF c
  <2> QED BY <1>1, <1>2, <2>1, Concat
<1> HIDE DEF a, b, d
<1>9. r \notin Finished(F) => Len(t) + d = replied[r]
  BY <1>5, <1>6, <1>7, <1>8
<1>10. ASSUME Completed(t)
       PROVE  Cardinality(Heards(t)) = replied[r] /\ Endings(F \o H, r) # {}
  <2>1. \A i \in 1..a + Len(c) : i \in 1..a \/ (i - a \in 1..Len(c) /\ i = a + (i - a))
    BY <1>8
  <2>2. Completed(c)
    <3>1. PICK i \in 1..a + Len(c) : t[i] = "complete"
      BY <1>8, <1>10 DEF Completed
    <3>2. i \notin 1..a
      BY <1>3, <1>8, <3>1 DEF Final
    <3>3. PICK j \in 1..Len(c) : i = a + j
      BY <2>1, <3>2
    <3>4. c[j] = "complete" /\ j \in DOMAIN c
      BY <1>8, <3>1, <3>3
    <3> QED BY <3>4 DEF Completed
  <2>3. Endings(F, r) # {} /\ Len(c) = b + 1 /\ Replies(H, r) = {}
    BY <1>4, <1>5, <2>2
  <2>4. d = 0
    BY <2>3, FS_EmptySet DEF d
  <2>5. a + b = replied[r]
    BY <1>6, <1>7, <1>8, <2>4
  <2>6. c[Len(c)] \in Final
    BY <1>2, <1>5, <2>3
  <2>7. \A i \in 1..a : t[i] = "reply"
    <3> TAKE i \in 1..a
    <3>1. told[r][i] \in T /\ told[r][i] \notin Final
      BY <1>1, <1>3, <1>8, ElementOfSeq DEF a
    <3> QED BY <1>8, <3>1 DEF T
  <2>8. \A i \in 1..b : t[a + i] = "reply"
    <3> TAKE i \in 1..b
    <3>1. i \in 1..Len(c) /\ i # Len(c)
      BY <1>6, <2>3
    <3>2. c[i] \in T /\ c[i] \notin Final
      BY <1>2, <3>1, ElementOfSeq
    <3> QED BY <1>8, <3>1, <3>2 DEF T
  <2>9. t[a + (b + 1)] \in Final
    <3>1. b + 1 \in 1..Len(c)
      BY <1>6, <2>3
    <3> QED BY <1>8, <2>3, <2>6, <3>1
  <2>10. Heards(t) = 1..(a + b)
    <3>1. \A i \in 1..(a + b) : i \in DOMAIN t /\ t[i] = "reply"
      <4> TAKE i \in 1..(a + b)
      <4>1. i \in DOMAIN t
        BY <1>6, <1>8, <2>3
      <4>2. CASE i \in 1..a
        BY <2>7, <4>1, <4>2
      <4>3. CASE i \notin 1..a
        <5>1. i - a \in 1..b /\ i = a + (i - a)
          BY <1>6, <1>8, <4>3
        <5> QED BY <2>8, <4>1, <5>1
      <4> QED BY <4>2, <4>3
    <3>2. \A i \in DOMAIN t : i \in 1..(a + b) \/ i = a + (b + 1)
      <4> SUFFICES ASSUME NEW i \in 1..a + Len(c) PROVE i \in 1..(a + b) \/ i = a + (b + 1)
        BY <1>8
      <4>1. a \in Nat /\ b \in Nat /\ Len(c) = b + 1
        BY <1>6, <1>8, <2>3
      <4> QED BY <4>1
    <3>3. t[a + (b + 1)] # "reply"
      BY <2>9 DEF Final
    <3> QED BY <3>1, <3>2, <3>3 DEF Heards
  <2>11. Cardinality(1..(a + b)) = a + b
    BY <1>6, <1>8, FS_Interval
  <2> QED BY <1>4, <2>3, <2>5, <2>10, <2>11
<1> QED BY <1>9, <1>10 DEF d


-----------------------------------------------------------------------------
(* What is sent keeps replies whole *)

LEMMA InitWhole == Init => WholeInv
<1> SUFFICES ASSUME Init PROVE WholeInv
  OBVIOUS
<1>1. /\ up[1] = <<>> /\ down[1] = <<>> /\ data = <<>> /\ ~ dropped /\ muxMap \cap Rpc = {}
      /\ \A r \in Rpc : told[r] = <<>> /\ replied[r] = 0
  BY Constants DEF Init
<1>2. DOMAIN <<>> = {}
  OBVIOUS
<1>3. Stream \in Seq(SentPiece) /\ Len(Stream) = 0
  BY <1>1 DEF Stream
<1>4. Len(WholeFrames(Stream)) = 0
  <2>1. Stream = <<>>
    BY <1>3, EmptySeq
  <2>2. Aligned(Stream)
    BY <1>2, <2>1 DEF Aligned
  <2>3. PICK p \in Nat : p = 0 /\ Len(Stream) = FrameLen * p
    <3>1. Len(Stream) = FrameLen * 0
      BY <1>3, Constants
    <3> QED BY <3>1
  <2>4. Len(WholeFrames(Stream)) = p
    BY <1>3, <2>2, <2>3, FrameCount
  <2> QED BY <2>3, <2>4
<1>5. DOMAIN WholeFrames(Stream) = {}
  <2>1. WholeFrames(Stream) \in Seq(SentPiece)
    BY <1>3, FramesOf
  <2>2. DOMAIN WholeFrames(Stream) = 1..0
    BY <1>4, <2>1, LenProperties
  <2> QED BY <2>2
<1>6. \A r \in Rpc : Sent(r) = {} /\ ~ Completed(told[r])
  BY <1>1, <1>2 DEF Sent, Completed
<1>7. OthersInv
  BY <1>2 DEF Init, OthersInv
<1>8. \A r \in Rpc : Relayed(r, WholeFrames(Stream))
  BY <1>1, <1>5, <1>6 DEF Relayed, InOrder, Replies, Endings
<1> QED BY <1>1, <1>6, <1>7, <1>8 DEF WholeInv, Whole

LEMMA SendEffects ==
    ASSUME TypeInv, NEW ms \in Seq(SentMessage), NEW map, SendMessages(ms, map)
    PROVE  /\ \A w \in Socket : ready'[w] = "none" => ready[w] = "none"
           /\ \A w \in Socket : up'[w] = up[w] \/ up'[w] = up[w] \o ms
           /\ ready[1] \in {"closing", "closed"} => ready'[1] \in {"closing", "closed"}
<1>1. \A w \in Socket : up'[w] = up[w] \/ up'[w] = up[w] \o ms
  BY DEF SendMessages, TypeInv, SocketTypes
<1>2. CASE ready' = ready
  BY <1>1, <1>2
<1>3. CASE ready' # ready
  <2>1. ready' = [ready EXCEPT ![ws'] = "connecting"] /\ ws' = lastSocket + 1
    BY <1>3 DEF SendMessages
  <2>2. lastSocket \in Nat \ {0}
    BY Constants DEF TypeInv, SocketTypes, Socket
  <2>3. ws' # 1
    BY <2>1, <2>2
  <2>4. \A w \in Socket : ready'[w] = IF w = ws' THEN "connecting" ELSE ready[w]
    BY <2>1 DEF TypeInv, SocketTypes
  <2> QED BY <1>1, <2>3, <2>4, Constants
<1> QED BY <1>2, <1>3

LEMMA SentConcat ==
    ASSUME up[1] \in Seq(SentMessage), NEW ms \in Seq(SentMessage), up'[1] = up[1] \o ms, NEW r
    PROVE  Sent(r)' = Sent(r) \cup {Len(up[1]) + i : i \in {j \in DOMAIN ms :
                                       ms[j].op = "rpc" /\ ms[j].muxid = r}}
<1> DEFINE u == up[1]
           v == u \o ms
           M == {j \in DOMAIN ms : ms[j].op = "rpc" /\ ms[j].muxid = r}
<1>1. /\ Len(u) \in Nat /\ Len(ms) \in Nat /\ DOMAIN u = 1..Len(u) /\ DOMAIN ms = 1..Len(ms)
      /\ DOMAIN v = 1..Len(u) + Len(ms)
      /\ \A i \in 1..Len(u) : v[i] = u[i]
      /\ \A i \in 1..Len(ms) : v[Len(u) + i] = ms[i]
  BY Concat
<1>2. Sent(r) = {i \in DOMAIN u : u[i].op = "rpc" /\ u[i].muxid = r}
  BY DEF Sent
<1>3. Sent(r)' = {i \in DOMAIN v : v[i].op = "rpc" /\ v[i].muxid = r}
  BY DEF Sent
<1> HIDE DEF u, v
<1>4. ASSUME NEW i \in 1..Len(u) + Len(ms), v[i].op = "rpc", v[i].muxid = r
      PROVE  i \in Sent(r) \/ \E j \in M : i = Len(u) + j
  <2>1. CASE i \in 1..Len(u)
    BY <1>1, <1>2, <1>4, <2>1
  <2>2. CASE i \notin 1..Len(u)
    <3>1. i - Len(u) \in 1..Len(ms) /\ i = Len(u) + (i - Len(u))
      BY <1>1, <2>2
    <3>2. PICK j \in 1..Len(ms) : i = Len(u) + j
      BY <3>1
    <3>3. j \in M
      BY <1>1, <1>4, <3>2
    <3> QED BY <3>2, <3>3
  <2> QED BY <2>1, <2>2
<1>5. ASSUME NEW i \in Sent(r) PROVE i \in DOMAIN v /\ v[i].op = "rpc" /\ v[i].muxid = r
  BY <1>1, <1>2, <1>5
<1>6. ASSUME NEW j \in M
      PROVE  Len(u) + j \in DOMAIN v /\ v[Len(u) + j].op = "rpc" /\ v[Len(u) + j].muxid = r
  BY <1>1, <1>6
<1> HIDE DEF M
<1>7. Sent(r)' = Sent(r) \cup {Len(u) + i : i \in M}
  <2>1. ASSUME NEW i \in Sent(r)' PROVE i \in Sent(r) \cup {Len(u) + j : j \in M}
    BY <1>1, <1>3, <1>4, <2>1
  <2>2. ASSUME NEW i \in Sent(r) PROVE i \in Sent(r)'
    BY <1>3, <1>5, <2>2
  <2>3. ASSUME NEW j \in M PROVE Len(u) + j \in Sent(r)'
    BY <1>3, <1>6, <2>3
  <2> QED BY <2>1, <2>2, <2>3
<1> QED BY <1>7 DEF u, M

LEMMA SentIsKept ==
    ASSUME up[1] \in Seq(SentMessage), NEW ms \in Seq(SentMessage), NEW r,
           up'[1] = up[1] \/ up'[1] = up[1] \o ms,
           \A i \in DOMAIN ms : ~ (ms[i].op = "rpc" /\ ms[i].muxid = r)
    PROVE  Sent(r)' = Sent(r)
<1>1. CASE up'[1] = up[1]
  BY <1>1 DEF Sent
<1>2. CASE up'[1] = up[1] \o ms
  <2>1. Sent(r)' = Sent(r) \cup {Len(up[1]) + i : i \in {j \in DOMAIN ms :
                                       ms[j].op = "rpc" /\ ms[j].muxid = r}}
    BY <1>2, SentConcat
  <2> QED BY <2>1
<1> QED BY <1>1, <1>2

LEMMA OthersSend ==
    ASSUME TypeInv, OthersInv, down' = down,
           \A i, j \in DOMAIN queue' : queue'[i] = queue'[j] => i = j,
           \A w \in Socket : ready'[w] = "none" => ready[w] = "none",
           \A w \in Socket \ {1} : \/ up'[w] = up[w]
                                   \/ \E ms \in Seq(SentMessage) : NoRpc(ms) /\ up'[w] = up[w] \o ms
    PROVE  OthersInv'
<1>1. ASSUME NEW w \in Socket \ {1} PROVE \A i \in DOMAIN up'[w] : up'[w][i].op # "rpc"
  <2>1. NoRpc(up[w]) /\ up[w] \in Seq(SentMessage)
    BY DEF OthersInv, NoRpc, TypeInv, SocketTypes
  <2>2. NoRpc(up'[w])
    <3>1. CASE up'[w] = up[w]
      BY <2>1, <3>1
    <3>2. CASE up'[w] # up[w]
      <4>1. PICK ms \in Seq(SentMessage) : NoRpc(ms) /\ up'[w] = up[w] \o ms
        BY <3>2
      <4> QED BY <2>1, <4>1, NoRpcConcat
    <3> QED BY <3>1, <3>2
  <2> QED BY <2>2 DEF NoRpc
<1> QED BY <1>1 DEF OthersInv

\* Sending tells the page nothing and answers nothing: of an RPC there is as much as before,
\* or it goes up for the first time.
LEMMA SendsWhole ==
    ASSUME TypeInv, WholeInv, OthersInv',
           UNCHANGED <<told, replied, data, down, served, dropped>>,
           dropped => ready'[1] \in {"closing", "closed"},
           ~ dropped => \A r \in Rpc :
               \/ /\ Sent(r)' = Sent(r) /\ (r \in muxMap' => r \in muxMap)
                  /\ (InQueue(r)' \/ r > lastRpc') => (InQueue(r) \/ r > lastRpc)
               \/ /\ Sent(r) = {} /\ \A i, j \in Sent(r)' : i = j
                  /\ ~ InQueue(r)' /\ ~ r > lastRpc'
    PROVE  WholeInv'
<1> DEFINE G == WholeFrames(Stream)
<1>1. G' = G
  BY DEF Stream, WholeFrames, Aligned
<1>2. \A r \in Rpc : Whole(r)'
  BY DEF WholeInv, Whole
<1>3. CASE dropped
  <2>1. StaleInv'
    BY <1>3 DEF WholeInv, StaleInv, Aligned
  <2> QED BY <1>2, <1>3, <2>1 DEF WholeInv
<1>4. CASE ~ dropped
  <2> SUFFICES ASSUME NEW r \in Rpc
               PROVE  Relayed(r, G)' /\ ((InQueue(r) \/ r > lastRpc) => Sent(r) = {})'
    BY <1>2, <1>4 DEF WholeInv
  <2>0. Relayed(r, G) /\ (InQueue(r) \/ r > lastRpc => Sent(r) = {})
    BY <1>4 DEF WholeInv
  <2> HIDE DEF G
  <2>1. CASE /\ Sent(r)' = Sent(r) /\ (r \in muxMap' => r \in muxMap)
             /\ (InQueue(r)' \/ r > lastRpc') => (InQueue(r) \/ r > lastRpc)
    <3>1. Relayed(r, G)'
      BY <1>1, <2>0, <2>1 DEF Relayed, Replies, Endings, InOrder
    <3> QED BY <2>0, <2>1, <3>1
  <2>2. CASE /\ Sent(r) = {} /\ \A i, j \in Sent(r)' : i = j
             /\ ~ InQueue(r)' /\ ~ r > lastRpc'
    <3>1. /\ told[r] = <<>> /\ replied[r] = 0 /\ Replies(G, r) = {} /\ Endings(G, r) = {}
          /\ \A i \in DOMAIN G : G[i].muxid # r
      BY <2>0, <2>2 DEF Relayed, Replies, Endings
    <3>2. Len(told[r]) + Cardinality(Replies(G, r)) = 0
      <4>1. Len(<<>>) = 0
        OBVIOUS
      <4>2. Cardinality(Replies(G, r)) = 0
        BY <3>1, FS_EmptySet
      <4> QED BY <3>1, <4>1, <4>2
    <3>3. ~ Completed(told[r])
      <4>1. DOMAIN <<>> = {}
        OBVIOUS
      <4> QED BY <3>1, <4>1 DEF Completed
    <3>4. Relayed(r, G)'
      BY <1>1, <2>2, <3>1, <3>2, <3>3 DEF Relayed, Replies, Endings, InOrder, Completed
    <3> QED BY <2>2, <3>4
  <2> QED BY <1>4, <2>1, <2>2
<1> QED BY <1>3, <1>4


LEMMA AskWhole == ASSUME TypeInv, EndInv, AuthInv, WholeInv, PageRpc PROVE WholeInv'
<1>1. /\ ~ dropped /\ lastRpc' = lastRpc + 1 /\ lastRpc \in Nat /\ lastRpc' \in Rpc
      /\ UNCHANGED <<told, replied, data, down, served, dropped>>
  BY Constants DEF PageRpc, stream, mixer, TypeInv, PageTypes, Rpc
<1>2. Online /\ OthersInv
  BY <1>1 DEF AuthInv, WholeInv
<1>3. ~ InQueue(lastRpc') /\ lastRpc' > lastRpc /\ \A r \in Rpc : r \in Nat
  BY <1>1 DEF EndInv, Unended, Rpc
<1>4. CASE MustQueue
  <2>1. /\ queue' = Append(queue, lastRpc')
        /\ UNCHANGED <<muxMap, ready, up>>
    BY <1>4 DEF PageRpc
  <2>2. /\ queue \in Seq(Rpc) /\ Len(queue) \in Nat /\ DOMAIN queue = 1..Len(queue)
        /\ DOMAIN queue' = 1..Len(queue) + 1 /\ queue'[Len(queue) + 1] = lastRpc'
        /\ \A i \in 1..Len(queue) : queue'[i] = queue[i]
    BY <1>1, <2>1, AppendProperties, LenProperties DEF TypeInv, PageTypes
  <2>3. ASSUME NEW i \in DOMAIN queue', NEW j \in DOMAIN queue', queue'[i] = queue'[j] PROVE i = j
    <3>1. \A k \in DOMAIN queue' : k \in 1..Len(queue) \/ k = Len(queue) + 1
      BY <2>2
    <3>2. \A k \in 1..Len(queue) : queue'[k] # lastRpc'
      BY <1>3, <2>2 DEF InQueue
    <3>3. \A k, l \in 1..Len(queue) : queue[k] = queue[l] => k = l
      BY <1>2, <2>2 DEF OthersInv
    <3> QED BY <2>2, <2>3, <3>1, <3>2, <3>3
  <2>4. OthersInv'
    <3>1. \A w \in Socket : ready'[w] = "none" => ready[w] = "none"
      BY <2>1
    <3>2. \A w \in Socket \ {1} : up'[w] = up[w]
      BY <2>1
    <3>3. \A i, j \in DOMAIN queue' : queue'[i] = queue'[j] => i = j
      BY <2>3
    <3>4. down' = down
      BY <1>1
    <3> QED BY <1>2, <3>1, <3>2, <3>3, <3>4, OthersSend
  <2>5. ASSUME NEW r \in Rpc
        PROVE  /\ Sent(r)' = Sent(r) /\ (r \in muxMap' => r \in muxMap)
               /\ (InQueue(r)' \/ r > lastRpc') => (InQueue(r) \/ r > lastRpc)
    <3>1. Sent(r)' = Sent(r)
      BY <2>1 DEF Sent
    <3>2. InQueue(r)' => InQueue(r) \/ r = lastRpc'
      <4> SUFFICES ASSUME NEW i \in DOMAIN queue', queue'[i] = r PROVE InQueue(r) \/ r = lastRpc'
        BY DEF InQueue
      <4>1. i \in 1..Len(queue) \/ i = Len(queue) + 1
        BY <2>2
      <4> QED BY <2>2, <4>1 DEF InQueue
    <3> QED BY <1>1, <1>3, <2>1, <3>1, <3>2
  <2> QED BY <1>1, <2>4, <2>5, SendsWhole
<1>5. CASE ~ MustQueue
  <2> DEFINE ms == <<[op |-> "rpc", muxid |-> lastRpc']>>
  <2>1. authwebsocketid # None /\ queue' = queue /\ SendMessages(ms, muxMap \cup {lastRpc'})
    BY <1>5 DEF PageRpc, MustQueue
  <2>2. ws = 1 /\ IsOpen
    BY <1>2, <2>1, Constants DEF Online, IsOpen, None
  <2>3. /\ up' = [up EXCEPT ![1] = @ \o ms] /\ muxMap' = muxMap \cup {lastRpc'}
        /\ UNCHANGED ready
    BY <2>1, <2>2 DEF SendMessages
  <2>4. /\ ms \in Seq(SentMessage) /\ DOMAIN ms = {1}
        /\ ms[1].op = "rpc" /\ ms[1].muxid = lastRpc'
    BY <1>1, Messages
  <2> HIDE DEF ms
  <2>5. /\ up[1] \in Seq(SentMessage) /\ up'[1] = up[1] \o ms
        /\ \A w \in Socket \ {1} : up'[w] = up[w]
    BY <2>3, Constants DEF TypeInv, SocketTypes
  <2>6. OthersInv'
    <3>1. \A w \in Socket : ready'[w] = "none" => ready[w] = "none"
      BY <2>3
    <3>2. \A i, j \in DOMAIN queue' : queue'[i] = queue'[j] => i = j
      BY <1>2, <2>1 DEF OthersInv
    <3>3. down' = down
      BY <1>1
    <3> QED BY <1>2, <2>5, <3>1, <3>2, <3>3, OthersSend
  <2>7. ASSUME NEW r \in Rpc, r # lastRpc'
        PROVE  /\ Sent(r)' = Sent(r) /\ (r \in muxMap' => r \in muxMap)
               /\ (InQueue(r)' \/ r > lastRpc') => (InQueue(r) \/ r > lastRpc)
    <3>1. \A i \in DOMAIN ms : ~ (ms[i].op = "rpc" /\ ms[i].muxid = r)
      BY <2>4, <2>7
    <3>2. Sent(r)' = Sent(r)
      BY <2>4, <2>5, <3>1, SentIsKept
    <3>3. r > lastRpc' => r > lastRpc
      BY <1>1, <1>3
    <3> QED BY <2>1, <2>3, <2>7, <3>2, <3>3 DEF InQueue
  <2>8. ASSUME NEW r \in Rpc, r = lastRpc'
        PROVE  /\ Sent(r) = {} /\ \A i, j \in Sent(r)' : i = j
               /\ ~ InQueue(r)' /\ ~ r > lastRpc'
    <3>1. Sent(r) = {}
      BY <1>1, <1>3, <2>8 DEF WholeInv
    <3>2. Sent(r)' = Sent(r) \cup {Len(up[1]) + i : i \in {j \in DOMAIN ms :
                                       ms[j].op = "rpc" /\ ms[j].muxid = r}}
      BY <2>4, <2>5, SentConcat
    <3>3. {j \in DOMAIN ms : ms[j].op = "rpc" /\ ms[j].muxid = r} = {1}
      BY <2>4, <2>8
    <3>4. Sent(r)' = {Len(up[1]) + 1}
      BY <3>1, <3>2, <3>3
    <3>5. ~ r > lastRpc'
      BY <1>3, <2>8
    <3> QED BY <1>3, <2>1, <2>8, <3>1, <3>4, <3>5 DEF InQueue
  <2> QED BY <1>1, <2>6, <2>7, <2>8, SendsWhole
<1> QED BY <1>4, <1>5

\* Sending what is no RPC, with what has been asked for and the queue as they were
LEMMA QuietSendWhole ==
    ASSUME TypeInv, WholeInv, UNCHANGED <<told, replied, data, down, served, dropped, queue, lastRpc>>,
           NEW ms \in Seq(SentMessage), NoRpc(ms),
           \A w \in Socket : up'[w] = up[w] \/ up'[w] = up[w] \o ms,
           \A w \in Socket : ready'[w] = "none" => ready[w] = "none",
           dropped => ready'[1] \in {"closing", "closed"},
           \A r \in Rpc : r \in muxMap' => r \in muxMap
    PROVE  WholeInv'
<1>1. OthersInv'
  <2>1. \A w \in Socket \ {1} : \/ up'[w] = up[w]
                                \/ \E xs \in Seq(SentMessage) : NoRpc(xs) /\ up'[w] = up[w] \o xs
    OBVIOUS
  <2>2. OthersInv /\ \A i, j \in DOMAIN queue' : queue'[i] = queue'[j] => i = j
    BY DEF WholeInv, OthersInv
  <2>3. down' = down
    OBVIOUS
  <2> QED BY <2>1, <2>2, <2>3, OthersSend
<1>2. ASSUME NEW r \in Rpc
      PROVE  /\ Sent(r)' = Sent(r) /\ (r \in muxMap' => r \in muxMap)
             /\ (InQueue(r)' \/ r > lastRpc') => (InQueue(r) \/ r > lastRpc)
  <2>1. up[1] \in Seq(SentMessage) /\ (up'[1] = up[1] \/ up'[1] = up[1] \o ms)
    BY Constants DEF TypeInv, SocketTypes
  <2>2. \A i \in DOMAIN ms : ~ (ms[i].op = "rpc" /\ ms[i].muxid = r)
    BY DEF NoRpc
  <2>3. Sent(r)' = Sent(r)
    BY <2>1, <2>2, SentIsKept
  <2> QED BY <2>3 DEF InQueue
<1> QED BY <1>1, <1>2, SendsWhole

LEMMA DataWhole == ASSUME TypeInv, AuthInv, WholeInv, PageData PROVE WholeInv'
<1>1. PICK r \in 1..lastRpc : SendMessages(<<[op |-> "data", muxid |-> r]>>, muxMap)
  BY DEF PageData
<1>2. /\ UNCHANGED <<told, replied, data, down, served, dropped, queue, lastRpc>>
      /\ r \in Rpc
  BY Constants DEF PageData, stream, mixer, TypeInv, PageTypes, Rpc
<1> DEFINE ms == <<[op |-> "data", muxid |-> r]>>
<1>3. ms \in Seq(SentMessage) /\ NoRpc(ms)
  BY <1>2, Messages DEF NoRpc
<1>4. SendMessages(ms, muxMap)
  BY <1>1
<1> HIDE DEF ms
<1>5. /\ \A w \in Socket : ready'[w] = "none" => ready[w] = "none"
      /\ \A w \in Socket : up'[w] = up[w] \/ up'[w] = up[w] \o ms
      /\ ready[1] \in {"closing", "closed"} => ready'[1] \in {"closing", "closed"}
  BY <1>3, <1>4, SendEffects
<1>6. dropped => ready'[1] \in {"closing", "closed"}
  BY <1>5 DEF WholeInv, StaleInv
<1>7. \A q \in Rpc : q \in muxMap' => q \in muxMap
  BY <1>4, SendEntries
<1> QED BY <1>2, <1>3, <1>5, <1>6, <1>7, QuietSendWhole

LEMMA OpenWhole ==
    ASSUME TypeInv, AuthInv, WholeInv, NEW w \in Socket, SocketOpens(w)
    PROVE  WholeInv'
<1>1. /\ ready[w] = "connecting" /\ ready' = [ready EXCEPT ![w] = "open"]
      /\ up' = up \/ up' = [up EXCEPT ![ws] = @ \o pendingMessages]
      /\ UNCHANGED <<told, replied, data, down, served, dropped, queue, lastRpc, muxMap>>
  BY DEF SocketOpens, stream, page, mixer
<1>2. pendingMessages \in Seq(SentMessage) /\ NoRpc(pendingMessages)
  BY DEF AuthInv, SocketsInv, NoRpc, TypeInv, SocketTypes
<1>3. \A x \in Socket : up'[x] = up[x] \/ up'[x] = up[x] \o pendingMessages
  BY <1>1 DEF TypeInv, SocketTypes
<1>4. \A x \in Socket : ready'[x] = IF x = w THEN "open" ELSE ready[x]
  BY <1>1 DEF TypeInv, SocketTypes
<1>5. dropped => ready'[1] \in {"closing", "closed"}
  <2>1. dropped => ready[1] \in {"closing", "closed"}
    BY DEF WholeInv, StaleInv
  <2> QED BY <1>1, <1>4, <2>1, Constants
<1>6. \A x \in Socket : ready'[x] = "none" => ready[x] = "none"
  BY <1>4
<1>7. \A q \in Rpc : q \in muxMap' => q \in muxMap
  BY <1>1
<1> QED BY <1>1, <1>2, <1>3, <1>5, <1>6, <1>7, QuietSendWhole


-----------------------------------------------------------------------------
(* What is closed keeps replies whole *)

LEMMA StaleKept ==
    ASSUME TypeInv, AuthInv, WholeInv, down' = down, data' = data,
           ready'[1] \in {"closing", "closed"}
    PROVE  StaleInv'
<1>1. CASE dropped
  BY <1>1 DEF WholeInv, StaleInv, Aligned
<1>2. CASE ~ dropped
  <2>1. lastSocket = 1 /\ OthersInv /\ SocketsInv
    BY <1>2 DEF AuthInv, Online, WholeInv
  <2>2. \A w \in Socket \ {1} : w > lastSocket
    BY <2>1 DEF Socket
  <2>3. \A w \in Socket \ {1} : down[w] = <<>>
    BY <2>1, <2>2 DEF OthersInv, SocketsInv
  <2> QED BY <2>3 DEF StaleInv
<1> QED BY <1>1, <1>2

LEMMA OthersStay ==
    ASSUME TypeInv, WholeInv, UNCHANGED <<down, up, queue>>,
           \A w \in Socket : ready'[w] = "none" => ready[w] = "none"
    PROVE  OthersInv'
<1>1. OthersInv /\ down' = down /\ \A i, j \in DOMAIN queue' : queue'[i] = queue'[j] => i = j
  BY DEF WholeInv, OthersInv
<1>2. \A w \in Socket \ {1} : up'[w] = up[w]
  OBVIOUS
<1> QED BY <1>1, <1>2, OthersSend

LEMMA PageClosesWhole == ASSUME TypeInv, AuthInv, WholeInv, PageCloses PROVE WholeInv'
<1>1. /\ dropped' /\ ready' = IF opening THEN [ready EXCEPT ![ws] = "closing"] ELSE ready
      /\ UNCHANGED <<told, replied, data, down, up, served, queue>>
  BY DEF PageCloses, stream, mixer
<1>2. ready' = [ready EXCEPT ![1] = "closing"]
  BY <1>1 DEF PageCloses, AuthInv, Online
<1>3. ready'[1] = "closing" /\ \A w \in Socket : ready'[w] = "none" => ready[w] = "none"
  BY <1>2, Constants DEF TypeInv, SocketTypes
<1>4. StaleInv'
  BY <1>1, <1>3, StaleKept
<1>5. OthersInv'
  BY <1>1, <1>3, OthersStay
<1>6. \A r \in Rpc : Whole(r)'
  BY <1>1 DEF WholeInv, Whole
<1> QED BY <1>1, <1>4, <1>5, <1>6 DEF WholeInv

LEMMA CloseWhole ==
    ASSUME TypeInv, EndInv, AuthInv, WholeInv, NEW w \in Socket, Closed(w), ready[w] # "none"
    PROVE  WholeInv'
<1>1. /\ dropped'
      /\ told' = [r \in Rpc |-> IF r \in muxMap THEN Append(told[r], "close") ELSE told[r]]
      /\ UNCHANGED <<replied, data, down, up, served, queue>>
  BY DEF Closed, ForceClose, Entries, stream, mixer
<1>2. /\ ready'[w] = "closed"
      /\ \A x \in Socket : ready'[x] = ready[x] \/ ready'[x] \in {"closing", "closed"}
  BY DEF Closed, TypeInv, SocketTypes
<1>3. ready'[1] \in {"closing", "closed"}
  <2>1. CASE dropped
    BY <1>2, <2>1, Constants DEF WholeInv, StaleInv
  <2>2. CASE ~ dropped
    <3>1. lastSocket = 1 /\ SocketsInv
      BY <2>2 DEF AuthInv, Online
    <3>2. w = 1
      BY <3>1 DEF SocketsInv, Socket
    <3> QED BY <1>2, <3>2
  <2> QED BY <2>1, <2>2
<1>4. StaleInv'
  BY <1>1, <1>3, StaleKept
<1>5. OthersInv'
  <2>1. \A x \in Socket : ready'[x] = "none" => ready[x] = "none"
    BY <1>2
  <2> QED BY <1>1, <2>1, OthersStay
<1>6. ASSUME NEW r \in Rpc PROVE Whole(r)'
  <2>1. CASE r \notin muxMap
    <3>1. told'[r] = told[r] /\ replied' = replied
      BY <1>1, <2>1
    <3> QED BY <3>1 DEF WholeInv, Whole
  <2>2. CASE r \in muxMap
    <3>1. \A i \in DOMAIN told[r] : told[r][i] \notin Final
      BY <2>2 DEF EndInv, Unended, Ends
    <3>2. told'[r] = Append(told[r], "close") /\ told[r] \in Seq(Final \cup {"reply"})
      BY <1>1, <2>2 DEF TypeInv, PageTypes
    <3> DEFINE t == Append(told[r], "close")
    <3>3. /\ DOMAIN t = 1..Len(told[r]) + 1 /\ t[Len(told[r]) + 1] = "close"
          /\ \A i \in 1..Len(told[r]) : t[i] = told[r][i]
          /\ DOMAIN told[r] = 1..Len(told[r]) /\ Len(told[r]) \in Nat
      BY <3>2, AppendProperties, LenProperties DEF Final
    <3> HIDE DEF t
    <3>4. ~ Completed(t)
      <4> SUFFICES ASSUME NEW i \in 1..Len(told[r]) + 1 PROVE t[i] # "complete"
        BY <3>3 DEF Completed
      <4>1. i \in 1..Len(told[r]) \/ i = Len(told[r]) + 1
        BY <3>3
      <4> QED BY <3>1, <3>3, <4>1 DEF Final
    <3>5. ~ Completed(told'[r])
      BY <3>2, <3>4 DEF t
    <3> QED BY <3>5 DEF Whole
  <2> QED BY <2>1, <2>2
<1> QED BY <1>1, <1>4, <1>5, <1>6 DEF WholeInv


-----------------------------------------------------------------------------
(* What the mixer sends keeps replies whole *)

\* Frames g of the mixer, of other RPCs, or replies to this one before its end, or its end
LEMMA RelayedGrows ==
    ASSUME TypeInv, NEW r \in Rpc, NEW G \in Seq(SentPiece), NEW g \in Seq(SentPiece),
           Relayed(r, G), Whole(r),
           UNCHANGED <<told, muxMap, up>>, served[1] \subseteq served'[1],
           replied'[r] = replied[r] + Cardinality(Replies(g, r)),
           \/ \A k \in DOMAIN g : g[k].muxid # r
           \/ Sent(r) # {} /\ Endings(g, r) = {} /\ ~ Sent(r) \subseteq served[1]
           \/ Sent(r) # {} /\ Replies(g, r) = {} /\ Sent(r) \subseteq served'[1]
    PROVE  Relayed(r, G \o g)' /\ Whole(r)'
<1> DEFINE X == G \o g
           d == Cardinality(Replies(g, r))
           n == Cardinality(Replies(G, r))
<1>1. /\ Endings(X, r) = Endings(G, r) \cup {Len(G) + i : i \in Endings(g, r)}
      /\ Cardinality(Replies(X, r)) = n + d /\ n \in Nat /\ d \in Nat
  BY RepliesConcat, RepliesAreFinite
<1>2. replied[r] \in Nat /\ Len(told[r]) \in Nat
  BY Constants DEF TypeInv, MixerTypes, PageTypes
<1>3. Sent(r)' = Sent(r)
  BY DEF Sent
<1>4. Replies(g, r) = {} => d = 0
  BY FS_EmptySet
<1>5. (\A k \in DOMAIN g : g[k].muxid # r) => Replies(g, r) = {} /\ Endings(g, r) = {}
  BY DEF Replies, Endings
<1>6. InOrder(X, r)
  <2>1. InOrder(G, r)
    BY DEF Relayed
  <2>2. InOrder(g, r)
    BY <1>5 DEF InOrder
  <2>3. Endings(G, r) = {} \/ Replies(g, r) = {}
    BY <1>5 DEF Relayed
  <2> QED BY <2>1, <2>2, <2>3, OrderOfConcat
<1>7. Sent(r) = {} => \A i \in DOMAIN X : X[i].muxid # r
  <2> SUFFICES ASSUME Sent(r) = {}, NEW i \in DOMAIN X PROVE X[i].muxid # r
    OBVIOUS
  <2>1. /\ Len(G) \in Nat /\ Len(g) \in Nat /\ DOMAIN G = 1..Len(G) /\ DOMAIN g = 1..Len(g)
        /\ DOMAIN X = 1..Len(G) + Len(g)
        /\ \A k \in 1..Len(G) : X[k] = G[k]
        /\ \A k \in 1..Len(g) : X[Len(G) + k] = g[k]
    BY Concat
  <2> HIDE DEF X
  <2>2. CASE i \in 1..Len(G)
    BY <2>1, <2>2 DEF Relayed
  <2>3. CASE i \notin 1..Len(G)
    <3>1. i - Len(G) \in 1..Len(g) /\ i = Len(G) + (i - Len(G))
      BY <2>1, <2>3
    <3>2. PICK k \in 1..Len(g) : i = Len(G) + k
      BY <3>1
    <3>3. X[i] = g[k] /\ k \in DOMAIN g
      BY <2>1, <3>2
    <3> QED BY <3>3
  <2> QED BY <2>2, <2>3
<1>8. Sent(r) = {} => replied'[r] = 0 /\ told[r] = <<>>
  <2> SUFFICES ASSUME Sent(r) = {} PROVE replied'[r] = 0 /\ told[r] = <<>>
    OBVIOUS
  <2>1. d = 0
    BY <1>4, <1>5
  <2> QED BY <1>2, <2>1 DEF Relayed
<1>9. Endings(X, r) # {} \/ Completed(told[r]) => Sent(r) \subseteq served'[1]
  <2>1. Endings(X, r) # {} => Endings(G, r) # {} \/ Endings(g, r) # {}
    BY <1>1
  <2>2. Endings(G, r) # {} \/ Completed(told[r]) => Sent(r) \subseteq served[1]
    BY DEF Relayed
  <2> QED BY <1>5, <2>1, <2>2
<1>10. Whole(r)'
  <2> SUFFICES ASSUME Completed(told[r]) PROVE Cardinality(Heards(told[r])) = replied'[r]
    BY DEF Whole
  <2>1. Sent(r) \subseteq served[1]
    BY DEF Relayed
  <2>2. d = 0
    BY <1>4, <1>5, <2>1
  <2> QED BY <1>2, <2>2 DEF Whole
<1>11. r \in muxMap => Len(told[r]) + Cardinality(Replies(X, r)) = replied'[r]
  <2> SUFFICES ASSUME r \in muxMap PROVE Len(told[r]) + Cardinality(Replies(X, r)) = replied'[r]
    OBVIOUS
  <2>1. Len(told[r]) + n = replied[r]
    BY DEF Relayed
  <2>2. PICK a \in Nat, b \in Nat, l \in Nat : a = n /\ b = d /\ l = Len(told[r])
    BY <1>1, <1>2
  <2>3. Cardinality(Replies(X, r)) = a + b /\ l + a = replied[r] /\ replied'[r] = replied[r] + b
    BY <1>1, <2>1, <2>2
  <2>4. l + (a + b) = (l + a) + b
    OBVIOUS
  <2> QED BY <2>2, <2>3, <2>4
<1> HIDE DEF X
<1>12. \A i, j \in Sent(r) : i = j
  BY DEF Relayed
<1>13. Relayed(r, X)'
  BY <1>3, <1>6, <1>7, <1>8, <1>9, <1>11, <1>12 DEF Relayed, Replies, Endings, InOrder, Completed
<1> QED BY <1>10, <1>13 DEF X

\* While the page has the muxer there is but the first websocket.
LEMMA OnlineSends ==
    ASSUME TypeInv, AuthInv, WholeInv, ~ dropped, NEW w \in Socket, NEW i \in DOMAIN up[w],
           NEW frames \in Seq(SentPiece), NEW done \in BOOLEAN, MixerSends(w, i, frames, done),
           Framed(frames),
           \A r \in Rpc :
              /\ replied'[r] = replied[r] + Cardinality(Replies(WholeFrames(frames), r))
              /\ \/ \A k \in DOMAIN WholeFrames(frames) : WholeFrames(frames)[k].muxid # r
                 \/ i \in Sent(r) /\ Endings(WholeFrames(frames), r) = {} /\ ~ done
                 \/ i \in Sent(r) /\ Replies(WholeFrames(frames), r) = {} /\ done
    PROVE  WholeInv'
<1>1. /\ ready[w] = "open" /\ i \in DOMAIN up[w] \ served[w]
      /\ down' = [down EXCEPT ![w] = @ \o frames]
      /\ served' = IF done THEN [served EXCEPT ![w] = @ \cup {i}] ELSE served
      /\ UNCHANGED <<muxMap, queue, data, told, lastRpc, dropped, ready, up>>
  BY DEF MixerSends, muxer, stream, page
<1>2. w = 1
  <2>1. Online /\ SocketsInv
    BY DEF AuthInv
  <2> QED BY <1>1, <2>1 DEF Online, SocketsInv, Socket
<1>3. /\ data \in Seq(SentPiece) /\ down[1] \in Seq(SentPiece)
      /\ down'[1] = down[1] \o frames /\ \A x \in Socket \ {1} : down'[x] = down[x]
      /\ served'[1] = IF done THEN served[1] \cup {i} ELSE served[1]
  BY <1>1, <1>2, Constants DEF TypeInv, StreamTypes, MixerTypes
<1>4. Stream \in Seq(SentPiece) /\ Stream' = Stream \o frames
  <2>1. Stream \in Seq(SentPiece)
    BY <1>3, ConcatProperties DEF Stream
  <2>2. (data \o down[1]) \o frames = data \o (down[1] \o frames)
    <3>1. \A d \in Seq(SentPiece) : (data \o d) \o frames = data \o (d \o frames)
      <4> TAKE d \in Seq(SentPiece)
      <4>1. data \in Seq(SentPiece) /\ d \in Seq(SentPiece) /\ frames \in Seq(SentPiece)
        BY <1>3
      <4> QED BY <4>1, ConcatAssociative
    <3> QED BY <1>3, <3>1
  <2> QED BY <1>1, <1>3, <2>1, <2>2 DEF Stream
<1>5. Framed(Stream)
  BY DEF AuthInv, Online
<1> DEFINE G == WholeFrames(Stream)
           g == WholeFrames(frames)
<1>6. G \in Seq(SentPiece) /\ g \in Seq(SentPiece)
  BY <1>4, FramesOf
<1>7. WholeFrames(Stream \o frames) = G \o g
  BY <1>4, <1>5, FramesConcat
<1>8. PICK X : X = G \o g
  OBVIOUS
<1>9. WholeFrames(Stream)' = X
  <2>1. WholeFrames(Stream)' = WholeFrames(Stream')
    BY DEF WholeFrames, Aligned
  <2> QED BY <1>4, <1>7, <1>8, <2>1
<1>10. OthersInv'
  <2>1. \A x \in Socket : ready'[x] = "none" => down'[x] = <<>>
    BY <1>1, <1>2, <1>3 DEF WholeInv, OthersInv
  <2> QED BY <1>1, <1>3, <2>1 DEF WholeInv, OthersInv
<1>11. ASSUME NEW r \in Rpc
       PROVE  /\ Relayed(r, WholeFrames(Stream))' /\ Whole(r)'
              /\ (InQueue(r) \/ r > lastRpc => Sent(r) = {})'
  <2>1. /\ Relayed(r, G) /\ Whole(r) /\ (InQueue(r) \/ r > lastRpc => Sent(r) = {})
    BY DEF WholeInv
  <2> HIDE DEF G
  <2>2. /\ replied'[r] = replied[r] + Cardinality(Replies(g, r))
        /\ \/ \A k \in DOMAIN g : g[k].muxid # r
           \/ i \in Sent(r) /\ Endings(g, r) = {} /\ ~ done
           \/ i \in Sent(r) /\ Replies(g, r) = {} /\ done
    OBVIOUS
  <2> HIDE DEF g
  <2>3. \A k \in Sent(r) : i \in Sent(r) => k = i
    BY <2>1 DEF Relayed
  <2>4. i \notin served[1]
    BY <1>1, <1>2
  <2>5. \/ \A k \in DOMAIN g : g[k].muxid # r
        \/ Sent(r) # {} /\ Endings(g, r) = {} /\ ~ Sent(r) \subseteq served[1]
        \/ Sent(r) # {} /\ Replies(g, r) = {} /\ Sent(r) \subseteq served'[1]
    BY <1>3, <2>2, <2>3, <2>4
  <2>6. UNCHANGED <<told, muxMap, up>> /\ served[1] \subseteq served'[1]
    BY <1>1, <1>3
  <2>7. Relayed(r, X)' /\ Whole(r)'
    BY <1>6, <1>8, <2>1, <2>2, <2>5, <2>6, RelayedGrows
  <2>8. Relayed(r, WholeFrames(Stream))'
    <3> DEFINE Y == WholeFrames(Stream)
    <3>1. Y' = X
      BY <1>9
    <3> HIDE DEF Y
    <3>2. Relayed(r, Y)'
      BY <2>7, <3>1 DEF Relayed, Replies, Endings, InOrder
    <3> QED BY <3>2 DEF Y
  <2>9. (InQueue(r) \/ r > lastRpc => Sent(r) = {})'
    BY <1>1, <2>1 DEF InQueue, Sent
  <2> QED BY <2>7, <2>8, <2>9
<1> QED BY <1>1, <1>10, <1>11 DEF WholeInv


LEMMA OneFrame ==
    ASSUME NEW op, NEW id, NEW r, Frame(op, id) \in Seq(SentPiece)
    PROVE  LET g == WholeFrames(Frame(op, id))
           IN  /\ Replies(g, r) = IF op = "reply" /\ id = r THEN {1} ELSE {}
               /\ op = "reply" => Endings(g, r) = {}
               /\ id # r => \A k \in DOMAIN g : g[k].muxid # r
<1> DEFINE g == WholeFrames(Frame(op, id))
<1>1. g \in Seq(SentPiece) /\ Len(g) = 1 /\ g[1].op = op /\ g[1].muxid = id
  BY FrameIsOne
<1>2. DOMAIN g = {1}
  BY <1>1, LenProperties
<1> HIDE DEF g
<1>3. Replies(g, r) = IF op = "reply" /\ id = r THEN {1} ELSE {}
  BY <1>1, <1>2 DEF Replies
<1>4. op = "reply" => Endings(g, r) = {}
  BY <1>1, <1>2 DEF Endings
<1> QED BY <1>1, <1>2, <1>3, <1>4 DEF g

\* What a websocket that is not the first gets are the answers to authinit.
LEMMA OfflineSends ==
    ASSUME TypeInv, WholeInv, dropped, NEW w \in Socket, NEW i \in DOMAIN up[w],
           MixerAuthenticates(w, i) \/ MixerReplies(w, i) \/ MixerFinishes(w, i)
    PROVE  WholeInv'
<1> DEFINE id     == up[w][i].muxid
           frames == Frame("authinit", id)
<1>1. ready[w] = "open" /\ StaleInv /\ OthersInv
  BY DEF MixerAuthenticates, MixerReplies, MixerFinishes, MixerSends, WholeInv
<1>2. w # 1
  BY <1>1 DEF StaleInv
<1>3. up[w][i].op # "rpc"
  BY <1>1, <1>2 DEF OthersInv
<1>4. MixerSends(w, i, frames, TRUE) /\ UNCHANGED replied /\ up[w][i].op = "authinit"
  BY <1>3 DEF MixerAuthenticates, MixerReplies, MixerFinishes
<1>5. /\ down' = [down EXCEPT ![w] = @ \o frames]
      /\ UNCHANGED <<queue, data, told, dropped, ready, up, replied>>
  BY <1>4 DEF MixerSends, muxer, stream, page
<1>6. /\ frames \in Seq(SentPiece) /\ Len(frames) = FrameLen
      /\ \A k \in 1..FrameLen : frames[k].op = "authinit" /\ frames[k].head = (k = 1)
  <2>1. up[w][i] \in SentMessage
    BY LenProperties, ElementOfSeq DEF TypeInv, SocketTypes
  <2>2. id \in {Auth, None}
    BY <1>4, <2>1 DEF SentMessage, Message
  <2>3. /\ frames \in Seq(SentPiece) /\ Len(frames) = FrameLen
        /\ \A k \in 1..FrameLen : frames[k] = [op |-> "authinit", muxid |-> id, head |-> k = 1]
    BY <2>2, Frames
  <2> HIDE DEF id, frames
  <2> QED BY <2>3
<1>7. down[w] \in Seq(SentPiece) /\ down'[w] = down[w] \o frames /\ \A x \in Socket \ {w} : down'[x] = down[x]
  BY <1>5 DEF TypeInv, MixerTypes
<1> HIDE DEF frames
<1>8. /\ Len(down[w]) \in Nat /\ DOMAIN down[w] = 1..Len(down[w])
      /\ DOMAIN down'[w] = 1..Len(down[w]) + FrameLen
      /\ \A k \in 1..Len(down[w]) : down'[w][k] = down[w][k]
      /\ \A k \in 1..FrameLen : down'[w][Len(down[w]) + k] = frames[k]
  BY <1>6, <1>7, Concat
<1>9. \A k \in DOMAIN down[w] : down[w][k].op = "authinit"
  BY <1>1, <1>2 DEF OthersInv
<1>10. ASSUME NEW k \in DOMAIN down'[w] PROVE down'[w][k].op = "authinit"
  <2>1. CASE k \in 1..Len(down[w])
    BY <1>8, <1>9, <2>1
  <2>2. CASE k \notin 1..Len(down[w])
    <3>1. k - Len(down[w]) \in 1..FrameLen /\ k = Len(down[w]) + (k - Len(down[w]))
      BY <1>8, <2>2, Constants
    <3>2. PICK j \in 1..FrameLen : k = Len(down[w]) + j
      BY <3>1
    <3> QED BY <1>6, <1>8, <3>2
  <2> QED BY <2>1, <2>2
<1>11. OthersInv'
  <2>1. /\ \A a, b \in DOMAIN queue' : queue'[a] = queue'[b] => a = b
        /\ \A x \in Socket : ready'[x] = "none" => down'[x] = <<>>
        /\ \A x \in Socket \ {1} : \A k \in DOMAIN up'[x] : up'[x][k].op # "rpc"
    BY <1>1, <1>5, <1>7 DEF OthersInv
  <2>2. ASSUME NEW x \in Socket \ {1} PROVE \A k \in DOMAIN down'[x] : down'[x][k].op = "authinit"
    <3>1. CASE x = w
      BY <1>10, <3>1
    <3>2. CASE x # w
      <4>1. down'[x] = down[x]
        BY <1>7, <3>2
      <4>2. \A k \in DOMAIN down[x] : down[x][k].op = "authinit"
        BY <1>1 DEF OthersInv
      <4> QED BY <4>1, <4>2
    <3> QED BY <3>1, <3>2
  <2> QED BY <2>1, <2>2 DEF OthersInv
<1>12. down[w] = <<>> => down'[w][1].head
  <2> SUFFICES ASSUME down[w] = <<>> PROVE down'[w][1].head
    OBVIOUS
  <2>1. Len(down[w]) = 0
    OBVIOUS
  <2>2. 1 \in 1..FrameLen /\ Len(down[w]) + 1 = 1
    BY <2>1, Constants
  <2>3. down'[w][1] = frames[1]
    BY <1>8, <2>2
  <2> QED BY <1>6, <2>2, <2>3
<1>13. down[w] # <<>> => down'[w][1] = down[w][1]
  <2> SUFFICES ASSUME down[w] # <<>> PROVE down'[w][1] = down[w][1]
    OBVIOUS
  <2>1. Len(down[w]) # 0
    BY <1>7, EmptySeq
  <2>2. 1 \in 1..Len(down[w])
    BY <1>8, <2>1
  <2> QED BY <1>8, <2>2
<1>14. StaleInv'
  <2>1. ready'[1] \in {"closing", "closed"}
    BY <1>1, <1>5 DEF StaleInv
  <2>2. CASE \A k \in DOMAIN data : data[k].op = "authinit"
    BY <1>5, <2>1, <2>2 DEF StaleInv
  <2>3. CASE ~ Aligned(data)
    BY <1>5, <2>1, <2>3 DEF StaleInv, Aligned
  <2>4. CASE \A x \in Socket \ {1} : down[x] # <<>> => down[x][1].head
    <3>1. \A x \in Socket \ {1} : down'[x] # <<>> => down'[x][1].head
      BY <1>2, <1>7, <1>12, <1>13, <2>4
    <3> QED BY <2>1, <3>1 DEF StaleInv
  <2> QED BY <1>1, <2>2, <2>3, <2>4 DEF StaleInv
<1>15. \A r \in Rpc : Whole(r)'
  BY <1>5 DEF WholeInv, Whole
<1> QED BY <1>5, <1>11, <1>14, <1>15 DEF WholeInv

LEMMA MixerWhole ==
    ASSUME TypeInv, AuthInv, WholeInv, NEW w \in Socket, NEW i \in DOMAIN up[w],
           MixerAuthenticates(w, i) \/ MixerReplies(w, i) \/ MixerFinishes(w, i)
    PROVE  WholeInv'
<1>1. CASE dropped
  BY <1>1, OfflineSends
<1>2. CASE ~ dropped
  <2>1. up[w][i] \in SentMessage
    BY ElementOfSeq, LenProperties DEF TypeInv, SocketTypes
  <2>2. w = 1
    <3>1. ready[w] = "open" /\ Online /\ SocketsInv
      BY <1>2 DEF MixerAuthenticates, MixerReplies, MixerFinishes, MixerSends, AuthInv
    <3> QED BY <3>1 DEF Online, SocketsInv, Socket
  <2>3. PICK id : id = up[w][i].muxid
    OBVIOUS
  <2>4. /\ (up[w][i].op = "authinit") => id \in {Auth, None} /\ id \notin Rpc
        /\ (up[w][i].op = "rpc") => id \in Rpc /\ i \in Sent(id)
    BY <2>1, <2>2, <2>3, Constants DEF SentMessage, Message, Sent
  <2>5. /\ replied \in [Rpc -> 0..MaxReply] /\ \A r \in Rpc : replied[r] \in Nat
        /\ Cardinality({}) = 0 /\ Cardinality({1}) = 1
    <3>1. Cardinality({}) = 0 /\ Cardinality({1}) = 1
      BY FS_EmptySet, FS_Singleton
    <3> QED BY <3>1, Constants DEF TypeInv, MixerTypes
  <2>6. CASE MixerAuthenticates(w, i)
    <3> DEFINE frames == Frame("authinit", id)
               g == WholeFrames(frames)
    <3>1. MixerSends(w, i, frames, TRUE) /\ up[w][i].op = "authinit" /\ UNCHANGED replied
      BY <2>3, <2>6 DEF MixerAuthenticates
    <3>2. frames \in Seq(SentPiece) /\ Framed(frames)
      BY <2>4, <3>1, Frames, FrameIsFramed
    <3>3. \A r \in Rpc : Replies(g, r) = {} /\ \A k \in DOMAIN g : g[k].muxid # r
      BY <2>4, <3>1, <3>2, OneFrame
    <3> HIDE DEF frames
    <3>4. \A r \in Rpc : /\ replied'[r] = replied[r] + Cardinality(Replies(g, r))
                         /\ \A k \in DOMAIN g : g[k].muxid # r
      BY <2>5, <3>1, <3>3
    <3> QED BY <1>2, <3>1, <3>2, <3>4, OnlineSends
  <2>7. CASE MixerReplies(w, i)
    <3> DEFINE frames == Frame("reply", id)
               g == WholeFrames(frames)
    <3>1. /\ MixerSends(w, i, frames, FALSE) /\ up[w][i].op = "rpc"
          /\ replied' = [replied EXCEPT ![id] = @ + 1]
      BY <2>3, <2>7 DEF MixerReplies
    <3>2. frames \in Seq(SentPiece) /\ Framed(frames)
      BY <2>4, <3>1, Frames, FrameIsFramed
    <3>3. \A r \in Rpc : /\ Replies(g, r) = IF id = r THEN {1} ELSE {}
                         /\ Endings(g, r) = {}
                         /\ id # r => \A k \in DOMAIN g : g[k].muxid # r
      BY <3>2, OneFrame
    <3> HIDE DEF frames
    <3>4. \A r \in Rpc : replied'[r] = replied[r] + Cardinality(Replies(g, r))
      BY <2>4, <2>5, <3>1, <3>3
    <3>5. \A r \in Rpc : \/ \A k \in DOMAIN g : g[k].muxid # r
                         \/ i \in Sent(r) /\ Endings(g, r) = {}
      BY <2>4, <3>1, <3>3
    <3> QED BY <1>2, <3>1, <3>2, <3>4, <3>5, OnlineSends
  <2>8. CASE MixerFinishes(w, i)
    <3>1. up[w][i].op = "rpc" /\ UNCHANGED replied
      BY <2>8 DEF MixerFinishes
    <3>2. PICK frames \in {Frame("complete", id), Frame("error", id),
                           Frame("error", id) \o Frame("error", id)} :
             MixerSends(w, i, frames, TRUE)
      BY <2>3, <2>8 DEF MixerFinishes
    <3> DEFINE g == WholeFrames(frames)
               f == Frame("error", id)
               e == WholeFrames(f)
    <3>3. /\ Frame("complete", id) \in Seq(SentPiece) /\ Framed(Frame("complete", id))
          /\ f \in Seq(SentPiece) /\ Framed(f)
      BY <2>4, <3>1, Frames, FrameIsFramed
    <3>4. /\ f \o f \in Seq(SentPiece) /\ Framed(f \o f) /\ WholeFrames(f \o f) = e \o e
          /\ e \in Seq(SentPiece)
      BY <3>3, FramedConcat, FramesConcat, FramesOf, ConcatProperties
    <3>5. \A r \in Rpc : /\ Replies(e, r) = {}
                         /\ id # r => \A k \in DOMAIN e : e[k].muxid # r
      BY <3>3, OneFrame
    <3>6. \A r \in Rpc : LET c == WholeFrames(Frame("complete", id))
                         IN  /\ Replies(c, r) = {}
                             /\ id # r => \A k \in DOMAIN c : c[k].muxid # r
      BY <3>3, OneFrame
    <3>7. frames \in Seq(SentPiece) /\ Framed(frames)
      BY <3>2, <3>3, <3>4
    <3> HIDE DEF e, f
    <3>8. ASSUME NEW r \in Rpc
          PROVE  /\ Replies(e \o e, r) = {}
                 /\ id # r => \A k \in DOMAIN (e \o e) : (e \o e)[k].muxid # r
      <4>1. Replies(e \o e, r) = Replies(e, r) \cup {Len(e) + k : k \in Replies(e, r)}
        BY <3>4, RepliesConcat
      <4>2. /\ DOMAIN e = 1..Len(e) /\ Len(e) \in Nat /\ DOMAIN (e \o e) = 1..Len(e) + Len(e)
            /\ \A k \in 1..Len(e) + Len(e) : (e \o e)[k] = IF k <= Len(e) THEN e[k] ELSE e[k - Len(e)]
        BY <3>4, ConcatProperties, LenProperties
      <4> QED BY <3>5, <4>1, <4>2
    <3>9. \A r \in Rpc : /\ Replies(g, r) = {}
                         /\ id # r => \A k \in DOMAIN g : g[k].muxid # r
      BY <3>2, <3>4, <3>5, <3>6, <3>8 DEF e, f
    <3>10. ASSUME NEW r \in Rpc PROVE replied'[r] = replied[r] + Cardinality(Replies(g, r))
      <4>1. Replies(g, r) = {}
        BY <3>9
      <4>2. Cardinality(Replies(g, r)) = 0
        BY <2>5, <4>1
      <4> QED BY <2>5, <3>1, <4>2
    <3>11. \A r \in Rpc : \/ \A k \in DOMAIN g : g[k].muxid # r
                          \/ i \in Sent(r) /\ Replies(g, r) = {}
      BY <2>4, <3>1, <3>9
    <3> QED BY <1>2, <3>2, <3>7, <3>10, <3>11, OnlineSends
  <2> QED BY <2>6, <2>7, <2>8
<1> QED BY <1>1, <1>2


-----------------------------------------------------------------------------
(* What the page receives keeps replies whole *)

LEMMA NoFrameNoCallback ==
    ASSUME NEW F \in Seq(SentPiece), NEW r \in Rpc, \A k \in DOMAIN F : F[k].muxid # r
    PROVE  Callbacks(F, r) = <<>>
<1>1. Heard(F, r) = {}
  BY DEF Heard, Mine
<1>2. Cardinality(Heard(F, r)) = 0
  BY <1>1, FS_EmptySet
<1>3. Callbacks(F, r) = [k \in 1..0 |-> F[Nth(Heard(F, r), k)].op]
  BY <1>2 DEF Callbacks
<1>4. Callbacks(F, r) \in Seq(Final \cup {"reply"})
  BY CallbacksOf
<1> DEFINE c == Callbacks(F, r)
<1>5. c \in Seq(Final \cup {"reply"}) /\ DOMAIN c = {}
  <2>1. 1..0 = {}
    OBVIOUS
  <2> QED BY <1>3, <1>4, <2>1
<1> HIDE DEF c
<1>6. Len(c) = 0
  BY <1>5, LenProperties
<1>7. c = <<>>
  BY <1>5, <1>6, EmptySeq
<1> QED BY <1>7 DEF c

LEMMA NotInConcat ==
    ASSUME NEW F \in Seq(SentPiece), NEW H \in Seq(SentPiece), NEW r,
           \A k \in DOMAIN (F \o H) : (F \o H)[k].muxid # r
    PROVE  (\A k \in DOMAIN F : F[k].muxid # r) /\ (\A k \in DOMAIN H : H[k].muxid # r)
<1> DEFINE G == F \o H
<1>1. /\ Len(F) \in Nat /\ Len(H) \in Nat /\ DOMAIN F = 1..Len(F) /\ DOMAIN H = 1..Len(H)
      /\ DOMAIN G = 1..Len(F) + Len(H)
      /\ \A i \in 1..Len(F) : G[i] = F[i]
      /\ \A i \in 1..Len(H) : G[Len(F) + i] = H[i]
  BY Concat
<1>2. \A k \in DOMAIN G : G[k].muxid # r
  OBVIOUS
<1> HIDE DEF G
<1>3. \A k \in 1..Len(F) : k \in DOMAIN G
  BY <1>1
<1>4. \A k \in 1..Len(H) : Len(F) + k \in DOMAIN G
  BY <1>1
<1>5. \A k \in 1..Len(F) : F[k].muxid # r
  BY <1>1, <1>2, <1>3
<1>6. \A k \in 1..Len(H) : H[k].muxid # r
  BY <1>1, <1>2, <1>4
<1> QED BY <1>1, <1>5, <1>6

\* An RPC in the queue is in it once, so that running the queue sends it once.
LEMMA QueuedOnce ==
    ASSUME TypeInv, WholeInv, ~ dropped, NEW r \in Rpc,
           up'[1] = up[1] \/ up'[1] = up[1] \o Queued
    PROVE  /\ InQueue(r) => \A i, j \in Sent(r)' : i = j
           /\ ~ InQueue(r) => Sent(r)' = Sent(r)
<1>1. /\ Queued \in Seq(SentMessage) /\ up[1] \in Seq(SentMessage) /\ DOMAIN Queued = DOMAIN queue
      /\ \A i \in DOMAIN queue : Queued[i].op = "rpc" /\ Queued[i].muxid = queue[i]
  BY QueuedMessages, Constants DEF TypeInv, SocketTypes, PageTypes, Queued
<1>2. \A i, j \in DOMAIN queue : queue[i] = queue[j] => i = j
  BY DEF WholeInv, OthersInv
<1>3. ASSUME InQueue(r), NEW i \in Sent(r)', NEW j \in Sent(r)' PROVE i = j
  <2>1. Sent(r) = {}
    BY <1>3 DEF WholeInv
  <2>2. CASE up'[1] = up[1]
    BY <1>3, <2>1, <2>2 DEF Sent
  <2>3. CASE up'[1] = up[1] \o Queued
    <3> DEFINE M == {k \in DOMAIN Queued : Queued[k].op = "rpc" /\ Queued[k].muxid = r}
    <3>1. Sent(r)' = Sent(r) \cup {Len(up[1]) + k : k \in M}
      BY <1>1, <2>3, SentConcat
    <3>2. \A a, b \in M : a = b
      BY <1>1, <1>2
    <3> HIDE DEF M
    <3>3. PICK a \in M : i = Len(up[1]) + a
      BY <1>3, <2>1, <3>1
    <3>4. PICK b \in M : j = Len(up[1]) + b
      BY <1>3, <2>1, <3>1
    <3> QED BY <3>2, <3>3, <3>4
  <2> QED BY <2>2, <2>3
<1>4. ASSUME ~ InQueue(r) PROVE Sent(r)' = Sent(r)
  <2>1. \A i \in DOMAIN Queued : ~ (Queued[i].op = "rpc" /\ Queued[i].muxid = r)
    BY <1>1, <1>4 DEF InQueue
  <2> QED BY <1>1, <2>1, SentIsKept
<1> QED BY <1>3, <1>4


\* What running the queue leaves of a websocket that is open
LEMMA DispatchSends ==
    ASSUME TypeInv, AuthInv, ~ dropped, ready[1] = "open",
           NEW all \in Seq(SentPiece), Aligned(all), Dispatch(1, all)
    PROVE  /\ ready' = ready /\ \A w \in Socket \ {1} : up'[w] = up[w]
           /\ up'[1] = up[1] \/ (up'[1] = up[1] \o Queued)
           /\ queue' = <<>> \/ (queue' = queue /\ up' = up)
<1> DEFINE F == WholeFrames(all)
<1>1. ws = 1 /\ IsOpen
  BY Constants DEF AuthInv, Online, IsOpen, None
<1>2. CASE \E i \in DOMAIN F : F[i].op = "authinit" /\ F[i].muxid \in muxMap
  <2>1. queue' = <<>>
    BY <1>2 DEF Dispatch
  <2>2. CASE queue = <<>>
    <3>1. up' = up /\ ready' = ready
      BY <1>2, <2>2 DEF Dispatch
    <3> QED BY <2>1, <3>1
  <2>3. CASE queue # <<>>
    <3>1. SendMessages(Queued, (muxMap \ Finished(F)) \cup ToSet(queue))
      BY <1>2, <2>3 DEF Dispatch, Queued
    <3>2. up' = [up EXCEPT ![1] = @ \o Queued] /\ ready' = ready
      BY <1>1, <3>1 DEF SendMessages
    <3> QED BY <2>1, <3>2, Constants DEF TypeInv, SocketTypes
  <2> QED BY <2>2, <2>3
<1>3. CASE ~ \E i \in DOMAIN F : F[i].op = "authinit" /\ F[i].muxid \in muxMap
  BY <1>3 DEF Dispatch
<1> QED BY <1>2, <1>3

\* The frames F of a message are dealt with: of every RPC what is in H is still to come.
LEMMA DispatchRelays ==
    ASSUME TypeInv, EndInv, WholeInv, ~ dropped, NEW r \in Rpc,
           NEW F \in Seq(SentPiece), NEW H \in Seq(SentPiece), Relayed(r, F \o H),
           UNCHANGED <<served, replied, lastRpc>>,
           told'[r] = told[r] \o Callbacks(F, r),
           r \in muxMap' => r \in muxMap \ Finished(F) \/ InQueue(r),
           up'[1] = up[1] \/ up'[1] = up[1] \o Queued,
           queue' = <<>> \/ (queue' = queue /\ up' = up)
    PROVE  /\ Relayed(r, H)' /\ Whole(r)'
           /\ InQueue(r)' \/ r > lastRpc' => Sent(r)' = {}
<1> DEFINE G == F \o H
           c == Callbacks(F, r)
           T == Final \cup {"reply"}
<1>1. told[r] \in Seq(T) /\ c \in Seq(T) /\ (r \notin muxMap => c = <<>>)
  BY CallbacksOf DEF TypeInv, PageTypes
<1>2. /\ Endings(G, r) = Endings(F, r) \cup {Len(F) + i : i \in Endings(H, r)}
      /\ InOrder(G, r) => InOrder(H, r)
  BY RepliesConcat, OrderOfConcat
<1>3. /\ (InQueue(r) => \A i, j \in Sent(r)' : i = j)
      /\ (~ InQueue(r) => Sent(r)' = Sent(r))
  BY QueuedOnce
<1>4. InQueue(r)' => InQueue(r) /\ Sent(r)' = Sent(r)
  <2>1. DOMAIN <<>> = {}
    OBVIOUS
  <2> QED BY <2>1 DEF InQueue, Sent
<1>5. /\ InQueue(r) \/ r > lastRpc => Sent(r) = {}
      /\ InQueue(r) => r \notin muxMap /\ ~ r > lastRpc
  BY DEF WholeInv, EndInv, Unended, TypeInv, PageTypes, Rpc
<1>6. Sent(r) = {} => /\ told'[r] = <<>> /\ replied[r] = 0 /\ c = <<>>
                      /\ \A k \in DOMAIN H : H[k].muxid # r
  <2> SUFFICES ASSUME Sent(r) = {}
               PROVE  /\ told'[r] = <<>> /\ replied[r] = 0 /\ c = <<>>
                      /\ \A k \in DOMAIN H : H[k].muxid # r
    OBVIOUS
  <2>1. replied[r] = 0 /\ told[r] = <<>> /\ \A k \in DOMAIN G : G[k].muxid # r
    BY DEF Relayed
  <2>2. (\A k \in DOMAIN F : F[k].muxid # r) /\ (\A k \in DOMAIN H : H[k].muxid # r)
    BY <2>1, NotInConcat
  <2>3. c = <<>>
    BY <2>2, NoFrameNoCallback
  <2>4. told'[r] = <<>>
    BY <1>1, <2>1, <2>3, ConcatEmptySeq
  <2> QED BY <2>1, <2>2, <2>3, <2>4
<1>7. r \in muxMap => /\ r \notin Finished(F) => Len(told'[r]) + Cardinality(Replies(H, r)) = replied[r]
                      /\ Completed(told'[r]) => /\ Cardinality(Heards(told'[r])) = replied[r]
                                                /\ Endings(G, r) # {}
  BY DispatchCounts
<1>8. r \notin muxMap => told'[r] = told[r]
  BY <1>1, ConcatEmptySeq
<1>9. Relayed(r, G) /\ Whole(r)
  BY DEF WholeInv
<1>10. Completed(told'[r]) \/ Endings(H, r) # {} => Sent(r) \subseteq served[1]
  <2>1. Endings(H, r) # {} => Endings(G, r) # {}
    BY <1>2
  <2>2. Endings(G, r) # {} \/ Completed(told[r]) => Sent(r) \subseteq served[1]
    BY <1>9 DEF Relayed
  <2> HIDE DEF G
  <2> QED BY <1>7, <1>8, <2>1, <2>2
<1>11. Whole(r)'
  <2>1. CASE r \in muxMap
    BY <1>7, <2>1 DEF Whole
  <2>2. CASE r \notin muxMap
    <3>1. told'[r] = told[r] /\ replied'[r] = replied[r]
      BY <1>8, <2>2
    <3> QED BY <1>9, <3>1 DEF Whole
  <2> QED BY <2>1, <2>2
<1>12. InQueue(r)' \/ r > lastRpc' => Sent(r)' = {}
  <2>1. InQueue(r)' => Sent(r)' = {}
    BY <1>4, <1>5
  <2>2. r > lastRpc' => Sent(r)' = {}
    BY <1>3, <1>5
  <2> QED BY <2>1, <2>2
<1>13. InOrder(H, r)
  BY <1>2, <1>9 DEF Relayed
<1>14. Sent(r) = {} => /\ Len(told'[r]) + Cardinality(Replies(H, r)) = replied[r]
                       /\ ~ Completed(told'[r]) /\ Endings(H, r) = {}
  <2> SUFFICES ASSUME Sent(r) = {}
               PROVE  /\ Len(told'[r]) + Cardinality(Replies(H, r)) = replied[r]
                      /\ ~ Completed(told'[r]) /\ Endings(H, r) = {}
    OBVIOUS
  <2>1. told'[r] = <<>> /\ replied[r] = 0 /\ \A k \in DOMAIN H : H[k].muxid # r
    BY <1>6
  <2>2. Replies(H, r) = {} /\ Endings(H, r) = {}
    BY <2>1 DEF Replies, Endings
  <2>3. Cardinality(Replies(H, r)) = 0
    BY <2>2, FS_EmptySet
  <2>4. Len(<<>>) = 0 /\ DOMAIN <<>> = {}
    OBVIOUS
  <2>5. ~ Completed(told'[r])
    BY <2>1, <2>4 DEF Completed
  <2> QED BY <2>1, <2>2, <2>3, <2>4, <2>5
<1> HIDE DEF G, c
<1>15. /\ Sent(r)' = {} => replied'[r] = 0 /\ told'[r] = <<>> /\ \A i \in DOMAIN H : H[i].muxid # r
       /\ r \in muxMap' => Len(told'[r]) + Cardinality(Replies(H, r)) = replied'[r]
       /\ Endings(H, r) # {} \/ Completed(told'[r]) => Sent(r)' \subseteq served'[1]
       /\ \A i, j \in Sent(r)' : i = j
  <2>1. CASE InQueue(r)
    <3>1. Sent(r) = {}
      BY <1>5, <2>1
    <3> QED BY <1>3, <1>6, <1>14, <2>1, <3>1
  <2>2. CASE ~ InQueue(r)
    <3>1. Sent(r)' = Sent(r) /\ (r \in muxMap' => r \in muxMap /\ r \notin Finished(F))
      BY <1>3, <2>2
    <3>2. \A i, j \in Sent(r) : i = j
      BY <1>9 DEF Relayed
    <3> QED BY <1>6, <1>7, <1>10, <3>1, <3>2
  <2> QED BY <2>1, <2>2
<1>16. Relayed(r, H)'
  BY <1>13, <1>15 DEF Relayed, Replies, Endings, InOrder, Completed
<1> QED BY <1>11, <1>12, <1>16


LEMMA DispatchWhole ==
    ASSUME TypeInv, EndInv, AuthInv, WholeInv, ~ dropped, ready[1] = "open",
           UNCHANGED <<lastRpc, dropped, served, replied>>,
           NEW all \in Seq(SentPiece), NEW rest \in Seq(SentPiece), Stream = all \o rest,
           down'[1] = rest, \A w \in Socket \ {1} : down'[w] = down[w], Dispatch(1, all)
    PROVE  WholeInv'
<1> DEFINE F == WholeFrames(all)
           v == Rest(all) \o rest
<1>1. Framed(all \o rest) /\ OthersInv
  BY DEF AuthInv, Online, WholeInv
<1>2. /\ Aligned(all) /\ WholeFrames(all \o rest) = F \o WholeFrames(v)
      /\ F \in Seq(SentPiece) /\ v \in Seq(SentPiece)
  BY <1>1, FramedRest, FramesAreCut, FramesOf, RestOf, ConcatProperties
<1>3. PICK H \in Seq(SentPiece) : H = WholeFrames(v)
  BY <1>2, FramesOf
<1>4. WholeFrames(Stream)' = H
  <2>1. data' = Rest(all)
    BY <1>2 DEF Dispatch, Rest
  <2>2. Stream' = v
    BY <2>1 DEF Stream
  <2>3. WholeFrames(Stream)' = WholeFrames(Stream')
    BY DEF WholeFrames, Aligned
  <2> QED BY <1>3, <2>2, <2>3
<1>5. /\ \A r \in Rpc : r \in muxMap' => r \in muxMap \ Finished(F) \/ InQueue(r)
      /\ \A r \in Rpc : told'[r] = told[r] \o Callbacks(F, r)
  <2>1. told' = [r \in Rpc |-> told[r] \o Callbacks(F, r)]
    BY DEF Dispatch
  <2> QED BY <2>1, DispatchEnds, Constants
<1>6. /\ ready' = ready /\ \A w \in Socket \ {1} : up'[w] = up[w]
      /\ up'[1] = up[1] \/ (up'[1] = up[1] \o Queued)
      /\ queue' = <<>> \/ (queue' = queue /\ up' = up)
  BY <1>2, DispatchSends
<1>7. OthersInv'
  <2>1. \A i, j \in DOMAIN queue' : queue'[i] = queue'[j] => i = j
    <3>1. DOMAIN <<>> = {}
      OBVIOUS
    <3> QED BY <1>1, <1>6, <3>1 DEF OthersInv
  <2>2. /\ \A w \in Socket : ready'[w] = "none" => down'[w] = <<>>
        /\ \A w \in Socket \ {1} : /\ \A i \in DOMAIN up'[w] : up'[w][i].op # "rpc"
                                   /\ \A i \in DOMAIN down'[w] : down'[w][i].op = "authinit"
    BY <1>1, <1>6 DEF OthersInv
  <2> QED BY <2>1, <2>2 DEF OthersInv
<1>8. WholeFrames(Stream) = F \o H
  BY <1>2, <1>3
<1> HIDE DEF F, v
<1>9. ASSUME NEW r \in Rpc
      PROVE  /\ Relayed(r, WholeFrames(Stream))' /\ Whole(r)'
             /\ InQueue(r)' \/ r > lastRpc' => Sent(r)' = {}
  <2>1. Relayed(r, F \o H)
    BY <1>8 DEF WholeInv
  <2>2. /\ Relayed(r, H)' /\ Whole(r)'
        /\ InQueue(r)' \/ r > lastRpc' => Sent(r)' = {}
    BY <1>2, <1>5, <1>6, <2>1, DispatchRelays
  <2>3. Relayed(r, WholeFrames(Stream))'
    <3> DEFINE Y == WholeFrames(Stream)
    <3>1. Y' = H
      BY <1>4
    <3> HIDE DEF Y
    <3>2. Relayed(r, Y)'
      BY <2>2, <3>1 DEF Relayed, Replies, Endings, InOrder
    <3> QED BY <3>2 DEF Y
  <2> QED BY <2>2, <2>3
<1> QED BY <1>7, <1>9 DEF WholeInv

\* What is left of the first websocket and what another one brings: it has the answers to
\* authinit, or does not pass for frames.
LEMMA StaleReceived ==
    ASSUME TypeInv, WholeInv, dropped, NEW w \in Socket \ {1}, NEW n \in Nat, Receives(w, n)
    PROVE  LET all == data \o SubSeq(down[w], 1, n)
           IN  (\A i \in DOMAIN all : all[i].op = "authinit") \/ ~ Aligned(all)
<1> DEFINE new == SubSeq(down[w], 1, n)
           all == data \o new
<1>1. /\ new \in Seq(SentPiece) /\ Len(new) = n /\ n \in 1..Len(down[w])
      /\ data \in Seq(SentPiece) /\ Len(data) < FrameLen /\ down[w] \in Seq(SentPiece)
  BY ReadsOn DEF TypeInv, StreamTypes, MixerTypes
<1>2. \A i \in 1..n : new[i] = down[w][i]
  BY <1>1
<1>3. StaleInv /\ OthersInv
  BY DEF WholeInv
<1>4. \A i \in 1..n : new[i].op = "authinit"
  <2>1. \A i \in 1..n : i \in DOMAIN down[w]
    BY <1>1
  <2> QED BY <1>2, <1>3, <2>1 DEF OthersInv
<1> HIDE DEF new
<1>5. /\ Len(data) \in Nat /\ DOMAIN data = 1..Len(data)
      /\ DOMAIN all = 1..Len(data) + n
      /\ \A i \in 1..Len(data) : all[i] = data[i]
      /\ \A i \in 1..n : all[Len(data) + i] = new[i]
  <2>1. data \in Seq(SentPiece) /\ new \in Seq(SentPiece) /\ Len(new) = n
    BY <1>1
  <2>2. /\ Len(data) \in Nat /\ DOMAIN data = 1..Len(data)
        /\ DOMAIN all = 1..Len(data) + Len(new)
        /\ \A i \in 1..Len(data) : all[i] = data[i]
        /\ \A i \in 1..Len(new) : all[Len(data) + i] = new[i]
    <3>1. PICK s \in Seq(SentPiece) : s = data
      BY <2>1
    <3>2. PICK t \in Seq(SentPiece) : t = new
      BY <2>1
    <3>3. /\ Len(s) \in Nat /\ DOMAIN s = 1..Len(s) /\ DOMAIN (s \o t) = 1..Len(s) + Len(t)
          /\ \A i \in 1..Len(s) : (s \o t)[i] = s[i]
          /\ \A i \in 1..Len(t) : (s \o t)[Len(s) + i] = t[i]
      BY Concat
    <3> QED BY <3>1, <3>2, <3>3
  <2> HIDE DEF all
  <2> QED BY <2>1, <2>2
<1> HIDE DEF all
<1>6. CASE \A i \in DOMAIN data : data[i].op = "authinit"
  <2> SUFFICES ASSUME NEW i \in DOMAIN all PROVE all[i].op = "authinit"
    BY DEF all, new
  <2>1. CASE i \in 1..Len(data)
    BY <1>5, <1>6, <2>1
  <2>2. CASE i \notin 1..Len(data)
    <3>1. i - Len(data) \in 1..n /\ i = Len(data) + (i - Len(data))
      BY <1>1, <1>5, <2>2
    <3>2. PICK j \in 1..n : i = Len(data) + j
      BY <3>1
    <3> QED BY <1>4, <1>5, <3>2
  <2> QED BY <2>1, <2>2
<1>7. CASE ~ Aligned(data)
  <2>1. PICK i \in 1..Len(data) : data[i].head # (i % FrameLen = 1)
    BY <1>5, <1>7 DEF Aligned
  <2>2. i \in DOMAIN all /\ all[i] = data[i]
    BY <1>1, <1>5, <2>1
  <2>3. ~ Aligned(all)
    BY <2>1, <2>2 DEF Aligned
  <2> QED BY <2>3 DEF all, new
<1>8. CASE /\ \A x \in Socket \ {1} : down[x] # <<>> => down[x][1].head
           /\ ~ \A i \in DOMAIN data : data[i].op = "authinit"
  <2>1. Len(data) # 0
    BY <1>5, <1>8
  <2>2. 1 \in 1..n /\ down[w] # <<>>
    <3>1. Len(<<>>) = 0
      OBVIOUS
    <3> QED BY <1>1, <3>1
  <2>3. new[1].head
    BY <1>2, <1>8, <2>2
  <2>4. Len(data) + 1 \in DOMAIN all /\ all[Len(data) + 1].head
    BY <1>1, <1>5, <2>2, <2>3
  <2>5. (Len(data) + 1) % FrameLen # 1
    <3>1. FrameLen \in Nat \ {0, 1}
      BY Constants
    <3>2. CASE Len(data) + 1 = FrameLen
      <4>1. (FrameLen * 1 + 0) % FrameLen = 0
        BY <3>1, DivisionUnique
      <4>2. FrameLen * 1 + 0 = FrameLen
        BY <3>1
      <4> QED BY <3>2, <4>1, <4>2
    <3>3. CASE Len(data) + 1 # FrameLen
      <4>1. Len(data) + 1 \in 0..(FrameLen - 1)
        BY <1>1, <1>5, <3>1, <3>3
      <4>2. (Len(data) + 1) % FrameLen = Len(data) + 1
        BY <3>1, <4>1, ModSmall
      <4> QED BY <1>5, <2>1, <4>2
    <3> QED BY <3>2, <3>3
  <2>6. ~ Aligned(all)
    BY <2>4, <2>5 DEF Aligned
  <2> QED BY <2>6 DEF all, new
<1> QED BY <1>3, <1>6, <1>7, <1>8 DEF StaleInv


LEMMA OfflineReceives ==
    ASSUME TypeInv, AuthInv, WholeInv, dropped, NEW w \in Socket, NEW n \in Nat, Receives(w, n)
    PROVE  WholeInv'
<1> DEFINE all == data \o SubSeq(down[w], 1, n)
           F   == WholeFrames(all)
<1>1. ready[w] = "open" /\ UNCHANGED <<dropped, replied>> /\ StaleInv /\ OthersInv
  BY DEF Receives, WholeInv
<1>2. w # 1
  BY <1>1 DEF StaleInv
<1>3. /\ all \in Seq(SentPiece) /\ n \in 1..Len(down[w])
      /\ down' = [down EXCEPT ![w] = SubSeq(@, n + 1, Len(@))]
      /\ SubSeq(down[w], n + 1, Len(down[w])) \in Seq(SentPiece)
      /\ (reading > n => data' = all /\ UNCHANGED <<muxer, told, lastSocket, ready, up>>)
      /\ (~ reading > n => Dispatch(w, all))
  BY ReadsOn
<1>4. (\A i \in DOMAIN all : all[i].op = "authinit") \/ ~ Aligned(all)
  BY <1>2, StaleReceived
<1>5. queue = <<>>
  <2> SUFFICES ASSUME queue # <<>> PROVE FALSE
    OBVIOUS
  <2>1. lastSocket = 1 /\ SocketsInv
    BY DEF AuthInv, Offline
  <2> QED BY <1>1, <1>2, <2>1 DEF SocketsInv, Socket
<1> HIDE DEF all
<1>6. F \in Seq(SentPiece) /\ \A k \in DOMAIN F : F[k].op = "authinit"
  <2>1. F \in Seq(SentPiece) /\ DOMAIN F = 1..Len(F) /\ DOMAIN all = 1..Len(all)
    BY <1>3, FramesOf, LenProperties
  <2>2. /\ Len(F) = IF Aligned(all) THEN Len(all) \div FrameLen ELSE 0
        /\ \A k \in 1..Len(F) : /\ FrameLen * (k - 1) + 1 \in 1..Len(all)
                                /\ F[k] = all[FrameLen * (k - 1) + 1]
    BY <1>3, FramesOf
  <2> HIDE DEF F
  <2>3. CASE Aligned(all)
    BY <1>4, <2>1, <2>2, <2>3
  <2>4. CASE ~ Aligned(all)
    BY <2>1, <2>2, <2>4
  <2> QED BY <2>1, <2>3, <2>4
<1>7. ~ Aligned(all) => Rest(all) = <<>>
  BY DEF Rest
<1>8. \A i \in DOMAIN Rest(all) : Rest(all)[i].op = "authinit"
  <2>1. CASE ~ Aligned(all)
    <3>1. DOMAIN <<>> = {}
      OBVIOUS
    <3> QED BY <1>7, <2>1, <3>1
  <2>2. CASE Aligned(all)
    <3>1. PICK k \in 0..Len(all) : /\ Len(Rest(all)) = Len(all) - k
                                   /\ \A i \in 1..Len(Rest(all)) : Rest(all)[i] = all[k + i]
      BY <1>3, <2>2, RestOf
    <3>2. /\ DOMAIN Rest(all) = 1..Len(Rest(all)) /\ Len(all) \in Nat /\ DOMAIN all = 1..Len(all)
      BY <1>3, RestOf, LenProperties
    <3>3. \A i \in 1..Len(Rest(all)) : k + i \in DOMAIN all
      BY <3>1, <3>2
    <3> QED BY <1>4, <2>2, <3>1, <3>2, <3>3
  <2> QED BY <2>1, <2>2
<1>9. /\ queue' = <<>> /\ up' = up
      /\ ready' = ready \/ ready' = [ready EXCEPT ![ws] = "closing"]
      /\ data' = all \/ data' = Rest(all)
      /\ told' = told \/ told' = [r \in Rpc |-> told[r] \o Callbacks(F, r)]
  <2>1. CASE reading > n
    BY <1>3, <1>5, <2>1 DEF muxer
  <2>2. CASE ~ reading > n
    BY <1>3, <1>5, <2>2 DEF Dispatch, Rest
  <2> QED BY <2>1, <2>2
<1>10. \A r \in Rpc : told'[r] = told[r]
  <2> SUFFICES ASSUME NEW r \in Rpc PROVE told'[r] = told[r]
    OBVIOUS
  <2>1. \A k \in DOMAIN F : F[k] \in SentPiece
    BY <1>6, LenProperties, ElementOfSeq
  <2> HIDE DEF F
  <2>2. \A k \in DOMAIN F : F[k].muxid # r
    BY <1>6, <2>1 DEF SentPiece
  <2>3. Callbacks(F, r) = <<>>
    BY <1>6, <2>2, NoFrameNoCallback
  <2>4. told[r] \o <<>> = told[r]
    BY ConcatEmptySeq DEF TypeInv, PageTypes
  <2> QED BY <1>9, <2>3, <2>4
<1> HIDE DEF F
<1>11. \A x \in Socket : ready'[x] = ready[x] \/ (ready'[x] = "closing" /\ x = ws)
  BY <1>9 DEF TypeInv, SocketTypes
<1>12. \A x \in Socket : down'[x] = IF x = w THEN SubSeq(down[w], n + 1, Len(down[w])) ELSE down[x]
  BY <1>3 DEF TypeInv, MixerTypes
<1>13. OthersInv'
  <2>1. \A i \in DOMAIN down'[w] : down'[w][i].op = "authinit"
    <3> DEFINE rest == SubSeq(down[w], n + 1, Len(down[w]))
    <3>1. down[w] \in Seq(SentPiece) /\ Len(down[w]) \in Nat /\ DOMAIN down[w] = 1..Len(down[w])
      BY LenProperties DEF TypeInv, MixerTypes
    <3>2. Len(rest) = Len(down[w]) - n /\ \A i \in 1..Len(rest) : rest[i] = down[w][n + i]
      BY <1>3, <3>1
    <3>3. DOMAIN rest = 1..Len(rest) /\ rest = down'[w]
      BY <1>3, <1>12, LenProperties
    <3> HIDE DEF rest
    <3>4. \A i \in 1..Len(rest) : n + i \in DOMAIN down[w]
      BY <1>3, <3>1, <3>2
    <3>5. \A i \in DOMAIN down[w] : down[w][i].op = "authinit"
      BY <1>1, <1>2 DEF OthersInv
    <3>6. ASSUME NEW i \in 1..Len(rest) PROVE rest[i].op = "authinit"
      <4>1. n + i \in DOMAIN down[w] /\ rest[i] = down[w][n + i]
        BY <3>2, <3>4
      <4> QED BY <3>5, <4>1
    <3> QED BY <3>3, <3>6
  <2>2. \A x \in Socket \ {1} : \A i \in DOMAIN down'[x] : down'[x][i].op = "authinit"
    <3> TAKE x \in Socket \ {1}
    <3>1. CASE x = w
      BY <2>1, <3>1
    <3>2. CASE x # w
      <4>1. down'[x] = down[x] /\ \A i \in DOMAIN down[x] : down[x][i].op = "authinit"
        BY <1>1, <1>12, <3>2 DEF OthersInv
      <4> QED BY <4>1
    <3> QED BY <3>1, <3>2
  <2>3. \A x \in Socket \ {1} : \A i \in DOMAIN up'[x] : up'[x][i].op # "rpc"
    BY <1>1, <1>9 DEF OthersInv
  <2>4. \A x \in Socket : ready'[x] = "none" => down'[x] = <<>>
    BY <1>1, <1>11, <1>12 DEF OthersInv
  <2>5. \A i, j \in DOMAIN queue' : queue'[i] = queue'[j] => i = j
    <3>1. DOMAIN <<>> = {}
      OBVIOUS
    <3> QED BY <1>9, <3>1
  <2> QED BY <2>2, <2>3, <2>4, <2>5 DEF OthersInv
<1>14. StaleInv'
  <2>1. ready'[1] \in {"closing", "closed"}
    BY <1>1, <1>11, Constants DEF StaleInv
  <2>2. (\A i \in DOMAIN data' : data'[i].op = "authinit") \/ ~ Aligned(data')
    BY <1>4, <1>8, <1>9
  <2>3. ~ Aligned(data') <=> (~ Aligned(data))'
    BY DEF Aligned
  <2> QED BY <2>1, <2>2, <2>3 DEF StaleInv
<1>15. \A r \in Rpc : Whole(r)'
  BY <1>1, <1>10 DEF WholeInv, Whole
<1> QED BY <1>1, <1>13, <1>14, <1>15 DEF WholeInv

LEMMA ReceiveWhole ==
    ASSUME TypeInv, EndInv, AuthInv, WholeInv, NEW w \in Socket, NEW n \in Nat, Receives(w, n)
    PROVE  WholeInv'
<1> DEFINE all  == data \o SubSeq(down[w], 1, n)
           rest == SubSeq(down[w], n + 1, Len(down[w]))
<1>1. CASE dropped
  BY <1>1, OfflineReceives
<1>2. CASE ~ dropped
  <2>1. ready[w] = "open" /\ UNCHANGED <<lastRpc, dropped, served, replied>>
    BY DEF Receives
  <2>2. w = 1
    <3>1. Online /\ SocketsInv
      BY <1>2 DEF AuthInv
    <3> QED BY <2>1, <3>1 DEF Online, SocketsInv, Socket
  <2>3. /\ all \in Seq(SentPiece) /\ rest \in Seq(SentPiece)
        /\ down' = [down EXCEPT ![w] = SubSeq(@, n + 1, Len(@))]
        /\ (reading > n => data' = all /\ UNCHANGED <<muxer, told, lastSocket, ready, up>>)
        /\ (~ reading > n => Dispatch(w, all))
    BY ReadsOn
  <2>4. Stream = all \o rest /\ down'[1] = rest
    BY <2>2, StreamIsCut
  <2>5. \A x \in Socket \ {1} : down'[x] = down[x]
    BY <2>2, <2>3 DEF TypeInv, MixerTypes
  <2> HIDE DEF all, rest
  <2>6. CASE ~ reading > n
    <3>1. ready[1] = "open" /\ Dispatch(1, all)
      BY <2>1, <2>2, <2>3, <2>6
    <3> QED BY <1>2, <2>1, <2>3, <2>4, <2>5, <3>1, DispatchWhole
  <2>7. CASE reading > n
    <3>1. UNCHANGED <<muxMap, queue, told, ready, up>> /\ Stream' = Stream
      BY <2>3, <2>4, <2>7 DEF muxer, Stream
    <3>2. WholeFrames(Stream)' = WholeFrames(Stream)
      <4>1. WholeFrames(Stream)' = WholeFrames(Stream')
        BY DEF WholeFrames, Aligned
      <4> QED BY <3>1, <4>1
    <3>3. OthersInv'
      <4>1. \A x \in Socket : ready'[x] = "none" => down'[x] = <<>>
        BY <2>1, <2>2, <2>5, <3>1 DEF WholeInv, OthersInv
      <4> QED BY <2>5, <3>1, <4>1 DEF WholeInv, OthersInv
    <3>4. ASSUME NEW r \in Rpc
          PROVE  /\ Relayed(r, WholeFrames(Stream))' /\ Whole(r)'
                 /\ InQueue(r)' \/ r > lastRpc' => Sent(r)' = {}
      <4> DEFINE Y == WholeFrames(Stream)
      <4>1. Relayed(r, Y) /\ Whole(r) /\ (InQueue(r) \/ r > lastRpc => Sent(r) = {}) /\ Y' = Y
        BY <1>2, <3>2 DEF WholeInv
      <4> HIDE DEF Y
      <4>2. Relayed(r, Y)'
        BY <2>1, <3>1, <4>1 DEF Relayed, Replies, Endings, InOrder, Completed, Sent
      <4>3. Whole(r)' /\ (InQueue(r)' \/ r > lastRpc' => Sent(r)' = {})
        BY <2>1, <3>1, <4>1 DEF Whole, InQueue, Sent
      <4> QED BY <4>2, <4>3 DEF Y
    <3> QED BY <1>2, <2>1, <3>3, <3>4 DEF WholeInv
  <2> QED BY <2>6, <2>7
<1> QED BY <1>1, <1>2

LEMMA WholeStep == TypeInv /\ EndInv /\ AuthInv /\ WholeInv /\ [Next]_vars => WholeInv'
<1> SUFFICES ASSUME TypeInv, EndInv, AuthInv, WholeInv, [Next]_vars PROVE WholeInv'
  OBVIOUS
<1>1. ASSUME NEW w \in Socket, SocketCloses(w) \/ ConnectionLost(w) PROVE WholeInv'
  BY <1>1, CloseWhole DEF SocketCloses, ConnectionLost
<1>2. ASSUME NEW w \in Socket, SocketReceives(w) PROVE WholeInv'
  <2>1. PICK n \in 1..MaxPiece : Receives(w, n)
    BY <1>2 DEF SocketReceives
  <2>2. n \in Nat
    OBVIOUS
  <2> QED BY <2>1, <2>2, ReceiveWhole
<1>3. CASE UNCHANGED vars
  <2>1. UNCHANGED <<queue, muxMap, data, lastRpc, dropped, told, ready, up, served, down, replied>>
    BY <1>3 DEF vars, muxer, stream, page, mixer
  <2>2. UNCHANGED <<told, replied, data, down, served, dropped>>
    BY <2>1
  <2>3. OthersInv'
    BY <2>1, OthersStay
  <2>4. dropped => ready'[1] \in {"closing", "closed"}
    BY <2>1 DEF WholeInv, StaleInv
  <2>5. \A r \in Rpc : /\ Sent(r)' = Sent(r) /\ (r \in muxMap' => r \in muxMap)
                       /\ (InQueue(r)' \/ r > lastRpc') => (InQueue(r) \/ r > lastRpc)
    BY <2>1 DEF Sent, InQueue
  <2> QED BY <2>2, <2>3, <2>4, <2>5, SendsWhole
<1> QED BY <1>1, <1>2, <1>3, AskWhole, DataWhole, PageClosesWhole, OpenWhole, MixerWhole DEF Next

LEMMA WholeInvIsWhole == WholeInv => WholeReplies
<1> SUFFICES ASSUME WholeInv, NEW r \in Rpc, Contains(told[r], "complete")
             PROVE  Cardinality({i \in DOMAIN told[r] : told[r][i] = "reply"}) = replied[r]
  BY DEF WholeReplies
<1>1. Completed(told[r])
  BY DEF Contains, Completed
<1> QED BY <1>1 DEF WholeInv, Whole, Heards

\* By the callback of "complete" an RPC has had every reply that the mixer sent for it:
\* WholeReplies, however websocket messages cut the frames, whatever is left of a frame when
\* the connection is lost, and whichever websocket a later message comes from (onmessage of
\* muxerOpen puts what it is given behind the rest of what came before).
THEOREM RepliesAreWhole == Spec => []WholeReplies
<1>1. Init => TypeInv /\ EndInv /\ AuthInv /\ WholeInv
  BY InitTypes, InitEnds, InitAuth, InitWhole
<1>2. TypeInv /\ EndInv /\ AuthInv /\ WholeInv /\ [Next]_vars
         => TypeInv' /\ EndInv' /\ AuthInv' /\ WholeInv'
  <2> SUFFICES ASSUME TypeInv, EndInv, AuthInv, WholeInv, [Next]_vars
               PROVE  TypeInv' /\ EndInv' /\ AuthInv' /\ WholeInv'
    OBVIOUS
  <2>1. TypeInv'
    BY TypeStep
  <2>2. EndInv'
    BY <2>1, EndsStep
  <2> QED BY <2>1, <2>2, AuthStep, WholeStep
<1>3. WholeInv => WholeReplies
  BY WholeInvIsWhole
<1> QED BY <1>1, <1>2, <1>3, PTL DEF Spec

=============================================================================
