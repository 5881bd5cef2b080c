---------------------------- MODULE ParserSafety ----------------------------
(***************************************************************************)
(* Theorems about the command parser, for every set of commands and every  *)
(* input: what is found, what is kept and what is run.  The first part is  *)
(* about the folds over sequences that the page is built from.             *)
(***************************************************************************)
EXTENDS WebPage, SequenceTheorems, FiniteSetTheorems, WellFoundedInduction, TLAPS

-----------------------------------------------------------------------------
(* Induction, and the functions that recursion defines *)

LEMMA LeastOf ==
    ASSUME NEW T \in SUBSET Nat, T # {}
    PROVE  \E x \in T : \A y \in T : x <= y
<1>1. PICK x \in T : \A y \in T : ~ (<<y, x>> \in OpToRel(<, Nat))
  BY NatLessThanWellFounded, WFMin
<1>2. \A y \in T : ~ y < x
  <2> TAKE y \in T
  <2>1. y < x => <<y, x>> \in OpToRel(<, Nat)
    BY DEF OpToRel
  <2> QED BY <1>1, <2>1
<1> QED BY <1>2

\* Induction up to n, of a set: a least number outside of it has none before it.
LEMMA UpTo ==
    ASSUME NEW n \in Nat, NEW T, 0 \in T, \A k \in 1..n : k - 1 \in T => k \in T
    PROVE  \A k \in 0..n : k \in T
<1> SUFFICES ASSUME (0..n) \ T # {} PROVE FALSE
  OBVIOUS
<1>1. PICK k \in (0..n) \ T : \A y \in (0..n) \ T : k <= y
  <2> DEFINE U == (0..n) \ T
  <2>1. U \in SUBSET Nat /\ U # {}
    OBVIOUS
  <2> HIDE DEF U
  <2>2. \E x \in U : \A y \in U : x <= y
    BY <2>1, LeastOf
  <2> QED BY <2>2 DEF U
<1>2. k # 0 /\ k \in 1..n /\ k - 1 \in 0..n
  BY <1>1
<1>3. k - 1 \in T
  BY <1>1, <1>2
<1> QED BY <1>1, <1>2, <1>3

LEMMA MaxOf ==
    ASSUME NEW n \in Nat, NEW u \in SUBSET (1..n), u # {}
    PROVE  Max(u) \in u /\ \A y \in u : y <= Max(u)
<1> DEFINE T == {n - y : y \in u}
<1>1. T \in SUBSET Nat /\ T # {}
  <2>1. \A y \in u : n - y \in Nat
    OBVIOUS
  <2> QED BY <2>1
<1>2. PICK x \in T : \A y \in T : x <= y
  BY <1>1, LeastOf
<1>3. \E m \in u : \A y \in u : m >= y
  <2>1. PICK m \in u : x = n - m
    BY <1>2
  <2>2. ASSUME NEW y \in u PROVE m >= y
    <3>1. x <= n - y
      BY <1>2
    <3> QED BY <2>1, <3>1
  <2> QED BY <2>2
<1> HIDE DEF T
<1>4. Max(u) \in u /\ \A y \in u : Max(u) >= y
  BY <1>3 DEF Max
<1> QED BY <1>4

\* The recursion of FoldLeft, as MapThenFoldSet states it, is well defined: G[k][t] is what the
\* k-th element makes of t.
Iterates(g, n, base, G) ==
    \A u \in SUBSET (1..n) : g[u] = IF u = {} THEN base ELSE G[Max(u)][g[u \ {Max(u)}]]

LEMMA IterExists ==
    ASSUME NEW n \in Nat, NEW Typ, NEW base \in Typ, NEW G \in [1..n -> [Typ -> Typ]]
    PROVE  \E g \in [SUBSET (1..n) -> Typ] : Iterates(g, n, base, G)
<1> DEFINE Holds(k, g) == /\ g \in [SUBSET (1..k) -> Typ]
                          /\ \A u \in SUBSET (1..k) :
                                g[u] = IF u = {} THEN base ELSE G[Max(u)][g[u \ {Max(u)}]]
           T == {k \in 0..n : \E g : Holds(k, g)}
<1>1. 0 \in T
  <2> DEFINE g == [u \in SUBSET (1..0) |-> base]
  <2>1. SUBSET (1..0) = {{}}
    OBVIOUS
  <2>2. g \in [SUBSET (1..0) -> Typ] /\ \A u \in SUBSET (1..0) : u = {} /\ g[u] = base
    BY <2>1
  <2> HIDE DEF g
  <2>3. Holds(0, g)
    BY <2>2
  <2> HIDE DEF Holds
  <2>4. 0 \in 0..n
    OBVIOUS
  <2> QED BY <2>3, <2>4
<1>2. ASSUME NEW k \in 1..n, k - 1 \in T PROVE k \in T
  <2>1. PICK g : Holds(k - 1, g)
    BY <1>2
  <2> DEFINE h == [u \in SUBSET (1..k) |-> IF k \in u THEN G[k][g[u \ {k}]] ELSE g[u]]
  <2>2. ASSUME NEW u \in SUBSET (1..k), k \in u
        PROVE  Max(u) = k /\ u \ {k} \in SUBSET (1..(k - 1))
    <3>1. Max(u) \in u /\ \A y \in u : y <= Max(u)
      BY <2>2, MaxOf
    <3>2. Max(u) = k
      <4>1. Max(u) \in 1..k /\ k <= Max(u)
        BY <2>2, <3>1
      <4> QED BY <4>1
    <3>3. \A y \in u \ {k} : y \in 1..(k - 1)
      OBVIOUS
    <3> QED BY <3>2, <3>3
  <2>3. ASSUME NEW u \in SUBSET (1..k), k \notin u
        PROVE  u \in SUBSET (1..(k - 1))
    BY <2>3
  <2>4. ASSUME NEW u \in SUBSET (1..k), u # {}, k \notin u
        PROVE  Max(u) \in 1..n /\ u \ {Max(u)} \in SUBSET (1..(k - 1))
    <3>1. k \in Nat /\ u \in SUBSET (1..(k - 1))
      BY <2>3, <2>4
    <3>2. Max(u) \in u /\ \A y \in u : y <= Max(u)
      BY <2>4, <3>1, MaxOf
    <3>3. Max(u) \in 1..(k - 1)
      BY <3>1, <3>2
    <3>4. \A y \in u \ {Max(u)} : y \in 1..(k - 1)
      BY <3>1
    <3>5. u \ {Max(u)} \in SUBSET (1..(k - 1))
      BY <3>4
    <3>6. Max(u) \in 1..n
      BY <3>3
    <3> QED BY <3>5, <3>6
  <2>5. ASSUME NEW u \in SUBSET (1..(k - 1)) PROVE g[u] \in Typ /\ u \in SUBSET (1..k) /\ k \notin u
    BY <2>1
  <2>6. ASSUME NEW u \in SUBSET (1..k)
        PROVE  h[u] \in Typ /\ h[u] = IF u = {} THEN base ELSE G[Max(u)][h[u \ {Max(u)}]]
    <3>1. CASE k \in u
      <4>1. h[u] = G[k][g[u \ {k}]] /\ h[u \ {k}] = g[u \ {k}]
        BY <2>2, <2>5, <3>1
      <4>2. h[u] \in Typ
        BY <2>2, <2>5, <3>1, <4>1
      <4> QED BY <2>2, <3>1, <4>1, <4>2
    <3>2. CASE k \notin u
      <4>1. h[u] = g[u] /\ g[u] \in Typ
        BY <2>3, <2>5, <3>2
      <4>2. g[u] = IF u = {} THEN base ELSE G[Max(u)][g[u \ {Max(u)}]]
        BY <2>1, <2>3, <3>2
      <4>3. CASE u # {}
        <5>1. h[u \ {Max(u)}] = g[u \ {Max(u)}]
          BY <2>4, <2>5, <3>2, <4>3
        <5> QED BY <4>1, <4>2, <4>3, <5>1
      <4> QED BY <4>1, <4>2, <4>3
    <3> QED BY <3>1, <3>2
  <2>7. h \in [SUBSET (1..k) -> Typ]
    BY <2>6
  <2> HIDE DEF h
  <2>8. Holds(k, h)
    BY <2>6, <2>7
  <2> HIDE DEF Holds
  <2>9. k \in 0..n
    OBVIOUS
  <2> QED BY <2>8, <2>9
<1>3. n \in T
  <2> HIDE DEF T
  <2>1. \A k \in 0..n : k \in T
    BY <1>1, <1>2, UpTo
  <2> QED BY <2>1
<1>4. PICK g : Holds(n, g)
  BY <1>3
<1> QED BY <1>4 DEF Iterates

LEMMA Segment ==
    ASSUME NEW n \in Nat, NEW k \in 1..n
    PROVE  /\ (1..k) \in SUBSET (1..n) /\ (1..k) # {} /\ Max(1..k) = k
           /\ (1..k) \ {k} = 1..(k - 1) /\ (1..(k - 1)) \in SUBSET (1..n)
<1>1. (1..k) \in SUBSET (1..n) /\ (1..(k - 1)) \in SUBSET (1..n)
  OBVIOUS
<1> DEFINE u == 1..k
<1>2. u \in SUBSET (1..k) /\ u # {} /\ k \in Nat
  OBVIOUS
<1>3. Max(u) \in u /\ \A y \in u : y <= Max(u)
  <2> HIDE DEF u
  <2> QED BY <1>2, MaxOf
<1>4. Max(u) = k
  BY <1>3
<1> QED BY <1>1, <1>2, <1>4

\* RemoveFirst, by the place of what it removes
LEMMA RemovesOne ==
    ASSUME NEW S, NEW s \in Seq(S), NEW e, NEW i \in DOMAIN s, s[i] = e,
           \A j \in 1..(i - 1) : s[j] # e
    PROVE  /\ RemoveFirst(s, e) \in Seq(S) /\ Len(RemoveFirst(s, e)) = Len(s) - 1
           /\ \A j \in 1..(Len(s) - 1) :
                 RemoveFirst(s, e)[j] = IF j < i THEN s[j] ELSE s[j + 1]
<1> DEFINE n == Len(s)
           P == {j \in 1..n : s[j] = e}
           a == SubSeq(s, 1, i - 1)
           b == SubSeq(s, i + 1, n)
<1>1. n \in Nat /\ DOMAIN s = 1..n /\ i \in 1..n /\ \A j \in 1..n : s[j] \in S
  BY LenProperties, ElementOfSeq
<1>2. i \in P /\ \A j \in P : j >= i
  BY <1>1
<1>3. Min(P) = i
  <2>1. \A j \in P : j \in Nat
    BY <1>1
  <2> HIDE DEF P
  <2> QED BY <1>2, <2>1 DEF Min
<1>4. SelectInSeq(s, LAMBDA v : v = e) = i
  BY <1>2, <1>3 DEF SelectInSeq
<1>5. RemoveFirst(s, e) = a \o b
  BY <1>1, <1>4 DEF RemoveFirst, RemoveAt
<1>6. /\ a \in Seq(S) /\ Len(a) = i - 1 /\ \A j \in 1..(i - 1) : a[j] = s[j]
      /\ b \in Seq(S) /\ Len(b) = n - i /\ \A j \in 1..(n - i) : b[j] = s[i + j]
  <2>1. /\ \A j \in 1..(i - 1) : s[j] \in S
        /\ \A j \in (i + 1)..n : s[j] \in S
        /\ 1 \in Int /\ i - 1 \in Int /\ i + 1 \in Int /\ n \in Int
    BY <1>1
  <2> HIDE DEF n
  <2>2. /\ a \in Seq(S) /\ Len(a) = IF 1 <= i - 1 THEN i - 1 - 1 + 1 ELSE 0
        /\ \A j \in 1..(i - 1 - 1 + 1) : a[j] = s[1 + j - 1]
    BY <2>1, SubSeqProperties
  <2>3. /\ b \in Seq(S) /\ Len(b) = IF i + 1 <= n THEN n - (i + 1) + 1 ELSE 0
        /\ \A j \in 1..(n - (i + 1) + 1) : b[j] = s[i + 1 + j - 1]
    BY <2>1, SubSeqProperties
  <2> HIDE DEF a, b
  <2>4. /\ Len(a) = i - 1 /\ \A j \in 1..(i - 1) : a[j] = s[j]
    BY <1>1, <2>2
  <2>5. /\ Len(b) = n - i /\ \A j \in 1..(n - i) : b[j] = s[i + j]
    <3>1. n - (i + 1) + 1 = n - i
      BY <1>1
    <3>2. Len(b) = n - i
      BY <1>1, <2>3, <3>1
    <3>3. ASSUME NEW j \in 1..(n - i) PROVE b[j] = s[i + j]
      <4>1. j \in 1..(n - (i + 1) + 1) /\ i + 1 + j - 1 = i + j
        BY <1>1, <3>1
      <4> QED BY <2>3, <4>1
    <3> QED BY <3>2, <3>3
  <2> QED BY <2>2, <2>3, <2>4, <2>5
<1> HIDE DEF a, b, n
<1>7. /\ a \o b \in Seq(S) /\ Len(a \o b) = Len(a) + Len(b)
      /\ \A j \in 1..(Len(a) + Len(b)) : (a \o b)[j] = IF j <= Len(a) THEN a[j] ELSE b[j - Len(a)]
  BY <1>6, ConcatProperties
<1>8. ASSUME NEW j \in 1..(n - 1) PROVE (a \o b)[j] = IF j < i THEN s[j] ELSE s[j + 1]
  <2>1. CASE j < i
    BY <1>1, <1>6, <1>7, <2>1
  <2>2. CASE j >= i
    <3> DEFINE k == j - (i - 1)
    <3>1. k \in 1..(n - i) /\ i + k = j + 1 /\ ~ (j <= i - 1)
      BY <1>1, <2>2
    <3>2. (a \o b)[j] = b[k]
      <4>1. j \in 1..(Len(a) + Len(b)) /\ ~ (j <= Len(a)) /\ j - Len(a) = k
        BY <1>1, <1>6, <2>2
      <4> HIDE DEF k
      <4> QED BY <1>7, <4>1
    <3> HIDE DEF k
    <3>3. b[k] = s[i + k]
      BY <1>6, <3>1
    <3>4. ~ (j < i)
      BY <1>1, <2>2
    <3> QED BY <3>1, <3>2, <3>3, <3>4
  <2>3. j < i \/ j >= i
    BY <1>1
  <2> QED BY <2>1, <2>2, <2>3
<1> QED BY <1>1, <1>5, <1>6, <1>7, <1>8 DEF n

LEMMA RemovesNone ==
    ASSUME NEW S, NEW s \in Seq(S), NEW e, \A i \in DOMAIN s : s[i] # e
    PROVE  RemoveFirst(s, e) = s
BY LenProperties DEF RemoveFirst

LEMMA RemovesFrom ==
    ASSUME NEW S, NEW s \in Seq(S), NEW e
    PROVE  RemoveFirst(s, e) \in Seq(S)
<1> DEFINE P == {j \in DOMAIN s : s[j] = e}
<1>1. CASE P = {}
  BY <1>1, RemovesNone
<1>2. CASE P # {}
  <2>1. P \in SUBSET Nat
    BY LenProperties
  <2>2. PICK i \in P : \A j \in P : i <= j
    <3> HIDE DEF P
    <3> QED BY <1>2, <2>1, LeastOf
  <2>3. \A j \in 1..(i - 1) : j \in DOMAIN s /\ j \notin P
    BY <2>1, <2>2, LenProperties
  <2> QED BY <2>2, <2>3, RemovesOne
<1> QED BY <1>1, <1>2

\* The list of recent commands after each command of the history
LEMMA MruSteps ==
    ASSUME NEW X, NEW s \in Seq(X)
    PROVE  \E f \in [0..Len(s) -> Seq(X)] :
              /\ f[0] = <<>> /\ f[Len(s)] = Mru(s)
              /\ \A k \in 1..Len(s) : f[k] = <<s[k]>> \o RemoveFirst(f[k - 1], s[k])
<1> DEFINE n == Len(s)
           G == [k \in 1..n |-> [t \in Seq(X) |-> <<s[k]>> \o RemoveFirst(t, s[k])]]
           Def(g) == [u \in SUBSET (DOMAIN s) |->
                        IF u = {} THEN <<>>
                        ELSE <<s[Max(u)]>> \o RemoveFirst(g[u \ {Max(u)}], s[Max(u)])]
           F == CHOOSE g : g = Def(g)
<1>1. n \in Nat /\ DOMAIN s = 1..n /\ \A k \in 1..n : s[k] \in X
  BY LenProperties, ElementOfSeq
<1>2. ASSUME NEW t \in Seq(X), NEW e \in X PROVE <<e>> \o RemoveFirst(t, e) \in Seq(X)
  <2>1. <<e>> \in Seq(X) /\ RemoveFirst(t, e) \in Seq(X)
    BY RemovesFrom
  <2> HIDE DEF F
  <2> QED BY <2>1, ConcatProperties
<1>3. Mru(s) = F[DOMAIN s]
  BY DEF Mru, FoldLeft, MapThenFoldSet
<1>4. F = Def(F)
  <2>1. G \in [1..n -> [Seq(X) -> Seq(X)]] /\ <<>> \in Seq(X)
    BY <1>1, <1>2
  <2>2. PICK g \in [SUBSET (1..n) -> Seq(X)] : Iterates(g, n, <<>>, G)
    <3> DEFINE Typ == Seq(X)
               base == <<>>
    <3>1. n \in Nat /\ base \in Typ /\ G \in [1..n -> [Typ -> Typ]]
      BY <1>1, <2>1
    <3> HIDE DEF G, n, Typ, base
    <3>2. \E g \in [SUBSET (1..n) -> Typ] : Iterates(g, n, base, G)
      BY <3>1, IterExists
    <3> QED BY <3>2 DEF Typ, base
  <2>3. ASSUME NEW u \in SUBSET (1..n), u # {}
        PROVE  G[Max(u)][g[u \ {Max(u)}]] = <<s[Max(u)]>> \o RemoveFirst(g[u \ {Max(u)}], s[Max(u)])
    <3>1. Max(u) \in 1..n
      <4> HIDE DEF n
      <4> QED BY <1>1, <2>3, MaxOf
    <3>2. g[u \ {Max(u)}] \in Seq(X)
      OBVIOUS
    <3> QED BY <3>1, <3>2
  <2>4. g = Def(g)
    BY <1>1, <2>2, <2>3 DEF Iterates
  <2> HIDE DEF Def
  <2> QED BY <2>4
<1> HIDE DEF G, F
<1> DEFINE f == [k \in 0..n |-> F[1..k]]
<1>5. f[0] = <<>>
  <2>1. 1..0 = {} /\ {} \in SUBSET (DOMAIN s) /\ 0 \in 0..n
    BY <1>1
  <2>2. F[{}] = <<>>
    BY <1>4, <2>1
  <2> QED BY <2>1, <2>2
<1>6. ASSUME NEW k \in 1..n PROVE f[k] = <<s[k]>> \o RemoveFirst(f[k - 1], s[k])
  <2>1. f[k] = F[1..k] /\ f[k - 1] = F[1..(k - 1)]
    BY <1>1
  <2>2. /\ (1..k) \in SUBSET (DOMAIN s) /\ (1..k) # {} /\ Max(1..k) = k
        /\ (1..k) \ {k} = 1..(k - 1)
    <3> HIDE DEF n
    <3> QED BY <1>1, Segment
  <2> HIDE DEF f
  <2> QED BY <1>4, <2>1, <2>2
<1> HIDE DEF f
<1>7. \A k \in 0..n : f[k] \in Seq(X)
  <2> DEFINE T == {k \in 0..n : f[k] \in Seq(X)}
  <2>1. 0 \in T
    <3>1. 0 \in 0..n /\ f[0] \in Seq(X)
      BY <1>1, <1>5, EmptySeq
    <3> QED BY <3>1
  <2>2. ASSUME NEW k \in 1..n, k - 1 \in T PROVE k \in T
    <3>1. f[k - 1] \in Seq(X) /\ s[k] \in X
      BY <1>1, <2>2
    <3>2. f[k] \in Seq(X)
      BY <1>2, <1>6, <3>1
    <3> QED BY <3>2
  <2> HIDE DEF T, n
  <2>3. \A k \in 0..n : k \in T
    BY <1>1, <2>1, <2>2, UpTo
  <2> QED BY <2>3 DEF T
<1>8. f \in [0..n -> Seq(X)] /\ f[n] = Mru(s)
  <2>1. f = [k \in 0..n |-> f[k]] /\ f[n] = F[1..n] /\ n \in 0..n
    BY <1>1 DEF f
  <2> QED BY <1>1, <1>3, <1>7, <2>1
<1> QED BY <1>5, <1>6, <1>8

\* r has everything in s but e, in the same order: h tells from where.
AllBut(r, s, e, h) ==
    /\ h \in [DOMAIN r -> DOMAIN s]
    /\ \A i \in DOMAIN r : r[i] = s[h[i]] /\ s[h[i]] # e
    /\ \A i, j \in DOMAIN r : i < j => h[i] < h[j]
    /\ \A i \in DOMAIN s : s[i] # e => \E j \in DOMAIN r : h[j] = i

LEMMA KeepsOrder ==
    ASSUME NEW S, NEW s \in Seq(S), NEW e, IsInjective(s)
    PROVE  RemoveFirst(s, e) \in Seq(S) /\ \E h : AllBut(RemoveFirst(s, e), s, e, h)
<1> DEFINE r == RemoveFirst(s, e)
<1>1. r \in Seq(S) /\ DOMAIN s = 1..Len(s) /\ Len(s) \in Nat /\ DOMAIN r = 1..Len(r)
  BY RemovesFrom, LenProperties
<1>2. CASE \A i \in DOMAIN s : s[i] # e
  <2>1. r = s
    BY <1>2, RemovesNone
  <2> HIDE DEF r
  <2> DEFINE h == [i \in DOMAIN s |-> i]
  <2>2. /\ h \in [DOMAIN r -> DOMAIN s] /\ \A i \in DOMAIN r : h[i] = i
    BY <2>1
  <2> HIDE DEF h
  <2>3. /\ \A i \in DOMAIN r : r[i] = s[h[i]] /\ s[h[i]] # e
        /\ \A i, j \in DOMAIN r : i < j => h[i] < h[j]
        /\ \A i \in DOMAIN s : s[i] # e => \E j \in DOMAIN r : h[j] = i
    BY <1>2, <2>1, <2>2
  <2>4. AllBut(r, s, e, h)
    BY <2>2, <2>3 DEF AllBut
  <2> QED BY <1>1, <2>4 DEF r
<1>3. CASE \E i \in DOMAIN s : s[i] = e
  <2>1. PICK p \in DOMAIN s : s[p] = e
    BY <1>3
  <2>2. \A i \in DOMAIN s : s[i] = e => i = p
    BY <2>1 DEF IsInjective
  <2>3. \A j \in 1..(p - 1) : s[j] # e
    BY <1>1, <2>2
  <2>4. /\ Len(r) = Len(s) - 1
        /\ \A j \in 1..(Len(s) - 1) : r[j] = IF j < p THEN s[j] ELSE s[j + 1]
    BY <2>1, <2>3, RemovesOne
  <2> HIDE DEF r
  <2> DEFINE h == [i \in DOMAIN r |-> IF i < p THEN i ELSE i + 1]
  <2>5. h \in [DOMAIN r -> DOMAIN s]
    BY <1>1, <2>4
  <2>6. \A i \in DOMAIN r : h[i] = IF i < p THEN i ELSE i + 1
    OBVIOUS
  <2>7. p \in 1..Len(s) /\ DOMAIN r = 1..(Len(s) - 1)
    BY <1>1, <2>4
  <2> HIDE DEF h
  <2>8. ASSUME NEW i \in DOMAIN r PROVE r[i] = s[h[i]] /\ s[h[i]] # e
    <3>1. h[i] # p /\ h[i] \in DOMAIN s
      BY <2>5, <2>6, <2>7
    <3>2. r[i] = s[h[i]]
      BY <2>4, <2>6, <2>7
    <3> QED BY <2>2, <3>1, <3>2
  <2>9. \A i, j \in DOMAIN r : i < j => h[i] < h[j]
    BY <2>6, <2>7
  <2>10. ASSUME NEW i \in DOMAIN s, s[i] # e PROVE \E j \in DOMAIN r : h[j] = i
    <3>1. CASE i < p
      <4>1. i \in DOMAIN r /\ h[i] = i
        BY <1>1, <2>6, <2>7, <3>1
      <4> QED BY <4>1
    <3>2. CASE i > p
      <4>1. i - 1 \in DOMAIN r /\ h[i - 1] = i
        BY <1>1, <2>6, <2>7, <3>2
      <4> QED BY <4>1
    <3>3. i # p
      BY <2>1, <2>10
    <3> QED BY <1>1, <2>7, <3>1, <3>2, <3>3
  <2>11. AllBut(r, s, e, h)
    BY <2>5, <2>8, <2>9, <2>10 DEF AllBut
  <2> QED BY <1>1, <2>11 DEF r
<1> QED BY <1>2, <1>3

\* What the list holds after the first k commands of the history: each of them once, the
\* latest first
RecencyAt(r, s, k) ==
    /\ IsInjective(r)
    /\ \A i \in DOMAIN r : \E m \in 1..k : s[m] = r[i]
    /\ \A m \in 1..k : \E i \in DOMAIN r : r[i] = s[m]
    /\ \A i, j \in DOMAIN r : i < j => \E m \in 1..k : s[m] = r[i] /\ \A q \in m..k : s[q] # r[j]

LEMMA RecencyStep ==
    ASSUME NEW X, NEW s \in Seq(X), NEW k \in 1..Len(s), NEW r \in Seq(X), RecencyAt(r, s, k - 1)
    PROVE  RecencyAt(<<s[k]>> \o RemoveFirst(r, s[k]), s, k)
<1> DEFINE e == s[k]
           rem == RemoveFirst(r, e)
           new == <<e>> \o rem
<1>1. IsInjective(r) /\ \A i, j \in DOMAIN r : r[i] = r[j] => i = j
  BY DEF RecencyAt, IsInjective
<1>2. rem \in Seq(X) /\ \E h : AllBut(rem, r, e, h)
  <2> HIDE DEF e
  <2> QED BY <1>1, KeepsOrder
<1>3. k \in Nat /\ Len(s) \in Nat /\ e \in X /\ DOMAIN r = 1..Len(r) /\ Len(r) \in Nat
  BY ElementOfSeq, LenProperties
<1> HIDE DEF rem
<1>4. PICK h \in [DOMAIN rem -> DOMAIN r] :
                 /\ \A i \in DOMAIN rem : rem[i] = r[h[i]] /\ r[h[i]] # e
                 /\ \A i, j \in DOMAIN rem : i < j => h[i] < h[j]
                 /\ \A i \in DOMAIN r : r[i] # e => \E j \in DOMAIN rem : h[j] = i
  BY <1>2 DEF AllBut
<1>5. /\ DOMAIN rem = 1..Len(rem) /\ Len(rem) \in Nat /\ DOMAIN new = 1..(Len(rem) + 1)
      /\ new[1] = e /\ \A i \in DOMAIN rem : i + 1 \in DOMAIN new /\ new[i + 1] = rem[i]
  <2>1. <<e>> \in Seq(X) /\ Len(<<e>>) = 1 /\ <<e>>[1] = e
    BY <1>3
  <2>2. rem \in Seq(X) /\ DOMAIN rem = 1..Len(rem) /\ Len(rem) \in Nat
    BY <1>2, LenProperties
  <2>3. /\ new \in Seq(X) /\ Len(new) = 1 + Len(rem)
        /\ \A i \in 1..(1 + Len(rem)) : new[i] = IF i <= 1 THEN e ELSE rem[i - 1]
    BY <1>2, <2>1, ConcatProperties
  <2>4. DOMAIN new = 1..Len(new)
    BY <2>3, LenProperties
  <2> HIDE DEF new
  <2> QED BY <2>2, <2>3, <2>4
<1> HIDE DEF new
<1>6. \A i \in DOMAIN new : i = 1 \/ (i - 1 \in DOMAIN rem /\ new[i] = rem[i - 1])
  BY <1>5
<1>7. ASSUME NEW i \in DOMAIN new, NEW j \in DOMAIN new, new[i] = new[j] PROVE i = j
  <2>1. \A a \in DOMAIN rem : rem[a] # e
    BY <1>4
  <2>2. CASE i = 1 \/ j = 1
    BY <1>5, <1>6, <1>7, <2>1, <2>2
  <2>3. CASE i # 1 /\ j # 1
    <3> DEFINE a == i - 1
               b == j - 1
    <3>1. a \in DOMAIN rem /\ b \in DOMAIN rem /\ rem[a] = rem[b]
      BY <1>6, <1>7, <2>3
    <3> HIDE DEF a, b
    <3>2. r[h[a]] = r[h[b]] /\ h[a] \in DOMAIN r /\ h[b] \in DOMAIN r
      BY <1>4, <3>1
    <3>3. h[a] = h[b]
      BY <1>1, <3>2
    <3>4. a \in Nat /\ b \in Nat
      <4>1. DOMAIN rem = 1..Len(rem) /\ Len(rem) \in Nat
        BY <1>5
      <4> QED BY <3>1, <4>1
    <3>5. h[a] \in Nat
      <4>1. DOMAIN r = 1..Len(r) /\ Len(r) \in Nat
        BY <1>3
      <4> QED BY <3>2, <4>1
    <3>6. a = b
      <4> DEFINE x == h[a]
                 y == h[b]
      <4>1. x = y /\ x \in Nat /\ (a < b => x < y) /\ (b < a => y < x)
        BY <1>4, <3>1, <3>3, <3>5
      <4> HIDE DEF x, y
      <4> QED BY <3>4, <4>1
    <3>7. i \in Nat /\ j \in Nat
      BY <1>5
    <3> QED BY <3>6, <3>7 DEF a, b
  <2> QED BY <2>2, <2>3
<1>8. ASSUME NEW i \in DOMAIN new PROVE \E m \in 1..k : s[m] = new[i]
  <2>1. CASE i = 1
    BY <1>3, <1>5, <2>1
  <2>2. CASE i # 1
    <3>1. h[i - 1] \in DOMAIN r /\ new[i] = r[h[i - 1]]
      BY <1>4, <1>6, <2>2
    <3>2. PICK m \in 1..(k - 1) : s[m] = r[h[i - 1]]
      BY <3>1 DEF RecencyAt
    <3> QED BY <1>3, <3>1, <3>2
  <2> QED BY <2>1, <2>2
<1>9. ASSUME NEW m \in 1..k PROVE \E i \in DOMAIN new : new[i] = s[m]
  <2>1. CASE s[m] = e
    BY <1>5, <2>1
  <2>2. CASE s[m] # e
    <3>1. m \in 1..(k - 1)
      BY <1>3, <2>2
    <3>2. PICK i \in DOMAIN r : r[i] = s[m]
      BY <3>1 DEF RecencyAt
    <3>3. PICK j \in DOMAIN rem : h[j] = i
      BY <1>4, <2>2, <3>2
    <3> QED BY <1>4, <1>5, <3>2, <3>3
  <2> QED BY <2>1, <2>2
<1>10. ASSUME NEW i \in DOMAIN new, NEW j \in DOMAIN new, i < j
       PROVE  \E m \in 1..k : s[m] = new[i] /\ \A q \in m..k : s[q] # new[j]
  <2>1. j # 1 /\ j - 1 \in DOMAIN rem /\ new[j] = rem[j - 1] /\ new[j] # e
    BY <1>4, <1>5, <1>6, <1>10
  <2>2. CASE i = 1
    <3>1. k \in 1..k /\ s[k] = new[i] /\ \A q \in k..k : s[q] # new[j]
      BY <1>3, <1>5, <2>1, <2>2
    <3> QED BY <3>1
  <2>3. CASE i # 1
    <3>1. i - 1 \in DOMAIN rem /\ new[i] = rem[i - 1] /\ i - 1 < j - 1
      BY <1>5, <1>6, <1>10, <2>3
    <3>2. /\ h[i - 1] \in DOMAIN r /\ h[j - 1] \in DOMAIN r /\ h[i - 1] < h[j - 1]
          /\ new[i] = r[h[i - 1]] /\ new[j] = r[h[j - 1]]
      BY <1>4, <2>1, <3>1
    <3>3. PICK m \in 1..(k - 1) : s[m] = r[h[i - 1]] /\ \A q \in m..(k - 1) : s[q] # r[h[j - 1]]
      <4> DEFINE a == h[i - 1]
                 b == h[j - 1]
      <4>1. a \in DOMAIN r /\ b \in DOMAIN r /\ a < b
        BY <3>2
      <4> HIDE DEF a, b
      <4>2. \E m \in 1..(k - 1) : s[m] = r[a] /\ \A q \in m..(k - 1) : s[q] # r[b]
        BY <4>1 DEF RecencyAt
      <4> QED BY <4>2 DEF a, b
    <3>4. m \in 1..k /\ \A q \in m..k : s[q] # new[j]
      <4>1. m \in 1..k /\ \A q \in m..k : q \in m..(k - 1) \/ q = k
        BY <1>3
      <4> QED BY <2>1, <3>2, <3>3, <4>1
    <3> QED BY <3>2, <3>3, <3>4
  <2> QED BY <2>2, <2>3
<1>11. IsInjective(new)
  BY <1>7 DEF IsInjective
<1> QED BY <1>8, <1>9, <1>10, <1>11 DEF RecencyAt, new, rem

LEMMA MruRecency ==
    ASSUME NEW X, NEW s \in Seq(X)
    PROVE  Mru(s) \in Seq(X) /\ RecencyAt(Mru(s), s, Len(s))
<1> DEFINE n == Len(s)
<1>1. n \in Nat
  BY LenProperties
<1>2. PICK f \in [0..n -> Seq(X)] :
              /\ f[0] = <<>> /\ f[n] = Mru(s)
              /\ \A k \in 1..n : f[k] = <<s[k]>> \o RemoveFirst(f[k - 1], s[k])
  BY MruSteps
<1> DEFINE T == {k \in 0..n : RecencyAt(f[k], s, k)}
<1>3. 0 \in T
  <2>1. DOMAIN f[0] = {} /\ 1..0 = {} /\ 0 \in 0..n
    BY <1>1, <1>2
  <2> HIDE DEF n
  <2>2. RecencyAt(f[0], s, 0)
    BY <2>1 DEF RecencyAt, IsInjective
  <2> QED BY <2>1, <2>2
<1>4. ASSUME NEW k \in 1..n, k - 1 \in T PROVE k \in T
  <2>1. k \in 0..n /\ f[k - 1] \in Seq(X) /\ RecencyAt(f[k - 1], s, k - 1)
    BY <1>1, <1>4
  <2>2. RecencyAt(<<s[k]>> \o RemoveFirst(f[k - 1], s[k]), s, k)
    BY <2>1, RecencyStep
  <2> QED BY <1>2, <2>1, <2>2
<1>5. n \in T
  <2> HIDE DEF T, n
  <2>1. \A k \in 0..n : k \in T
    BY <1>1, <1>3, <1>4, UpTo
  <2> QED BY <1>1, <2>1
<1> QED BY <1>1, <1>2, <1>5

-----------------------------------------------------------------------------
(* FlattenSeq *)

\* The beginnings of the flattened sequence
LEMMA FlattenSteps ==
    ASSUME NEW X, NEW ss \in Seq(Seq(X))
    PROVE  \E f \in [0..Len(ss) -> Seq(X)] :
              /\ f[0] = <<>> /\ f[Len(ss)] = FlattenSeq(ss)
              /\ \A k \in 1..Len(ss) : f[k] = f[k - 1] \o ss[k]
<1> DEFINE n == Len(ss)
           Def(g) == [i \in 1..n |-> IF i = 1 THEN ss[i] ELSE g[i - 1] \o ss[i]]
           F == CHOOSE g : g = Def(g)
<1>1. n \in Nat /\ DOMAIN ss = 1..n /\ \A k \in 1..n : ss[k] \in Seq(X)
  BY LenProperties, ElementOfSeq
<1>2. CASE n = 0
  <2>1. ss = <<>> /\ FlattenSeq(ss) = ss
    BY <1>1, <1>2, EmptySeq DEF FlattenSeq
  <2> DEFINE f == [k \in 0..0 |-> <<>>]
  <2>2. f \in [0..0 -> Seq(X)] /\ f[0] = <<>>
    BY EmptySeq
  <2> HIDE DEF f
  <2>3. f \in [0..n -> Seq(X)] /\ f[n] = FlattenSeq(ss) /\ 1..n = {}
    BY <1>2, <2>1, <2>2
  <2> QED BY <2>2, <2>3
<1>3. CASE n # 0
  <2>1. FlattenSeq(ss) = F[n]
    BY <1>3 DEF FlattenSeq
  <2> DEFINE Solves(g, k) == \A i \in 1..k : g[i] = IF i = 1 THEN ss[i] ELSE g[i - 1] \o ss[i]
             T == {k \in 0..n : \E g : Solves(g, k)}
  <2>2. 0 \in T
    BY <1>1
  <2>3. ASSUME NEW k \in 1..n, k - 1 \in T PROVE k \in T
    <3>1. PICK g : Solves(g, k - 1)
      BY <2>3
    <3> DEFINE h == [i \in 1..k |-> IF i = k THEN (IF k = 1 THEN ss[k] ELSE g[k - 1] \o ss[k])
                                    ELSE g[i]]
    <3>2. ASSUME NEW i \in 1..k PROVE h[i] = IF i = 1 THEN ss[i] ELSE h[i - 1] \o ss[i]
      <4>1. CASE i = k
        <5>1. k \in Nat /\ h[k] = IF k = 1 THEN ss[k] ELSE g[k - 1] \o ss[k]
          BY <1>1, <4>1
        <5>2. k # 1 => k - 1 \in 1..k /\ k - 1 # k
          BY <4>1, <5>1
        <5>3. k # 1 => h[k - 1] = g[k - 1]
          BY <5>2
        <5> HIDE DEF h
        <5> QED BY <4>1, <5>1, <5>3
      <4>2. CASE i # k
        <5>1. i \in 1..(k - 1) /\ h[i] = g[i] /\ (i # 1 => h[i - 1] = g[i - 1])
          BY <1>1, <4>2
        <5> HIDE DEF h
        <5> QED BY <3>1, <5>1
      <4> QED BY <4>1, <4>2
    <3> HIDE DEF h
    <3>3. Solves(h, k)
      BY <3>2
    <3> HIDE DEF Solves
    <3>4. k \in 0..n
      BY <1>1
    <3> QED BY <3>3, <3>4
  <2>4. PICK g : Solves(g, n)
    <3> HIDE DEF T
    <3>1. \A k \in 0..n : k \in T
      <4> HIDE DEF n
      <4> QED BY <1>1, <2>2, <2>3, UpTo
    <3>2. n \in T
      BY <1>1, <3>1
    <3> HIDE DEF Solves
    <3> QED BY <3>2 DEF T
  <2> DEFINE G == [i \in 1..n |-> g[i]]
  <2>5. G = Def(G)
    <3>1. \A i \in 1..n : i # 1 => i - 1 \in 1..n
      BY <1>1
    <3> QED BY <2>4, <3>1
  <2>6. F = Def(F)
    <3> HIDE DEF Def, G
    <3> QED BY <2>5
  <2> HIDE DEF F
  <2>7. /\ F[1] = ss[1] /\ \A i \in 1..n : i # 1 => F[i] = F[i - 1] \o ss[i]
    <3>1. \A i \in 1..n : F[i] = IF i = 1 THEN ss[i] ELSE F[i - 1] \o ss[i]
      BY <2>6
    <3>2. 1 \in 1..n
      BY <1>1, <1>3
    <3> QED BY <3>1, <3>2
  <2> DEFINE f == [k \in 0..n |-> IF k = 0 THEN <<>> ELSE F[k]]
  <2>8. f[0] = <<>> /\ f[n] = FlattenSeq(ss)
    BY <1>1, <1>3, <2>1
  <2>9. ASSUME NEW k \in 1..n PROVE f[k] = f[k - 1] \o ss[k]
    <3>1. CASE k = 1
      <4>1. f[k] = ss[k] /\ f[k - 1] = <<>>
        BY <1>1, <2>7, <3>1
      <4>2. <<>> \o ss[k] = ss[k]
        BY <1>1, ConcatEmptySeq
      <4> QED BY <4>1, <4>2
    <3>2. CASE k # 1
      <4>1. f[k] = F[k] /\ f[k - 1] = F[k - 1]
        BY <1>1, <3>2
      <4> HIDE DEF f
      <4> QED BY <2>7, <3>2, <4>1
    <3> QED BY <3>1, <3>2
  <2>10. f = [k \in 0..n |-> f[k]]
    OBVIOUS
  <2> HIDE DEF f
  <2>11. \A k \in 0..n : f[k] \in Seq(X)
    <3> DEFINE U == {k \in 0..n : f[k] \in Seq(X)}
    <3>1. 0 \in U
      <4>1. 0 \in 0..n /\ f[0] \in Seq(X)
        BY <1>1, <2>8, EmptySeq
      <4> QED BY <4>1
    <3>2. ASSUME NEW k \in 1..n, k - 1 \in U PROVE k \in U
      <4>1. f[k - 1] \in Seq(X) /\ ss[k] \in Seq(X) /\ k \in 0..n
        BY <1>1, <3>2
      <4>2. f[k] \in Seq(X)
        BY <2>9, <4>1, ConcatProperties
      <4> QED BY <4>1, <4>2
    <3> HIDE DEF U, n
    <3>3. \A k \in 0..n : k \in U
      BY <1>1, <3>1, <3>2, UpTo
    <3> QED BY <3>3 DEF U
  <2>12. f \in [0..n -> Seq(X)]
    BY <2>10, <2>11
  <2> QED BY <2>8, <2>9, <2>12
<1> QED BY <1>2, <1>3

\* Where the j-th element of the i-th sequence is found: only elements of sequences before
\* that one, or earlier ones of its own, come before it.
Before(x, ss, i, j) ==
    \/ \E k \in 1..(i - 1) : \E m \in DOMAIN ss[k] : x = ss[k][m]
    \/ \E m \in 1..(j - 1) : x = ss[i][m]

FlatAt(f, ss, k) ==
    /\ \A x \in Range(f) : \E i \in 1..k : \E j \in DOMAIN ss[i] : x = ss[i][j]
    /\ \A i \in 1..k : \A j \in DOMAIN ss[i] :
          \E q \in DOMAIN f : f[q] = ss[i][j] /\ \A m \in 1..(q - 1) : Before(f[m], ss, i, j)

LEMMA FlatStep ==
    ASSUME NEW X, NEW ss \in Seq(Seq(X)), NEW k \in 1..Len(ss), NEW f \in Seq(X), FlatAt(f, ss, k - 1)
    PROVE  FlatAt(f \o ss[k], ss, k)
<1> DEFINE t == ss[k]
           g == f \o t
<1>1. /\ Len(ss) \in Nat /\ k \in Nat /\ t \in Seq(X) /\ Len(t) \in Nat /\ DOMAIN t = 1..Len(t)
      /\ Len(f) \in Nat /\ DOMAIN f = 1..Len(f)
  <2>1. t \in Seq(X) /\ Len(ss) \in Nat
    BY ElementOfSeq, LenProperties
  <2> QED BY <2>1, LenProperties
<1>2. /\ g \in Seq(X) /\ DOMAIN g = 1..(Len(f) + Len(t))
      /\ \A q \in 1..(Len(f) + Len(t)) : g[q] = IF q <= Len(f) THEN f[q] ELSE t[q - Len(f)]
  <2> HIDE DEF t
  <2>1. /\ g \in Seq(X) /\ Len(g) = Len(f) + Len(t)
        /\ \A q \in 1..(Len(f) + Len(t)) : g[q] = IF q <= Len(f) THEN f[q] ELSE t[q - Len(f)]
    BY <1>1, ConcatProperties
  <2> HIDE DEF g
  <2> QED BY <2>1, LenProperties
<1>3. ASSUME NEW q \in DOMAIN g
      PROVE  \/ q \in DOMAIN f /\ g[q] = f[q]
             \/ q > Len(f) /\ q - Len(f) \in DOMAIN t /\ g[q] = t[q - Len(f)]
  <2> HIDE DEF g, t
  <2>1. CASE q <= Len(f)
    BY <1>1, <1>2, <2>1
  <2>2. CASE q > Len(f)
    BY <1>1, <1>2, <2>2
  <2> QED BY <1>1, <1>2, <2>1, <2>2
<1>4. \A q \in DOMAIN f : q \in DOMAIN g /\ g[q] = f[q]
  <2> HIDE DEF g, t
  <2> QED BY <1>1, <1>2
<1>5. ASSUME NEW j \in DOMAIN t PROVE Len(f) + j \in DOMAIN g /\ g[Len(f) + j] = t[j]
  <2> HIDE DEF g, t
  <2> DEFINE q == Len(f) + j
  <2>1. q \in 1..(Len(f) + Len(t)) /\ ~ (q <= Len(f)) /\ q - Len(f) = j
    BY <1>1
  <2> HIDE DEF q
  <2>2. q \in DOMAIN g /\ g[q] = t[j]
    BY <1>2, <2>1
  <2> QED BY <2>2 DEF q
<1> HIDE DEF g
<1>6. ASSUME NEW q \in DOMAIN f PROVE \E i \in 1..(k - 1) : \E j \in DOMAIN ss[i] : f[q] = ss[i][j]
  <2>1. f[q] \in Range(f)
    BY DEF Range
  <2> QED BY <2>1 DEF FlatAt
<1>7. ASSUME NEW x \in Range(g) PROVE \E i \in 1..k : \E j \in DOMAIN ss[i] : x = ss[i][j]
  <2>1. PICK q \in DOMAIN g : x = g[q]
    BY DEF Range
  <2>2. CASE q \in DOMAIN f /\ g[q] = f[q]
    <3>1. \A i \in 1..(k - 1) : i \in 1..k
      <4>1. k \in Nat
        BY <1>1
      <4> QED BY <4>1
    <3> HIDE DEF t
    <3> QED BY <1>6, <2>1, <2>2, <3>1
  <2>3. CASE q - Len(f) \in DOMAIN t /\ g[q] = t[q - Len(f)]
    <3>1. k \in 1..k
      BY <1>1
    <3> QED BY <2>1, <2>3, <3>1
  <2> QED BY <1>3, <2>2, <2>3
<1>8. ASSUME NEW i \in 1..k, NEW j \in DOMAIN ss[i]
      PROVE  \E q \in DOMAIN g : g[q] = ss[i][j] /\ \A m \in 1..(q - 1) : Before(g[m], ss, i, j)
  <2>1. CASE i # k
    <3>1. i \in 1..(k - 1)
      BY <1>1, <2>1
    <3>2. PICK q \in DOMAIN f : f[q] = ss[i][j] /\ \A m \in 1..(q - 1) : Before(f[m], ss, i, j)
      BY <3>1 DEF FlatAt
    <3>3. \A m \in 1..(q - 1) : m \in DOMAIN f /\ g[m] = f[m]
      BY <1>1, <1>4
    <3> QED BY <1>4, <3>2, <3>3
  <2>2. CASE i = k
    <3>1. j \in DOMAIN t /\ j \in Nat
      BY <1>1, <2>2
    <3>2. Len(f) + j \in DOMAIN g /\ g[Len(f) + j] = ss[i][j]
      BY <1>5, <2>2, <3>1
    <3>3. ASSUME NEW m \in 1..(Len(f) + j - 1) PROVE Before(g[m], ss, i, j)
      <4>1. m \in DOMAIN g
        BY <1>1, <1>2, <3>1, <3>2
      <4>2. CASE m \in DOMAIN f /\ g[m] = f[m]
        BY <1>6, <2>2, <4>2 DEF Before
      <4>3. CASE m > Len(f) /\ m - Len(f) \in DOMAIN t /\ g[m] = t[m - Len(f)]
        <5>1. m - Len(f) \in 1..(j - 1)
          BY <1>1, <3>1, <4>3
        <5> QED BY <2>2, <4>3, <5>1 DEF Before
      <4> QED BY <1>3, <4>1, <4>2, <4>3
    <3> QED BY <3>2, <3>3
  <2> QED BY <2>1, <2>2
<1> QED BY <1>7, <1>8 DEF FlatAt, g, t

LEMMA Flattened ==
    ASSUME NEW X, NEW ss \in Seq(Seq(X))
    PROVE  FlattenSeq(ss) \in Seq(X) /\ FlatAt(FlattenSeq(ss), ss, Len(ss))
<1> DEFINE n == Len(ss)
<1>1. n \in Nat
  BY LenProperties
<1>2. PICK f \in [0..n -> Seq(X)] :
              /\ f[0] = <<>> /\ f[n] = FlattenSeq(ss)
              /\ \A k \in 1..n : f[k] = f[k - 1] \o ss[k]
  BY FlattenSteps
<1> DEFINE T == {k \in 0..n : FlatAt(f[k], ss, k)}
<1>3. 0 \in T
  <2>1. f[0] = <<>> /\ Range(<<>>) = {} /\ 1..0 = {} /\ 0 \in 0..n
    BY <1>1, <1>2 DEF Range
  <2> HIDE DEF n
  <2>2. FlatAt(f[0], ss, 0)
    BY <2>1 DEF FlatAt
  <2> QED BY <2>1, <2>2
<1>4. ASSUME NEW k \in 1..n, k - 1 \in T PROVE k \in T
  <2>1. k \in 0..n /\ k - 1 \in 0..n /\ FlatAt(f[k - 1], ss, k - 1)
    BY <1>1, <1>4
  <2>2. FlatAt(f[k - 1] \o ss[k], ss, k)
    <3>1. f[k - 1] \in Seq(X)
      BY <1>2, <2>1
    <3> QED BY <2>1, <3>1, FlatStep
  <2> QED BY <1>2, <2>1, <2>2
<1>5. n \in T
  <2> HIDE DEF T, n
  <2>1. \A k \in 0..n : k \in T
    BY <1>1, <1>3, <1>4, UpTo
  <2> QED BY <1>1, <2>1
<1> QED BY <1>1, <1>2, <1>5

-----------------------------------------------------------------------------
(* What the parser works on *)

\* Where nothing is given, data is ""; the provers do not know that it is a string.
Match == [arg : ArgumentSpec, data : STRING \cup {""}, needsData : BOOLEAN, multiple : BOOLEAN,
          nokeyword : BOOLEAN]

Possibility == [command : Nat, matches : Seq(Match), score : Int]

\* A reading of n words for one of the commands there are
IsPossibility(p, n) == p \in Possibility /\ p.command \in DOMAIN commands /\ Len(p.matches) = n

ParserTypes ==
    /\ commands \in CommandSets /\ tokens \in Seq(Token) /\ Len(tokens) <= MaxTokens
    /\ possibilities \in Seq(Possibility)
    /\ \A p \in Range(possibilities) : IsPossibility(p, Len(tokens))
    /\ poss \in Possibility /\ (poss = NoReading \/ IsPossibility(poss, Len(tokens)))
    /\ parsePhase \in {"typing", "parsed"} => poss = NoReading
    /\ parsePhase \in {"typing", "parsed", "run", "refused"}

LEMMA RangeOfFlat ==
    ASSUME NEW X, NEW ss \in Seq(Seq(X))
    PROVE  /\ FlattenSeq(ss) \in Seq(X)
           /\ \A x \in Range(FlattenSeq(ss)) : \E i \in DOMAIN ss : x \in Range(ss[i])
           /\ \A i \in DOMAIN ss : \A x \in Range(ss[i]) : x \in Range(FlattenSeq(ss))
<1>1. FlattenSeq(ss) \in Seq(X) /\ FlatAt(FlattenSeq(ss), ss, Len(ss)) /\ DOMAIN ss = 1..Len(ss)
  BY Flattened, LenProperties
<1> DEFINE F == FlattenSeq(ss)
<1> HIDE DEF F
<1>2. ASSUME NEW x \in Range(F) PROVE \E i \in DOMAIN ss : x \in Range(ss[i])
  BY <1>1 DEF F, FlatAt, Range
<1>3. ASSUME NEW i \in DOMAIN ss, NEW x \in Range(ss[i]) PROVE x \in Range(F)
  <2>1. PICK j \in DOMAIN ss[i] : x = ss[i][j]
    BY <1>3 DEF Range
  <2>2. PICK q \in DOMAIN F : F[q] = ss[i][j]
    BY <1>1, <2>1 DEF F, FlatAt
  <2> QED BY <2>1, <2>2 DEF Range
<1> QED BY <1>1, <1>2, <1>3 DEF F

LEMMA ArgumentsAre ==
    ASSUME NEW c \in CommandSpec
    PROVE  /\ Arguments(c) \in Seq(ArgumentSpec)
           /\ Len(c.words) \in Nat /\ Len(c.words) <= Len(Arguments(c))
           /\ \A i \in 1..Len(c.words) : Arguments(c)[i] = KeywordArgument(c.words[i])
           /\ \A i \in DOMAIN Arguments(c) : i > Len(c.words) =>
                 Arguments(c)[i] \in Range(c.arguments) \cup UNION {Range(b) : b \in Range(c.bundles)}
<1> DEFINE w == Len(c.words)
           ws == [i \in DOMAIN c.words |-> KeywordArgument(c.words[i])]
           ds == c.arguments
           bs == FlattenSeq(c.bundles)
<1>1. c.words \in Seq(STRING) /\ ds \in Seq(ArgumentSpec) /\ c.bundles \in Seq(Seq(ArgumentSpec))
  BY DEF CommandSpec
<1>2. w \in Nat /\ DOMAIN c.words = 1..w /\ \A i \in 1..w : c.words[i] \in STRING
  BY <1>1, LenProperties, ElementOfSeq
<1>3. \A name \in STRING : KeywordArgument(name) \in ArgumentSpec
  <2>1. <<>> \in Seq(STRING \ {""})
    BY EmptySeq
  <2> QED BY <2>1 DEF KeywordArgument, ArgumentSpec, Types
<1>4. ws \in Seq(ArgumentSpec) /\ Len(ws) = w /\ \A i \in 1..w : ws[i] = KeywordArgument(c.words[i])
  <2>1. ws \in [1..w -> ArgumentSpec] /\ \A i \in 1..w : ws[i] = KeywordArgument(c.words[i])
    BY <1>2, <1>3
  <2> HIDE DEF ws, w
  <2>2. ws \in Seq(ArgumentSpec) /\ DOMAIN ws = 1..w
    BY <1>2, <2>1, SeqDef
  <2>3. Len(ws) = w
    BY <1>2, <2>2, LenProperties
  <2> QED BY <2>1, <2>2, <2>3
<1>5. /\ bs \in Seq(ArgumentSpec)
      /\ \A x \in Range(bs) : \E i \in DOMAIN c.bundles : x \in Range(c.bundles[i])
  BY <1>1, RangeOfFlat
<1> HIDE DEF ws, ds, bs
<1>6. /\ ws \o ds \in Seq(ArgumentSpec) /\ Len(ws \o ds) = w + Len(ds)
      /\ \A i \in 1..(w + Len(ds)) : (ws \o ds)[i] = IF i <= w THEN ws[i] ELSE ds[i - w]
  <2>1. ds \in Seq(ArgumentSpec) /\ ws \in Seq(ArgumentSpec) /\ Len(ws) = w
    BY <1>1, <1>4 DEF ds
  <2> HIDE DEF w
  <2>2. /\ ws \o ds \in Seq(ArgumentSpec) /\ Len(ws \o ds) = Len(ws) + Len(ds)
        /\ \A i \in 1..(Len(ws) + Len(ds)) : (ws \o ds)[i] = IF i <= Len(ws) THEN ws[i] ELSE ds[i - Len(ws)]
    BY <2>1, ConcatProperties
  <2> QED BY <2>1, <2>2
<1>7. /\ ws \o ds \o bs \in Seq(ArgumentSpec) /\ Len(ws \o ds \o bs) = w + Len(ds) + Len(bs)
      /\ \A i \in 1..(w + Len(ds) + Len(bs)) :
            (ws \o ds \o bs)[i] = IF i <= w + Len(ds) THEN (ws \o ds)[i] ELSE bs[i - (w + Len(ds))]
  <2> DEFINE x == ws \o ds
  <2>1. x \in Seq(ArgumentSpec) /\ Len(x) = w + Len(ds)
    BY <1>6
  <2> HIDE DEF x, w
  <2>2. /\ x \o bs \in Seq(ArgumentSpec) /\ Len(x \o bs) = Len(x) + Len(bs)
        /\ \A i \in 1..(Len(x) + Len(bs)) :
              (x \o bs)[i] = IF i <= Len(x) THEN x[i] ELSE bs[i - Len(x)]
    BY <1>5, <2>1, ConcatProperties
  <2> QED BY <2>1, <2>2 DEF x
<1>8. Len(ds) \in Nat /\ Len(bs) \in Nat /\ DOMAIN ds = 1..Len(ds) /\ DOMAIN bs = 1..Len(bs)
  BY <1>1, <1>5, LenProperties DEF ds
<1>9. w \in Nat
  BY <1>2
<1>10. Len(ds) \in Nat
  BY <1>8
<1>11. Len(bs) \in Nat
  BY <1>8
<1>12. Arguments(c) = ws \o ds \o bs
  BY DEF Arguments, ws, ds, bs
<1> DEFINE args == ws \o ds \o bs
<1>13. \A i \in 1..w : args[i] = KeywordArgument(c.words[i])
  <2> HIDE DEF w
  <2>1. \A i \in 1..w : i \in 1..(w + Len(ds)) /\ i \in 1..(w + Len(ds) + Len(bs)) /\ i <= w /\ i <= w + Len(ds)
    BY <1>9, <1>10, <1>11
  <2>2. \A i \in 1..w : args[i] = (ws \o ds)[i]
    BY <1>7, <2>1
  <2> HIDE DEF args
  <2> QED BY <1>4, <1>6, <2>1, <2>2
<1>14. DOMAIN args = 1..(w + Len(ds) + Len(bs))
  <2> HIDE DEF args
  <2> QED BY <1>7, LenProperties DEF args
<1>15. ASSUME NEW i \in DOMAIN args, i > w
       PROVE  args[i] \in Range(c.arguments) \cup UNION {Range(b) : b \in Range(c.bundles)}
  <2>1. CASE i <= w + Len(ds)
    <3> DEFINE k == i - w
    <3>1. k \in 1..Len(ds) /\ args[i] = (ws \o ds)[i] /\ i \in 1..(w + Len(ds)) /\ ~ (i <= w)
      <4> HIDE DEF w
      <4>1. i \in 1..(w + Len(ds) + Len(bs)) /\ k \in 1..Len(ds) /\ i \in 1..(w + Len(ds)) /\ ~ (i <= w)
        BY <1>14, <1>15, <1>9, <1>10, <1>11, <2>1
      <4> HIDE DEF k
      <4> QED BY <1>7, <2>1, <4>1
    <3>2. args[i] = ds[k]
      BY <1>6, <3>1
    <3> HIDE DEF k, args
    <3> QED BY <1>8, <3>1, <3>2 DEF ds, Range
  <2>2. CASE i > w + Len(ds)
    <3> DEFINE k == i - (w + Len(ds))
    <3>1. k \in 1..Len(bs) /\ args[i] = bs[k]
      <4> HIDE DEF w
      <4>1. i \in 1..(w + Len(ds) + Len(bs)) /\ k \in 1..Len(bs) /\ ~ (i <= w + Len(ds))
        BY <1>14, <1>9, <1>10, <1>11, <2>2
      <4> QED BY <1>7, <4>1
    <3> HIDE DEF k, args
    <3>2. bs[k] \in Range(bs)
      BY <1>8, <3>1 DEF Range
    <3>3. PICK j \in DOMAIN c.bundles : bs[k] \in Range(c.bundles[j])
      BY <1>5, <3>2
    <3>4. c.bundles[j] \in Range(c.bundles)
      BY DEF Range
    <3> QED BY <3>1, <3>3, <3>4
  <2> HIDE DEF w, args
  <2>3. w + Len(ds) \in Nat /\ i \in Nat
    BY <1>14, <1>9, <1>10, <1>11
  <2>4. i <= w + Len(ds) \/ i > w + Len(ds)
    BY <2>3
  <2> QED BY <2>1, <2>2, <2>4
<1> HIDE DEF w
<1>16. w <= w + Len(ds) + Len(bs)
  BY <1>9, <1>10, <1>11
<1> QED BY <1>2, <1>7, <1>12, <1>13, <1>15, <1>16 DEF w

\* One more match
LEMMA Adds ==
    ASSUME NEW p \in Possibility, NEW m \in Match, NEW score \in Int
    PROVE  /\ AddPossibility(p, m, score) \in Possibility
           /\ AddPossibility(p, m, score).command = p.command
           /\ AddPossibility(p, m, score).matches = Append(p.matches, m)
           /\ AddPossibility(p, m, score).score = p.score + score + TypeScore(m.arg)
<1> DEFINE q == AddPossibility(p, m, score)
<1>1. p.matches \in Seq(Match) /\ p.score \in Int /\ p.command \in Nat
  BY DEF Possibility
<1>2. TypeScore(m.arg) \in Int
  BY DEF TypeScore
<1>3. Append(p.matches, m) \in Seq(Match)
  BY <1>1, AppendProperties
<1>4. q = [p EXCEPT !["matches"] = Append(p.matches, m),
                    !["score"] = p.score + score + TypeScore(m.arg)]
  BY DEF AddPossibility, Possibility
<1>5. q.command = p.command /\ q.matches = Append(p.matches, m) /\ q.score = p.score + score + TypeScore(m.arg)
  BY <1>4 DEF Possibility
<1>6. p.score + score + TypeScore(m.arg) \in Int
  BY <1>1, <1>2
<1>7. q \in Possibility
  BY <1>3, <1>4, <1>6 DEF Possibility
<1> HIDE DEF q
<1> QED BY <1>5, <1>7 DEF q

LEMMA MatchesAre ==
    ASSUME NEW arg \in ArgumentSpec, NEW d \in STRING
    PROVE  /\ NamedMatch(arg) \in Match /\ DataMatch(arg, d) \in Match /\ NokeyMatch(arg, d) \in Match
           /\ [DataMatch(arg, d) EXCEPT !.multiple = TRUE] \in Match
<1>1. arg.multiple \in BOOLEAN /\ NeedsData(arg.type) \in BOOLEAN
  BY DEF ArgumentSpec, NeedsData
<1>2. NamedMatch(arg) \in Match
  BY <1>1 DEF NamedMatch, Match
<1>3. DataMatch(arg, d) \in Match
  BY <1>1 DEF DataMatch, Match
<1>4. NokeyMatch(arg, d) \in Match
  BY <1>1 DEF NokeyMatch, DataMatch, Match
<1>5. [DataMatch(arg, d) EXCEPT !.multiple = TRUE] \in Match
  BY <1>1 DEF DataMatch, Match
<1> QED BY <1>2, <1>3, <1>4, <1>5

LEMMA OneElement ==
    ASSUME NEW X
    PROVE  /\ <<>> \in Seq(X) /\ Range(<<>>) = {}
           /\ \A x \in X : <<x>> \in Seq(X) /\ Range(<<x>>) = {x}
<1>1. <<>> \in Seq(X) /\ Range(<<>>) = {}
  BY EmptySeq DEF Range
<1>2. ASSUME NEW x \in X PROVE <<x>> \in Seq(X) /\ Range(<<x>>) = {x}
  <2>1. <<x>> \in Seq(X) /\ DOMAIN <<x>> = {1} /\ <<x>>[1] = x
    OBVIOUS
  <2> QED BY <2>1 DEF Range
<1> QED BY <1>1, <1>2

LEMMA NamedIs ==
    ASSUME NEW p \in Possibility, NEW args \in Seq(ArgumentSpec), NEW tok \in Token, NEW n \in Nat,
           NEW i \in DOMAIN args
    PROVE  /\ Named(p, args, tok, n, i) \in Seq(Possibility)
           /\ \A q : q \in Range(Named(p, args, tok, n, i)) <=>
                 Fits(p, args, tok, i) /\
                 q = AddPossibility(p, NamedMatch(args[i]), NameScore(args[i], tok, i = n))
<1> DEFINE q0 == AddPossibility(p, NamedMatch(args[i]), NameScore(args[i], tok, i = n))
           s == Named(p, args, tok, n, i)
<1>1. args[i] \in ArgumentSpec /\ tok \in STRING
  BY LenProperties, ElementOfSeq, ParserAssumption
<1>2. NameScore(args[i], tok, i = n) \in Int
  BY DEF NameScore
<1>3. NamedMatch(args[i]) \in Match
  BY <1>1, MatchesAre
<1>4. q0 \in Possibility
  BY <1>2, <1>3, Adds
<1> HIDE DEF q0
<1>5. s = IF Fits(p, args, tok, i) THEN <<q0>> ELSE <<>>
  BY DEF Named, q0
<1> HIDE DEF s
<1>6. s \in Seq(Possibility) /\ \A q : q \in Range(s) <=> Fits(p, args, tok, i) /\ q = q0
  BY <1>4, <1>5, OneElement
<1> QED BY <1>6 DEF q0, s

PlainFits(p, args, tok, i) ==
    /\ args[i].nokeyword /\ args[i].name \notin Seen(p)
    /\ \A j \in 1..i : ~ Fits(p, args, tok, j)
    /\ ~ MissingPreviousNokeywords(p, args, i)

LEMMA PlainIs ==
    ASSUME NEW p \in Possibility, NEW args \in Seq(ArgumentSpec), NEW tok \in Token,
           NEW i \in DOMAIN args
    PROVE  /\ Plain(p, args, tok, i) \in Seq(Possibility)
           /\ \A q : q \in Range(Plain(p, args, tok, i)) <=>
                 PlainFits(p, args, tok, i) /\ q = AddPossibility(p, NokeyMatch(args[i], tok), 2)
<1> DEFINE q0 == AddPossibility(p, NokeyMatch(args[i], tok), 2)
           s == Plain(p, args, tok, i)
<1>1. args[i] \in ArgumentSpec /\ tok \in STRING
  BY LenProperties, ElementOfSeq, ParserAssumption
<1>2. NokeyMatch(args[i], tok) \in Match
  BY <1>1, MatchesAre
<1>3. q0 \in Possibility
  BY <1>2, Adds
<1> HIDE DEF q0
<1>4. s = IF PlainFits(p, args, tok, i) THEN <<q0>> ELSE <<>>
  BY DEF Plain, PlainFits, q0
<1> HIDE DEF s
<1>5. s \in Seq(Possibility) /\ \A q : q \in Range(s) <=> PlainFits(p, args, tok, i) /\ q = q0
  BY <1>3, <1>4, OneElement
<1> QED BY <1>5 DEF q0, s

MoreMatch(p, tok) == [DataMatch(LastOf(p).arg, tok) EXCEPT !.multiple = TRUE]

LEMMA LastIs ==
    ASSUME NEW p \in Possibility, p.matches # <<>>
    PROVE  LastOf(p) \in Match /\ LastOf(p).arg \in ArgumentSpec /\ Len(p.matches) \in Nat \ {0}
<1>1. p.matches \in Seq(Match)
  BY DEF Possibility
<1>2. Len(p.matches) \in Nat \ {0}
  BY <1>1, EmptySeq
<1>3. LastOf(p) \in Match
  BY <1>1, <1>2, ElementOfSeq DEF LastOf
<1> QED BY <1>2, <1>3 DEF Match

LEMMA MoreIs ==
    ASSUME NEW p \in Possibility, NEW tok \in Token
    PROVE  /\ More(p, tok) \in Seq(Possibility)
           /\ \A q : q \in Range(More(p, tok)) <=>
                 /\ p.matches # <<>> /\ LastOf(p).multiple
                 /\ q = AddPossibility(p, MoreMatch(p, tok), 0)
<1> DEFINE q0 == AddPossibility(p, MoreMatch(p, tok), 0)
           s == More(p, tok)
           fits == p.matches # <<>> /\ LastOf(p).multiple
<1>1. fits => q0 \in Possibility
  <2> SUFFICES ASSUME p.matches # <<>> PROVE q0 \in Possibility
    OBVIOUS
  <2>1. LastOf(p).arg \in ArgumentSpec /\ tok \in STRING
    BY LastIs, ParserAssumption
  <2>2. MoreMatch(p, tok) \in Match
    BY <2>1, MatchesAre DEF MoreMatch
  <2> QED BY <2>2, Adds
<1> HIDE DEF q0
<1>2. s = IF fits THEN <<q0>> ELSE <<>>
  BY DEF More, MoreMatch, q0
<1> HIDE DEF s
<1>3. s \in Seq(Possibility) /\ \A q : q \in Range(s) <=> fits /\ q = q0
  BY <1>1, <1>2, OneElement
<1> QED BY <1>3 DEF q0, s

\* What a word makes of a reading whose last argument waits for its value,
ValueOf(p, q, tok) ==
    LET arg == LastOf(p).arg
    IN  \/ arg.enums = <<>> /\ q = AddPossibility(p, DataMatch(arg, tok), 5)
        \/ /\ arg.enums # <<>>
           /\ \E e \in Range(arg.enums) : /\ e \in Abbreviates[tok]
                                          /\ q = AddPossibility(p, DataMatch(arg, e), 8)

LEMMA ValuedIs ==
    ASSUME NEW p \in Possibility, NEW tok \in Token, p.matches # <<>>
    PROVE  /\ Valued(p, tok) \in Seq(Possibility)
           /\ \A q : q \in Range(Valued(p, tok)) <=> ValueOf(p, q, tok)
<1> DEFINE arg == LastOf(p).arg
           q0 == AddPossibility(p, DataMatch(arg, tok), 5)
           add(e) == AddPossibility(p, DataMatch(arg, e), 8)
<1>1. arg \in ArgumentSpec /\ tok \in STRING /\ arg.enums \in Seq(STRING \ {""})
  BY LastIs, ParserAssumption DEF ArgumentSpec
<1>2. q0 \in Possibility /\ \A e \in STRING : add(e) \in Possibility
  <2> HIDE DEF arg
  <2>1. ASSUME NEW e \in STRING, NEW score \in Int
        PROVE  AddPossibility(p, DataMatch(arg, e), score) \in Possibility
    <3>1. DataMatch(arg, e) \in Match
      BY <1>1, MatchesAre
    <3> QED BY <3>1, Adds
  <2>2. tok \in STRING
    BY ParserAssumption
  <2>3. q0 \in Possibility
    BY <2>1, <2>2
  <2>4. \A e \in STRING : add(e) \in Possibility
    BY <2>1
  <2> QED BY <2>3, <2>4
<1>3. CASE arg.enums = <<>>
  <2>1. Valued(p, tok) = <<q0>>
    BY <1>3 DEF Valued
  <2>2. \A q : ValueOf(p, q, tok) <=> q = q0
    BY <1>3 DEF ValueOf
  <2> HIDE DEF q0
  <2> QED BY <1>2, <2>1, <2>2, OneElement
<1>4. CASE arg.enums # <<>>
  <2> DEFINE ens == arg.enums
             one(k) == IF ens[k] \in Abbreviates[tok] THEN <<add(ens[k])>> ELSE <<>>
             ss == [k \in DOMAIN ens |-> one(k)]
  <2>1. ens \in Seq(STRING) /\ DOMAIN ens = 1..Len(ens) /\ Len(ens) \in Nat /\ \A k \in DOMAIN ens : ens[k] \in STRING
    <3>1. ens \in Seq(STRING)
      BY <1>1, SeqMonotonic
    <3> HIDE DEF ens
    <3> QED BY <3>1, LenProperties, ElementOfSeq
  <2>2. Valued(p, tok) = FlattenSeq(ss)
    BY <1>4 DEF Valued
  <2> HIDE DEF add
  <2>3. \A k \in DOMAIN ens : /\ one(k) \in Seq(Possibility)
                              /\ \A q : q \in Range(one(k)) <=> ens[k] \in Abbreviates[tok] /\ q = add(ens[k])
    BY <1>2, <2>1, OneElement
  <2> HIDE DEF ens, one
  <2>4. ss \in Seq(Seq(Possibility)) /\ DOMAIN ss = DOMAIN ens /\ \A k \in DOMAIN ens : ss[k] = one(k)
    <3>1. ss \in [1..Len(ens) -> Seq(Possibility)]
      BY <2>1, <2>3
    <3> HIDE DEF ss
    <3>2. ss \in Seq(Seq(Possibility))
      BY <2>1, <3>1, SeqDef
    <3> QED BY <2>1, <3>2 DEF ss
  <2> HIDE DEF ss
  <2>5. /\ FlattenSeq(ss) \in Seq(Possibility)
        /\ \A q \in Range(FlattenSeq(ss)) : \E k \in DOMAIN ss : q \in Range(ss[k])
        /\ \A k \in DOMAIN ss : \A q \in Range(ss[k]) : q \in Range(FlattenSeq(ss))
    BY <2>4, RangeOfFlat
  <2>6. \A q : q \in Range(FlattenSeq(ss)) <=>
                  \E k \in DOMAIN ens : ens[k] \in Abbreviates[tok] /\ q = add(ens[k])
    BY <2>3, <2>4, <2>5
  <2>7. \A q : ValueOf(p, q, tok) <=>
                  \E e \in Range(ens) : e \in Abbreviates[tok] /\ q = add(e)
    BY <1>4 DEF ValueOf, add, ens
  <2>8. Range(ens) = {ens[k] : k \in DOMAIN ens}
    BY DEF Range
  <2> QED BY <2>2, <2>5, <2>6, <2>7, <2>8
<1> QED BY <1>3, <1>4

\* and what it makes of any other, by its i-th argument or in all.
ArgumentGives(p, q, args, tok, n, i) ==
    \/ /\ Fits(p, args, tok, i)
       /\ q = AddPossibility(p, NamedMatch(args[i]), NameScore(args[i], tok, i = n))
    \/ PlainFits(p, args, tok, i) /\ q = AddPossibility(p, NokeyMatch(args[i], tok), 2)

OtherOf(p, q, args, tok, n) ==
    \/ \E i \in DOMAIN args : ArgumentGives(p, q, args, tok, n, i)
    \/ /\ p.matches # <<>> /\ LastOf(p).multiple
       /\ q = AddPossibility(p, MoreMatch(p, tok), 0)

ByArgument(p, args, tok, n) ==
    [i \in DOMAIN args |-> Named(p, args, tok, n, i) \o Plain(p, args, tok, i)]

LEMMA ByArgumentIs ==
    ASSUME NEW p \in Possibility, NEW args \in Seq(ArgumentSpec), NEW tok \in Token, NEW n \in Nat
    PROVE  /\ ByArgument(p, args, tok, n) \in Seq(Seq(Possibility))
           /\ DOMAIN ByArgument(p, args, tok, n) = DOMAIN args
           /\ \A i \in DOMAIN args : \A q :
                 q \in Range(ByArgument(p, args, tok, n)[i]) <=> ArgumentGives(p, q, args, tok, n, i)
<1> DEFINE ss == ByArgument(p, args, tok, n)
           one(i) == Named(p, args, tok, n, i) \o Plain(p, args, tok, i)
<1>1. DOMAIN args = 1..Len(args) /\ Len(args) \in Nat
  BY LenProperties
<1>2. ASSUME NEW i \in DOMAIN args
      PROVE  /\ one(i) \in Seq(Possibility)
             /\ Range(one(i)) = Range(Named(p, args, tok, n, i)) \cup Range(Plain(p, args, tok, i))
  <2> DEFINE s == Named(p, args, tok, n, i)
             t == Plain(p, args, tok, i)
  <2>1. s \in Seq(Possibility) /\ t \in Seq(Possibility)
    BY NamedIs, PlainIs
  <2>2. one(i) = s \o t
    OBVIOUS
  <2> HIDE DEF s, t, one
  <2>3. one(i) \in Seq(Possibility) /\ Range(one(i)) = Range(s) \cup Range(t)
    BY <2>1, <2>2, ConcatProperties, RangeConcatenation
  <2> QED BY <2>3 DEF s, t
<1>3. ss = [i \in DOMAIN args |-> one(i)]
  BY DEF ByArgument
<1> HIDE DEF one, ss
<1>4. ss \in [1..Len(args) -> Seq(Possibility)] /\ \A i \in DOMAIN args : ss[i] = one(i)
  BY <1>1, <1>2, <1>3
<1>5. ss \in Seq(Seq(Possibility)) /\ DOMAIN ss = DOMAIN args
  BY <1>1, <1>4, SeqDef
<1>6. ASSUME NEW i \in DOMAIN args, NEW q
      PROVE  q \in Range(ss[i]) <=> ArgumentGives(p, q, args, tok, n, i)
  <2>1. q \in Range(ss[i]) <=> q \in Range(Named(p, args, tok, n, i)) \/ q \in Range(Plain(p, args, tok, i))
    BY <1>2, <1>4
  <2>2. q \in Range(Named(p, args, tok, n, i)) <=>
           Fits(p, args, tok, i) /\
           q = AddPossibility(p, NamedMatch(args[i]), NameScore(args[i], tok, i = n))
    BY NamedIs
  <2>3. q \in Range(Plain(p, args, tok, i)) <=>
           PlainFits(p, args, tok, i) /\ q = AddPossibility(p, NokeyMatch(args[i], tok), 2)
    BY PlainIs
  <2> QED BY <2>1, <2>2, <2>3 DEF ArgumentGives
<1> QED BY <1>5, <1>6 DEF ss

LEMMA NewIs ==
    ASSUME NEW p \in Possibility, NEW tok \in Token, NEW n \in Nat,
           Arguments(commands[p.command]) \in Seq(ArgumentSpec)
    PROVE  /\ NewPossibilities(p, tok, n) \in Seq(Possibility)
           /\ \A q : q \in Range(NewPossibilities(p, tok, n)) <=>
                 IF Waiting(p) THEN ValueOf(p, q, tok)
                 ELSE OtherOf(p, q, Arguments(commands[p.command]), tok, n)
<1> DEFINE new == NewPossibilities(p, tok, n)
           args == Arguments(commands[p.command])
           ss == ByArgument(p, args, tok, n)
           F == FlattenSeq(ss)
           M == More(p, tok)
<1>1. CASE Waiting(p)
  <2>1. new = Valued(p, tok) /\ p.matches # <<>>
    BY <1>1 DEF NewPossibilities, Waiting
  <2>2. Valued(p, tok) \in Seq(Possibility) /\ \A q : q \in Range(Valued(p, tok)) <=> ValueOf(p, q, tok)
    BY <2>1, ValuedIs
  <2> HIDE DEF new
  <2>3. new \in Seq(Possibility) /\ \A q : q \in Range(new) <=> ValueOf(p, q, tok)
    BY <2>1, <2>2
  <2> QED BY <1>1, <2>3 DEF new
<1>2. CASE ~ Waiting(p)
  <2>1. new = F \o M
    BY <1>2 DEF NewPossibilities, ByArgument
  <2>2. args \in Seq(ArgumentSpec)
    OBVIOUS
  <2> HIDE DEF args, new, F, M
  <2>3. /\ ss \in Seq(Seq(Possibility)) /\ DOMAIN ss = DOMAIN args
        /\ \A i \in DOMAIN args : \A q : q \in Range(ss[i]) <=> ArgumentGives(p, q, args, tok, n, i)
    BY ONLY <2>2, p \in Possibility, tok \in Token, n \in Nat, ByArgumentIs DEF ss
  <2> HIDE DEF ss
  <2>4. /\ F \in Seq(Possibility)
        /\ \A q \in Range(F) : \E i \in DOMAIN ss : q \in Range(ss[i])
        /\ \A i \in DOMAIN ss : \A q \in Range(ss[i]) : q \in Range(F)
    BY <2>3, RangeOfFlat DEF F
  <2>5. /\ M \in Seq(Possibility)
        /\ \A q : q \in Range(M) <=> /\ p.matches # <<>> /\ LastOf(p).multiple
                                     /\ q = AddPossibility(p, MoreMatch(p, tok), 0)
    BY MoreIs DEF M
  <2>6. new \in Seq(Possibility) /\ \A q : q \in Range(new) <=> q \in Range(F) \/ q \in Range(M)
    BY <2>1, <2>4, <2>5, ConcatProperties, RangeConcatenation
  <2>7. \A q : q \in Range(F) <=> \E i \in DOMAIN args : q \in Range(ss[i])
    BY <2>3, <2>4
  <2>8. \A q : q \in Range(F) <=> \E i \in DOMAIN args : ArgumentGives(p, q, args, tok, n, i)
    BY <2>3, <2>7
  <2>9. \A q : q \in Range(new) <=> OtherOf(p, q, args, tok, n)
    BY <2>5, <2>6, <2>8 DEF OtherOf
  <2> QED BY <1>2, <2>6, <2>9 DEF new, args
<1> QED BY <1>1, <1>2

\* Every one of them has one word more, of an argument of the same command.
LEMMA NewGrow ==
    ASSUME NEW p \in Possibility, NEW tok \in Token, NEW n \in Nat,
           Arguments(commands[p.command]) \in Seq(ArgumentSpec),
           NEW q \in Range(NewPossibilities(p, tok, n))
    PROVE  /\ q.command = p.command
           /\ \E m \in Match : q.matches = Append(p.matches, m)
<1> DEFINE args == Arguments(commands[p.command])
<1>1. \A i \in DOMAIN args : args[i] \in ArgumentSpec
  BY LenProperties, ElementOfSeq
<1>2. tok \in STRING
  BY ParserAssumption
<1>3. \E m \in Match, score \in Int : q = AddPossibility(p, m, score)
  <2>1. CASE Waiting(p)
    <3> DEFINE arg == LastOf(p).arg
    <3>1. ValueOf(p, q, tok) /\ p.matches # <<>>
      BY <2>1, NewIs DEF Waiting
    <3>2. arg \in ArgumentSpec /\ arg.enums \in Seq(STRING \ {""})
      BY <3>1, LastIs DEF ArgumentSpec
    <3>3. \A e \in Range(arg.enums) : e \in STRING
      <4> DEFINE ens == arg.enums
      <4>1. ens \in Seq(STRING \ {""})
        BY <3>2
      <4> HIDE DEF ens
      <4>2. \A e \in Range(ens) : e \in STRING
        BY <4>1, RangeOfSeq
      <4> QED BY <4>2 DEF ens
    <3>4. \A e \in STRING : DataMatch(arg, e) \in Match
      BY <3>2, MatchesAre
    <3>5. \E e \in STRING, score \in {5, 8} : q = AddPossibility(p, DataMatch(arg, e), score)
      BY <1>2, <3>1, <3>3 DEF ValueOf
    <3>6. 5 \in Int /\ 8 \in Int
      OBVIOUS
    <3> QED BY <3>4, <3>5, <3>6
  <2>2. CASE ~ Waiting(p)
    <3>1. OtherOf(p, q, args, tok, n)
      BY <2>2, NewIs
    <3>2. \A i \in DOMAIN args : NamedMatch(args[i]) \in Match /\ NokeyMatch(args[i], tok) \in Match
      BY <1>1, <1>2, MatchesAre
    <3>3. \A i \in DOMAIN args : NameScore(args[i], tok, i = n) \in Int
      BY DEF NameScore
    <3>4. p.matches # <<>> => MoreMatch(p, tok) \in Match
      BY <1>2, LastIs, MatchesAre DEF MoreMatch
    <3>5. 0 \in Int /\ 2 \in Int
      OBVIOUS
    <3> HIDE DEF args
    <3> QED BY <3>1, <3>2, <3>3, <3>4, <3>5 DEF OtherOf, ArgumentGives
  <2> QED BY <2>1, <2>2
<1>4. PICK m \in Match, score \in Int : q = AddPossibility(p, m, score)
  BY <1>3
<1> QED BY <1>4, Adds

-----------------------------------------------------------------------------
(* What postProcess keeps *)

CommandsKnown == commands \in CommandSets

LEMMA CommandsAre ==
    ASSUME CommandsKnown
    PROVE  /\ commands \in Seq(CommandSpec) /\ DOMAIN commands = 1..Len(commands) /\ Len(commands) \in Nat
           /\ \A c \in DOMAIN commands : commands[c] \in CommandSpec
                                         /\ Arguments(commands[c]) \in Seq(ArgumentSpec)
<1>1. commands \in Seq(CommandSpec)
  BY ParserAssumption DEF CommandsKnown
<1>2. DOMAIN commands = 1..Len(commands) /\ Len(commands) \in Nat
  BY <1>1, LenProperties
<1>3. \A c \in DOMAIN commands : commands[c] \in CommandSpec
  BY <1>1, <1>2, ElementOfSeq
<1> QED BY <1>1, <1>2, <1>3, ArgumentsAre

\* The keywords that a reading lacks
Lacks(p) ==
    LET args == Arguments(commands[p.command])
    IN  {i \in DOMAIN args : args[i].type = "keyword" /\ args[i].name \notin Seen(p)}

LEMMA PenalisedIs ==
    ASSUME CommandsKnown, NEW p \in Possibility, p.command \in DOMAIN commands
    PROVE  /\ Penalised(p) \in Possibility
           /\ Penalised(p).command = p.command /\ Penalised(p).matches = p.matches
           /\ Penalised(p).score = p.score - 5 * Cardinality(Lacks(p))
           /\ Cardinality(Lacks(p)) \in Nat /\ (Cardinality(Lacks(p)) = 0 <=> Lacks(p) = {})
<1> DEFINE args == Arguments(commands[p.command])
<1>1. args \in Seq(ArgumentSpec)
  BY CommandsAre
<1>2. IsFiniteSet(DOMAIN args)
  <2> HIDE DEF args
  <2>1. DOMAIN args = 1..Len(args) /\ Len(args) \in Nat
    BY <1>1, LenProperties
  <2> QED BY <2>1, FS_Interval
<1>3. Lacks(p) \subseteq DOMAIN args
  BY DEF Lacks
<1>4. IsFiniteSet(Lacks(p))
  BY <1>2, <1>3, FS_Subset
<1>5. Cardinality(Lacks(p)) \in Nat /\ (Cardinality(Lacks(p)) = 0 <=> Lacks(p) = {})
  BY <1>4, FS_CardinalityType, FS_EmptySet
<1>6. Penalised(p) = [p EXCEPT !["score"] = p.score - 5 * Cardinality(Lacks(p))]
  BY DEF Penalised, Lacks, Possibility
<1>7. p.score \in Int
  BY DEF Possibility
<1> DEFINE k == Cardinality(Lacks(p))
<1>8. p.score - 5 * k \in Int
  BY <1>5, <1>7
<1> HIDE DEF k
<1>9. Penalised(p) = [p EXCEPT !["score"] = p.score - 5 * k]
  BY <1>6 DEF k
<1>10. /\ Penalised(p) \in Possibility
       /\ Penalised(p).command = p.command /\ Penalised(p).matches = p.matches
       /\ Penalised(p).score = p.score - 5 * k
  BY <1>8, <1>9 DEF Possibility
<1> QED BY <1>5, <1>10 DEF k

\* The beginnings of the list that is kept
KeptWith(kept, p) ==
    IF AllNokeyword(p) \/ AlreadySeen(kept, p) THEN kept ELSE Append(kept, Penalised(p))

OfCommand == {p \in Possibility : p.command \in DOMAIN commands}

LEMMA PostSteps ==
    ASSUME CommandsKnown, NEW s \in Seq(OfCommand)
    PROVE  \E f \in [0..Len(s) -> Seq(OfCommand)] :
              /\ f[0] = <<>> /\ f[Len(s)] = PostProcess(s)
              /\ \A k \in 1..Len(s) : f[k] = KeptWith(f[k - 1], s[k])
<1> DEFINE n == Len(s)
           X == OfCommand
           G == [k \in 1..n |-> [t \in Seq(X) |-> KeptWith(t, s[k])]]
           Def(g) == [u \in SUBSET (DOMAIN s) |->
                        IF u = {} THEN <<>> ELSE KeptWith(g[u \ {Max(u)}], s[Max(u)])]
           F == CHOOSE g : g = Def(g)
<1>1. n \in Nat /\ DOMAIN s = 1..n /\ \A k \in 1..n : s[k] \in X
  BY LenProperties, ElementOfSeq
<1>2. ASSUME NEW t \in Seq(X), NEW p \in X PROVE KeptWith(t, p) \in Seq(X)
  <2>1. Penalised(p) \in X
    BY PenalisedIs DEF OfCommand
  <2>2. Append(t, Penalised(p)) \in Seq(X)
    BY <2>1, AppendProperties
  <2> QED BY <2>2 DEF KeptWith
<1>3. PostProcess(s) = F[DOMAIN s]
  BY DEF PostProcess, FoldLeft, MapThenFoldSet, KeptWith
<1> HIDE DEF X
<1>4. F = Def(F)
  <2>1. G \in [1..n -> [Seq(X) -> Seq(X)]] /\ <<>> \in Seq(X)
    BY <1>1, <1>2
  <2>2. PICK g \in [SUBSET (1..n) -> Seq(X)] : Iterates(g, n, <<>>, G)
    <3> DEFINE Typ == Seq(X)
               base == <<>>
    <3>1. n \in Nat /\ base \in Typ /\ G \in [1..n -> [Typ -> Typ]]
      BY <1>1, <2>1
    <3> HIDE DEF G, n, Typ, base
    <3>2. \E g \in [SUBSET (1..n) -> Typ] : Iterates(g, n, base, G)
      BY <3>1, IterExists
    <3> QED BY <3>2 DEF Typ, base
  <2>3. ASSUME NEW u \in SUBSET (1..n), u # {}
        PROVE  G[Max(u)][g[u \ {Max(u)}]] = KeptWith(g[u \ {Max(u)}], s[Max(u)])
    <3>1. Max(u) \in 1..n
      <4> HIDE DEF n
      <4> QED BY <1>1, <2>3, MaxOf
    <3>2. g[u \ {Max(u)}] \in Seq(X)
      OBVIOUS
    <3> QED BY <3>1, <3>2
  <2>4. g = Def(g)
    BY <1>1, <2>2, <2>3 DEF Iterates
  <2> HIDE DEF Def
  <2> QED BY <2>4
<1> HIDE DEF G, F
<1> DEFINE f == [k \in 0..n |-> F[1..k]]
<1>5. f[0] = <<>>
  <2>1. 1..0 = {} /\ {} \in SUBSET (DOMAIN s) /\ 0 \in 0..n
    BY <1>1
  <2>2. F[{}] = <<>>
    BY <1>4, <2>1
  <2> QED BY <2>1, <2>2
<1>6. ASSUME NEW k \in 1..n PROVE f[k] = KeptWith(f[k - 1], s[k])
  <2>1. f[k] = F[1..k] /\ f[k - 1] = F[1..(k - 1)]
    BY <1>1
  <2>2. /\ (1..k) \in SUBSET (DOMAIN s) /\ (1..k) # {} /\ Max(1..k) = k
        /\ (1..k) \ {k} = 1..(k - 1)
    <3> HIDE DEF n
    <3> QED BY <1>1, Segment
  <2> HIDE DEF f
  <2> QED BY <1>4, <2>1, <2>2
<1> HIDE DEF f
<1>7. \A k \in 0..n : f[k] \in Seq(X)
  <2> DEFINE T == {k \in 0..n : f[k] \in Seq(X)}
  <2>1. 0 \in T
    <3>1. 0 \in 0..n /\ f[0] \in Seq(X)
      BY <1>1, <1>5, EmptySeq
    <3> QED BY <3>1
  <2>2. ASSUME NEW k \in 1..n, k - 1 \in T PROVE k \in T
    <3>1. f[k - 1] \in Seq(X) /\ s[k] \in X
      BY <1>1, <2>2
    <3>2. f[k] \in Seq(X)
      BY <1>2, <1>6, <3>1
    <3> QED BY <3>2
  <2> HIDE DEF T, n
  <2>3. \A k \in 0..n : k \in T
    BY <1>1, <2>1, <2>2, UpTo
  <2> QED BY <2>3 DEF T
<1>8. f \in [0..n -> Seq(X)] /\ f[n] = PostProcess(s)
  <2>1. f = [k \in 0..n |-> f[k]] /\ f[n] = F[1..n] /\ n \in 0..n
    BY <1>1 DEF f
  <2> QED BY <1>1, <1>3, <1>7, <2>1
<1> QED BY <1>5, <1>6, <1>8 DEF X

LEMMA DataOfMatches ==
    ASSUME NEW p, NEW q, p.matches = q.matches
    PROVE  Data(p) = Data(q)
BY DEF Data, Seen

LEMMA DataIsFunction == \A p : Data(p) = [name \in DOMAIN Data(p) |-> Data(p)[name]]
BY DEF Data

LEMMA SameContents ==
    ASSUME NEW p, NEW q
    PROVE  /\ Data(p) = Data(q) => ContentsAreEqual(p, q)
           /\ ContentsAreEqual(p, p)
<1> DEFINE d == Data(p)
<1>1. d = [name \in DOMAIN d |-> d[name]]
  BY DataIsFunction
<1> HIDE DEF d
<1>2. Restrict(d, DOMAIN d \cap DOMAIN d) = d
  BY <1>1 DEF Restrict
<1>3. ContentsAreEqual(p, p)
  BY <1>2 DEF ContentsAreEqual, d
<1>4. Data(p) = Data(q) => ContentsAreEqual(p, q)
  BY <1>2 DEF ContentsAreEqual, d
<1> QED BY <1>3, <1>4

\* The first k readings of s are stood for by what is kept of them, and the first of each
\* command is kept itself.
StandFor(kept, s, k) ==
    /\ \A i, j \in DOMAIN kept : i # j => kept[i].command # kept[j].command
                                          \/ Data(kept[i]) # Data(kept[j])
    /\ \A m \in 1..k : AllNokeyword(s[m]) \/ \E q \in Range(kept) :
                          q.command = s[m].command /\ ContentsAreEqual(s[m], q)
    /\ \A q \in Range(kept) : \E m \in 1..k : q = Penalised(s[m])
    /\ \A m \in 1..k : \/ AllNokeyword(s[m]) \/ \E j \in 1..(m - 1) : s[j].command = s[m].command
                       \/ Penalised(s[m]) \in Range(kept)

LEMMA StandForStep ==
    ASSUME CommandsKnown, NEW s \in Seq(OfCommand), NEW k \in 1..Len(s),
           NEW kept \in Seq(OfCommand), StandFor(kept, s, k - 1)
    PROVE  StandFor(KeptWith(kept, s[k]), s, k)
<1> DEFINE p == s[k]
<1>1. /\ k \in Nat /\ Len(s) \in Nat /\ p \in OfCommand /\ DOMAIN kept = 1..Len(kept) /\ Len(kept) \in Nat
  BY ElementOfSeq, LenProperties
<1>2. \A m \in 1..k : m \in 1..(k - 1) \/ m = k
  BY <1>1
<1>5. \A j \in 1..(k - 1) : j \in 1..k
  BY <1>1
<1>6. \A q \in Range(kept) : \E j \in 1..(k - 1) : q = Penalised(s[j])
  BY DEF StandFor
<1>7. \A j \in 1..k : Penalised(s[j]).command = s[j].command
  <2>1. ASSUME NEW j \in 1..k PROVE s[j] \in OfCommand
    <3>1. j \in 1..Len(s)
      BY <1>1
    <3> QED BY <3>1, ElementOfSeq
  <2> QED BY <2>1, PenalisedIs DEF OfCommand
<1>3. CASE AllNokeyword(p) \/ AlreadySeen(kept, p)
  <2>1. KeptWith(kept, p) = kept
    BY <1>3 DEF KeptWith
  <2>2. AllNokeyword(p) \/ \E q \in Range(kept) : q.command = p.command /\ ContentsAreEqual(p, q)
    <3>1. AlreadySeen(kept, p) => \E q \in Range(kept) : q.command = p.command /\ ContentsAreEqual(p, q)
      BY DEF AlreadySeen, Range
    <3> QED BY <1>3, <3>1
  <2>4. \A q \in Range(kept) : \E m \in 1..k : q = Penalised(s[m])
    BY <1>5, <1>6
  <2>5. ASSUME AlreadySeen(kept, p) PROVE \E j \in 1..(k - 1) : s[j].command = p.command
    <3>1. PICK i \in DOMAIN kept : kept[i].command = p.command
      BY <2>5 DEF AlreadySeen
    <3>2. kept[i] \in Range(kept)
      BY DEF Range
    <3>3. PICK j \in 1..(k - 1) : kept[i] = Penalised(s[j])
      BY <1>6, <3>2
    <3>4. kept[i].command = s[j].command
      BY <1>5, <1>7, <3>3
    <3> QED BY <3>1, <3>4
  <2>6. ASSUME NEW m \in 1..k
        PROVE  \/ AllNokeyword(s[m]) \/ \E j \in 1..(m - 1) : s[j].command = s[m].command
               \/ Penalised(s[m]) \in Range(kept)
    <3>1. CASE m \in 1..(k - 1)
      BY <3>1 DEF StandFor
    <3>2. CASE m = k
      BY <1>3, <2>5, <3>2
    <3> QED BY <1>2, <3>1, <3>2
  <2>3. StandFor(kept, s, k)
    <3>1. \A m \in 1..k : AllNokeyword(s[m]) \/ \E q \in Range(kept) :
                          q.command = s[m].command /\ ContentsAreEqual(s[m], q)
      <4> HIDE DEF p
      <4> QED BY <1>2, <2>2 DEF StandFor, p
    <3>2. \A i, j \in DOMAIN kept : i # j => kept[i].command # kept[j].command
                                          \/ Data(kept[i]) # Data(kept[j])
      BY DEF StandFor
    <3> QED BY <2>4, <2>6, <3>1, <3>2 DEF StandFor
  <2> QED BY <2>1, <2>3
<1>4. CASE ~ (AllNokeyword(p) \/ AlreadySeen(kept, p))
  <2> DEFINE new == Append(kept, Penalised(p))
  <2>1. KeptWith(kept, p) = new
    BY <1>4 DEF KeptWith
  <2>2. /\ Penalised(p) \in OfCommand /\ Penalised(p).command = p.command
        /\ Penalised(p).matches = p.matches
    BY <1>1, PenalisedIs DEF OfCommand
  <2>3. Data(Penalised(p)) = Data(p)
    BY <2>2, DataOfMatches
  <2>4. /\ new \in Seq(OfCommand) /\ DOMAIN new = 1..(Len(kept) + 1)
        /\ new[Len(kept) + 1] = Penalised(p) /\ \A i \in 1..Len(kept) : new[i] = kept[i]
    <3>1. /\ new \in Seq(OfCommand) /\ Len(new) = Len(kept) + 1
          /\ new[Len(kept) + 1] = Penalised(p) /\ \A i \in 1..Len(kept) : new[i] = kept[i]
      BY <2>2, AppendProperties
    <3> HIDE DEF new
    <3> QED BY <3>1, LenProperties
  <2> HIDE DEF new
  <2>5. \A i \in DOMAIN new : (i \in DOMAIN kept /\ new[i] = kept[i]) \/ (i = Len(kept) + 1 /\ new[i] = Penalised(p))
    BY <1>1, <2>4
  <2>6. \A i \in DOMAIN kept : kept[i].command # p.command \/ Data(kept[i]) # Data(p)
    <3>1. ASSUME NEW i \in DOMAIN kept, Data(kept[i]) = Data(p)
          PROVE  ContentsAreEqual(p, kept[i])
      BY <3>1, SameContents
    <3> QED BY <1>4, <3>1 DEF AlreadySeen
  <2>7. ASSUME NEW i \in DOMAIN new, NEW j \in DOMAIN new, i # j
        PROVE  new[i].command # new[j].command \/ Data(new[i]) # Data(new[j])
    <3>1. CASE (i \in DOMAIN kept /\ new[i] = kept[i]) /\ (j \in DOMAIN kept /\ new[j] = kept[j])
      BY <2>7, <3>1 DEF StandFor
    <3>2. CASE (i \in DOMAIN kept /\ new[i] = kept[i]) /\ new[j] = Penalised(p)
      BY <2>2, <2>3, <2>6, <3>2
    <3>3. CASE new[i] = Penalised(p) /\ (j \in DOMAIN kept /\ new[j] = kept[j])
      BY <2>2, <2>3, <2>6, <3>3
    <3> QED BY <2>5, <2>7, <3>1, <3>2, <3>3
  <2>8. Range(kept) \subseteq Range(new) /\ Penalised(p) \in Range(new)
    <3>1. \A i \in DOMAIN kept : i \in DOMAIN new /\ new[i] = kept[i]
      BY <1>1, <2>4
    <3>2. Len(kept) + 1 \in DOMAIN new
      BY <1>1, <2>4
    <3> QED BY <2>4, <3>1, <3>2 DEF Range
  <2>9. ContentsAreEqual(p, Penalised(p))
    BY <2>3, SameContents
  <2>10. ASSUME NEW m \in 1..k
         PROVE  AllNokeyword(s[m]) \/ \E q \in Range(new) :
                    q.command = s[m].command /\ ContentsAreEqual(s[m], q)
    <3>1. CASE m \in 1..(k - 1)
      BY <2>8, <3>1 DEF StandFor
    <3>2. CASE m = k
      BY <2>2, <2>8, <2>9, <3>2
    <3> QED BY <1>2, <3>1, <3>2
  <2>12. \A q \in Range(new) : \E m \in 1..k : q = Penalised(s[m])
    <3>1. \A q \in Range(new) : q \in Range(kept) \/ q = Penalised(p)
      BY <2>5 DEF Range
    <3>2. k \in 1..k
      BY <1>1
    <3> QED BY <1>5, <1>6, <3>1, <3>2
  <2>13. ASSUME NEW m \in 1..k
         PROVE  \/ AllNokeyword(s[m]) \/ \E j \in 1..(m - 1) : s[j].command = s[m].command
                \/ Penalised(s[m]) \in Range(new)
    <3>1. CASE m \in 1..(k - 1)
      BY <2>8, <3>1 DEF StandFor
    <3>2. CASE m = k
      BY <2>8, <3>2
    <3> QED BY <1>2, <3>1, <3>2
  <2> HIDE DEF p
  <2>11. StandFor(new, s, k)
    BY <2>7, <2>10, <2>12, <2>13 DEF StandFor
  <2> QED BY <2>1, <2>11 DEF p
<1> QED BY <1>3, <1>4

LEMMA PostProcessStands ==
    ASSUME CommandsKnown, NEW s \in Seq(OfCommand)
    PROVE  PostProcess(s) \in Seq(OfCommand) /\ StandFor(PostProcess(s), s, Len(s))
<1> DEFINE n == Len(s)
<1>1. n \in Nat
  BY LenProperties
<1>2. PICK f \in [0..n -> Seq(OfCommand)] :
              /\ f[0] = <<>> /\ f[n] = PostProcess(s)
              /\ \A k \in 1..n : f[k] = KeptWith(f[k - 1], s[k])
  BY PostSteps
<1> DEFINE T == {k \in 0..n : StandFor(f[k], s, k)}
<1>3. 0 \in T
  <2>1. DOMAIN f[0] = {} /\ 1..0 = {} /\ 0 \in 0..n
    BY <1>1, <1>2
  <2> HIDE DEF n
  <2>2. Range(f[0]) = {}
    BY <2>1 DEF Range
  <2>3. StandFor(f[0], s, 0)
    BY <2>1, <2>2 DEF StandFor
  <2> QED BY <2>1, <2>3
<1>4. ASSUME NEW k \in 1..n, k - 1 \in T PROVE k \in T
  <2>1. k \in 0..n /\ k - 1 \in 0..n /\ StandFor(f[k - 1], s, k - 1)
    BY <1>1, <1>4
  <2>2. f[k - 1] \in Seq(OfCommand)
    BY <1>2, <2>1
  <2>3. StandFor(KeptWith(f[k - 1], s[k]), s, k)
    BY <2>1, <2>2, StandForStep
  <2> QED BY <1>2, <2>1, <2>3
<1>5. n \in T
  <2> HIDE DEF T, n
  <2>1. \A k \in 0..n : k \in T
    BY <1>1, <1>3, <1>4, UpTo
  <2> QED BY <1>1, <2>1
<1> QED BY <1>1, <1>2, <1>5

-----------------------------------------------------------------------------
(* Types *)

LEMMA ParserTypesInit == ParserInit => ParserTypes
<1> SUFFICES ASSUME ParserInit PROVE ParserTypes
  OBVIOUS
<1>1. commands \in CommandSets /\ tokens = <<>> /\ parsePhase = "typing" /\ poss = NoReading
  BY DEF ParserInit
<1>2. commands \in Seq(CommandSpec) /\ DOMAIN commands = 1..Len(commands) /\ Len(commands) \in Nat
  BY <1>1, CommandsAre DEF CommandsKnown
<1>3. tokens \in Seq(Token) /\ Len(tokens) = 0 /\ 0 <= MaxTokens
  <2>1. tokens \in Seq(Token) /\ Len(tokens) = 0
    BY <1>1, EmptySeq
  <2>2. 0 <= MaxTokens
    <3>1. MaxTokens \in Nat
      BY ParserAssumption
    <3> QED BY <3>1
  <2> QED BY <2>1, <2>2
<1>4. <<>> \in Seq(Match) /\ Len(<<>>) = 0
  BY EmptySeq
<1>5. NoReading \in Possibility
  BY <1>4 DEF NoReading, Possibility
<1>6. ASSUME NEW c \in DOMAIN commands
      PROVE  IsPossibility([NoReading EXCEPT !.command = c], 0)
  <2>1. c \in Nat
    BY <1>2
  <2> DEFINE q == [NoReading EXCEPT !["command"] = c]
  <2>2. q = [command |-> c, matches |-> <<>>, score |-> 0]
    BY DEF NoReading
  <2>4. q.command = c /\ q.matches = <<>> /\ q.score = 0
    BY <2>2
  <2>3. q \in Possibility
    <3>1. 0 \in Int
      OBVIOUS
    <3> QED BY <1>4, <1>5, <2>1, <3>1 DEF Possibility
  <2> HIDE DEF q
  <2>5. IsPossibility(q, 0)
    BY <1>4, <2>3, <2>4 DEF IsPossibility
  <2> QED BY <2>5 DEF q
<1>7. possibilities = [c \in DOMAIN commands |-> [NoReading EXCEPT !.command = c]]
  BY DEF ParserInit, InitialPossibilities
<1>8. possibilities \in [1..Len(commands) -> Possibility]
  BY <1>2, <1>6, <1>7 DEF IsPossibility
<1>9. possibilities \in Seq(Possibility)
  BY <1>2, <1>8, SeqDef
<1>10. \A p \in Range(possibilities) : IsPossibility(p, 0)
  BY <1>6, <1>7 DEF Range
<1> QED BY <1>1, <1>3, <1>5, <1>9, <1>10 DEF ParserTypes

\* The possibilities after one more word are those that NewPossibilities finds for each.
LEMMA NextPossibilities ==
    ASSUME ParserTypes, NEW tok \in Token, NextToken(tok)
    PROVE  LET n == Len(tokens) + 1
               ss == [k \in DOMAIN possibilities |-> NewPossibilities(possibilities[k], tok, n)]
           IN  /\ n \in Nat /\ n <= MaxTokens /\ tokens' = Append(tokens, tok) /\ Len(tokens') = n
               /\ tokens' \in Seq(Token)
               /\ ss \in Seq(Seq(Possibility)) /\ DOMAIN ss = DOMAIN possibilities
               /\ possibilities' = FlattenSeq(ss)
<1> DEFINE n == Len(tokens) + 1
           ss == [k \in DOMAIN possibilities |-> NewPossibilities(possibilities[k], tok, n)]
<1>1. /\ tokens' = Append(tokens, tok) /\ Len(tokens) < MaxTokens
      /\ possibilities' = FlattenSeq([k \in DOMAIN possibilities |->
                               NewPossibilities(possibilities[k], tok, Len(tokens'))])
  BY DEF NextToken
<1>2. tokens \in Seq(Token) /\ possibilities \in Seq(Possibility) /\ CommandsKnown
  BY DEF ParserTypes, CommandsKnown
<1>3. Len(tokens) \in Nat /\ MaxTokens \in Nat
  BY <1>2, LenProperties, ParserAssumption
<1>4. tokens' \in Seq(Token) /\ Len(tokens') = n
  BY <1>1, <1>2, AppendProperties
<1>5. n \in Nat /\ n <= MaxTokens
  BY <1>1, <1>3
<1>6. possibilities' = FlattenSeq(ss)
  BY <1>1, <1>4
<1> HIDE DEF n
<1>7. ASSUME NEW k \in DOMAIN possibilities
      PROVE  NewPossibilities(possibilities[k], tok, n) \in Seq(Possibility)
  <2> DEFINE p == possibilities[k]
  <2>1. p \in Range(possibilities)
    BY DEF Range
  <2>2. p \in Possibility /\ p.command \in DOMAIN commands
    BY <2>1 DEF ParserTypes, IsPossibility
  <2>3. Arguments(commands[p.command]) \in Seq(ArgumentSpec)
    BY <1>2, <2>2, CommandsAre
  <2> HIDE DEF p
  <2>4. NewPossibilities(p, tok, n) \in Seq(Possibility)
    BY <1>5, <2>2, <2>3, NewIs
  <2> QED BY <2>4 DEF p
<1>8. DOMAIN possibilities = 1..Len(possibilities) /\ Len(possibilities) \in Nat
  BY <1>2, LenProperties
<1>9. ss \in [1..Len(possibilities) -> Seq(Possibility)] /\ DOMAIN ss = DOMAIN possibilities
  BY <1>7, <1>8
<1> HIDE DEF ss
<1>10. ss \in Seq(Seq(Possibility))
  BY <1>8, <1>9, SeqDef
<1> QED BY <1>1, <1>4, <1>5, <1>6, <1>9, <1>10 DEF n, ss

LEMMA PossibilitiesOfCommand == ASSUME ParserTypes PROVE possibilities \in Seq(OfCommand)
<1>1. possibilities \in Seq(Possibility) /\ \A p \in Range(possibilities) : p \in OfCommand
  BY DEF ParserTypes, IsPossibility, OfCommand
<1>2. DOMAIN possibilities = 1..Len(possibilities) /\ Len(possibilities) \in Nat
      /\ possibilities = [i \in DOMAIN possibilities |-> possibilities[i]]
  BY <1>1, LenProperties
<1>3. \A i \in 1..Len(possibilities) : possibilities[i] \in OfCommand
  BY <1>1, <1>2 DEF Range
<1>4. possibilities \in [1..Len(possibilities) -> OfCommand]
  BY <1>2, <1>3
<1> QED BY <1>2, <1>4, SeqDef

LEMMA LensKnown ==
    ASSUME ParserTypes
    PROVE  DOMAIN commands = 1..Len(commands) /\ Len(commands) \in Nat /\ Len(tokens) \in Nat
<1>1. tokens \in Seq(Token) /\ CommandsKnown
  BY DEF ParserTypes, CommandsKnown
<1> QED BY <1>1, CommandsAre, LenProperties

LEMMA ParserTypesNext == ASSUME ParserTypes, ParserNext PROVE ParserTypes'
<1>1. ASSUME NEW tok \in Token, NextToken(tok) PROVE ParserTypes'
  <2> DEFINE n == Len(tokens) + 1
             ss == [k \in DOMAIN possibilities |-> NewPossibilities(possibilities[k], tok, n)]
  <2>1. /\ n \in Nat /\ n <= MaxTokens /\ tokens' = Append(tokens, tok) /\ Len(tokens') = n
        /\ tokens' \in Seq(Token)
        /\ ss \in Seq(Seq(Possibility)) /\ DOMAIN ss = DOMAIN possibilities
        /\ possibilities' = FlattenSeq(ss)
    BY <1>1, NextPossibilities
  <2>2. commands' = commands /\ parsePhase' = parsePhase /\ poss' = poss
        /\ parsePhase = "typing"
    BY <1>1 DEF NextToken
  <2>3. ss = [k \in DOMAIN possibilities |-> NewPossibilities(possibilities[k], tok, n)]
    OBVIOUS
  <2> HIDE DEF ss
  <2>4. /\ possibilities' \in Seq(Possibility)
        /\ \A q \in Range(possibilities') : \E k \in DOMAIN ss : q \in Range(ss[k])
    BY <2>1, RangeOfFlat
  <2>5. ASSUME NEW q \in Range(possibilities') PROVE IsPossibility(q, n)
    <3>1. PICK k \in DOMAIN possibilities : q \in Range(NewPossibilities(possibilities[k], tok, n))
      BY <2>1, <2>3, <2>4
    <3> DEFINE p == possibilities[k]
    <3>2. p \in Range(possibilities)
      BY DEF Range
    <3>3. p \in Possibility /\ p.command \in DOMAIN commands /\ Len(p.matches) = Len(tokens)
      BY <3>2 DEF ParserTypes, IsPossibility
    <3>4. Arguments(commands[p.command]) \in Seq(ArgumentSpec)
      BY <3>3, CommandsAre DEF ParserTypes, CommandsKnown
    <3> HIDE DEF p, n
    <3>5. q \in Range(NewPossibilities(p, tok, n))
      BY <3>1 DEF p
    <3>6. PICK m \in Match : q.command = p.command /\ q.matches = Append(p.matches, m)
      BY <2>1, <3>3, <3>4, <3>5, NewGrow
    <3>7. p.matches \in Seq(Match)
      BY <3>3 DEF Possibility
    <3>8. Len(q.matches) = n
      BY <3>3, <3>6, <3>7, AppendProperties DEF n
    <3>9. q \in Possibility
      BY <2>4, RangeOfSeq
    <3> QED BY <3>3, <3>6, <3>8, <3>9 DEF IsPossibility
  <2>6. poss = NoReading
    BY <2>2 DEF ParserTypes
  <2> HIDE DEF n
  <2> QED BY <2>1, <2>2, <2>4, <2>5, <2>6 DEF ParserTypes, IsPossibility
<1>2. ASSUME EndOfInput PROVE ParserTypes'
  <2>1. /\ parsePhase' = "parsed" /\ parsePhase = "typing" /\ possibilities' = PostProcess(possibilities)
        /\ commands' = commands /\ tokens' = tokens /\ poss' = poss
    BY <1>2 DEF EndOfInput
  <2>2. possibilities \in Seq(OfCommand) /\ CommandsKnown
    BY PossibilitiesOfCommand DEF ParserTypes, CommandsKnown
  <2>3. PostProcess(possibilities) \in Seq(OfCommand)
        /\ StandFor(PostProcess(possibilities), possibilities, Len(possibilities))
    BY <2>2, PostProcessStands
  <2> DEFINE new == PostProcess(possibilities)
  <2> HIDE DEF new
  <2>4. ASSUME NEW q \in Range(new) PROVE IsPossibility(q, Len(tokens))
    <3>1. PICK m \in 1..Len(possibilities) : q = Penalised(possibilities[m])
      BY <2>3 DEF StandFor, new
    <3> DEFINE p == possibilities[m]
    <3>2. p \in Range(possibilities)
      BY <2>2, LenProperties DEF Range
    <3>3. p \in Possibility /\ p.command \in DOMAIN commands /\ Len(p.matches) = Len(tokens)
      BY <3>2 DEF ParserTypes, IsPossibility
    <3> HIDE DEF p
    <3>4. /\ Penalised(p) \in Possibility
          /\ Penalised(p).command = p.command /\ Penalised(p).matches = p.matches
      BY <2>2, <3>3, PenalisedIs
    <3> QED BY <3>1, <3>3, <3>4 DEF IsPossibility, p
  <2>5. new \in Seq(Possibility)
    <3>1. OfCommand \subseteq Possibility
      BY DEF OfCommand
    <3> QED BY <2>3, <3>1, SeqMonotonic DEF new
  <2>6. possibilities' = new
    BY <2>1 DEF new
  <2>7. poss \in Possibility /\ poss = NoReading
    BY <2>1 DEF ParserTypes
  <2> QED BY <2>1, <2>4, <2>5, <2>6, <2>7 DEF ParserTypes, IsPossibility
<1>3. ASSUME ExecuteCommand PROVE ParserTypes'
  <2>1. /\ commands' = commands /\ tokens' = tokens /\ possibilities' = possibilities
        /\ parsePhase' \in {"run", "refused"}
    BY <1>3 DEF ExecuteCommand
  <2>2. poss' = poss \/ poss' \in Range(possibilities)
    BY <1>3 DEF ExecuteCommand, Best
  <2>3. poss' \in Possibility /\ (poss' = NoReading \/ IsPossibility(poss', Len(tokens)))
    <3>1. CASE poss' = poss
      BY <3>1 DEF ParserTypes
    <3>2. CASE poss' \in Range(possibilities)
      BY <3>2 DEF ParserTypes, IsPossibility
    <3> QED BY <2>2, <3>1, <3>2
  <2> QED BY <2>1, <2>3 DEF ParserTypes, IsPossibility
<1> QED BY <1>1, <1>2, <1>3 DEF ParserNext

LEMMA ParserTypesStays ==
    ASSUME ParserTypes, UNCHANGED parserVars PROVE ParserTypes'
BY DEF ParserTypes, parserVars, IsPossibility

LEMMA ParserTypesTypeOK == ASSUME ParserTypes PROVE ParserTypeOK
<1>1. \A p \in Range(possibilities) : p.command \in 0..Len(commands) /\ p.score \in Int
                                       /\ Len(p.matches) <= Len(tokens)
  BY LensKnown DEF ParserTypes, IsPossibility, Possibility
<1>2. poss.command \in 0..Len(commands) /\ poss.score \in Int /\ Len(poss.matches) <= Len(tokens)
  <2>1. CASE poss = NoReading
    <3>1. Len(<<>>) = 0
      BY EmptySeq
    <3> QED BY <2>1, <3>1, LensKnown DEF NoReading
  <2>2. CASE IsPossibility(poss, Len(tokens))
    BY <2>2, LensKnown DEF IsPossibility, Possibility
  <2> QED BY <2>1, <2>2 DEF ParserTypes
<1> QED BY <1>1, <1>2 DEF ParserTypes, ParserTypeOK

\* A step of the page is one of the parser's or leaves it alone.
LEMMA ParserSteps == ASSUME [PageNext]_pageVars PROVE ParserNext \/ UNCHANGED parserVars
BY DEF PageNext, pageVars

LEMMA ParserIsTyped == Spec => []ParserTypes
<1>1. PageInit => ParserTypes
  BY ParserTypesInit DEF PageInit
<1>2. ParserTypes /\ [PageNext]_pageVars => ParserTypes'
  BY ParserSteps, ParserTypesNext, ParserTypesStays
<1> QED BY <1>1, <1>2, PTL DEF Spec

-----------------------------------------------------------------------------
(* What is shown *)

\* At the end of an input every reading with a keyword has one of its command on the list
\* that gave every value it gave, and no two on the list are the same (postProcess).
THEOREM ShownStandForAll == Spec => KeptStandForAll
<1> DEFINE A == parsePhase' = "parsed" /\ parsePhase = "typing" =>
                  /\ \A i, j \in DOMAIN possibilities' :
                        i # j => possibilities'[i].command # possibilities'[j].command \/
                                 Data(possibilities'[i]) # Data(possibilities'[j])
                  /\ \A p \in Range(possibilities) :
                        AllNokeyword(p) \/ \E q \in Range(possibilities') :
                            q.command = p.command /\ ContentsAreEqual(p, q)
<1>1. ParserTypes /\ [PageNext]_pageVars => [A]_parserVars
  <2> SUFFICES ASSUME ParserTypes, [PageNext]_pageVars, parserVars' # parserVars PROVE A
    OBVIOUS
  <2> SUFFICES ASSUME parsePhase' = "parsed", parsePhase = "typing" PROVE A
    OBVIOUS
  <2>1. ParserNext
    BY ParserSteps
  <2>2. possibilities' = PostProcess(possibilities)
    BY <2>1 DEF ParserNext, NextToken, ExecuteCommand, EndOfInput
  <2>3. CommandsKnown /\ possibilities \in Seq(OfCommand)
    BY PossibilitiesOfCommand DEF ParserTypes, CommandsKnown
  <2>4. StandFor(possibilities', possibilities, Len(possibilities))
    BY <2>2, <2>3, PostProcessStands
  <2>5. \A p \in Range(possibilities) : \E m \in 1..Len(possibilities) : p = possibilities[m]
    BY <2>3, LenProperties DEF Range
  <2> QED BY <2>4, <2>5 DEF StandFor
<1>2. [][A]_parserVars => KeptStandForAll
  BY DEF KeptStandForAll
<1> HIDE DEF A
<1> QED BY <1>1, <1>2, ParserIsTyped, PTL DEF Spec

-----------------------------------------------------------------------------
(* The words of a command *)

\* The words typed so far are the first of the command,
StartsWith(c, ts) == Len(ts) <= Len(c.words) /\ \A k \in 1..Len(ts) : c.words[k] = ts[k]

\* and a reading takes each of them for the word of the command it is.
Exact(p, c, ts) ==
    StartsWith(c, ts) /\ \A k \in 1..Len(ts) : p.matches[k] = NamedMatch(KeywordArgument(ts[k]))

\* A command as the command files have it
WellWorded(c) ==
    /\ c \in CommandSpec /\ IsInjective(c.words)
    /\ \A i \in DOMAIN Arguments(c) : Arguments(c)[i].type = "keyword" => i \in DOMAIN c.words
    /\ \A tok \in Token \cap Range(c.words) : tok \in Abbreviates[tok]

LEMMA WellWordedAre == ASSUME CommandsKnown, NEW c \in DOMAIN commands PROVE WellWorded(commands[c])
<1>1. commands \in CommandSets /\ commands[c] \in Range(commands) /\ commands[c] \in CommandSpec
  BY CommandsAre DEF CommandsKnown, Range
<1> QED BY <1>1, WordsAssumption DEF WellWorded

LEMMA WordsAre ==
    ASSUME NEW c, WellWorded(c)
    PROVE  /\ Arguments(c) \in Seq(ArgumentSpec) /\ DOMAIN Arguments(c) = 1..Len(Arguments(c))
           /\ Len(Arguments(c)) \in Nat /\ Len(c.words) \in Nat /\ DOMAIN c.words = 1..Len(c.words)
           /\ c.words \in Seq(STRING)
           /\ \A i \in DOMAIN c.words : i \in DOMAIN Arguments(c)
                                        /\ Arguments(c)[i] = KeywordArgument(c.words[i])
<1>1. c \in CommandSpec /\ c.words \in Seq(STRING)
  BY DEF WellWorded, CommandSpec
<1>2. /\ Arguments(c) \in Seq(ArgumentSpec) /\ Len(c.words) \in Nat /\ Len(c.words) <= Len(Arguments(c))
      /\ \A i \in 1..Len(c.words) : Arguments(c)[i] = KeywordArgument(c.words[i])
  BY <1>1, ArgumentsAre
<1>3. /\ DOMAIN Arguments(c) = 1..Len(Arguments(c)) /\ Len(Arguments(c)) \in Nat
      /\ DOMAIN c.words = 1..Len(c.words)
  BY <1>1, <1>2, LenProperties
<1> QED BY <1>1, <1>2, <1>3

\* One more word, that is also the next of the command
LEMMA ExactGrows ==
    ASSUME NEW c, WellWorded(c), NEW ts \in Seq(Token), NEW tok \in Token, NEW p \in Possibility,
           Len(p.matches) = Len(ts), Exact(p, c, ts),
           NEW q, q.matches = Append(p.matches, NamedMatch(KeywordArgument(tok))),
           Len(ts) + 1 \in DOMAIN c.words, c.words[Len(ts) + 1] = tok
    PROVE  Exact(q, c, Append(ts, tok))
<1> DEFINE n == Len(ts) + 1
           us == Append(ts, tok)
           m == NamedMatch(KeywordArgument(tok))
<1>1. p.matches \in Seq(Match) /\ Len(ts) \in Nat
  BY LenProperties DEF Possibility
<1>2. Len(us) = n /\ us[n] = tok /\ \A k \in 1..Len(ts) : us[k] = ts[k]
  BY AppendProperties
<1>3. q.matches[n] = m /\ \A k \in 1..Len(ts) : q.matches[k] = p.matches[k]
  <2> DEFINE ms == p.matches
  <2>1. m \in Match
    <3>1. c.words[n] \in STRING
      BY WordsAre, ElementOfSeq
    <3>2. c.words[n] = tok
      OBVIOUS
    <3>3. KeywordArgument(tok) \in ArgumentSpec
      <4>1. Arguments(c)[n] \in ArgumentSpec /\ Arguments(c)[n] = KeywordArgument(c.words[n])
        BY WordsAre, ElementOfSeq
      <4> QED BY <3>2, <4>1
    <3> QED BY <3>1, <3>2, <3>3, MatchesAre
  <2> HIDE DEF m, ms
  <2>2. Append(ms, m)[Len(ms) + 1] = m /\ \A k \in 1..Len(ms) : Append(ms, m)[k] = ms[k]
    BY <1>1, <2>1, AppendProperties DEF ms
  <2> QED BY <2>2 DEF ms, m
<1>4. \A k \in 1..n : k = n \/ k \in 1..Len(ts)
  BY <1>1
<1>5. n <= Len(c.words)
  BY WordsAre, <1>1
<1> HIDE DEF n, us, m
<1>6. \A k \in 1..n : c.words[k] = us[k]
  BY <1>2, <1>4 DEF Exact, StartsWith, n
<1>7. \A k \in 1..n : q.matches[k] = NamedMatch(KeywordArgument(us[k]))
  BY <1>2, <1>3, <1>4 DEF Exact, m
<1> QED BY <1>2, <1>5, <1>6, <1>7 DEF Exact, StartsWith, us

\* A word adds at most 35, and only one that is the next of the command, in full, adds as much.
LEMMA ScoreGrows ==
    ASSUME NEW p \in Possibility, NEW tok \in Token, NEW ts \in Seq(Token),
           WellWorded(commands[p.command]), Len(p.matches) = Len(ts),
           p.score <= 35 * Len(ts), p.score = 35 * Len(ts) => Exact(p, commands[p.command], ts),
           NEW q \in Range(NewPossibilities(p, tok, Len(ts) + 1))
    PROVE  /\ q.score <= 35 * (Len(ts) + 1)
           /\ q.score = 35 * (Len(ts) + 1) => Exact(q, commands[p.command], Append(ts, tok))
<1> DEFINE n == Len(ts) + 1
           c == commands[p.command]
           args == Arguments(c)
<1>1. n \in Nat /\ Len(ts) \in Nat /\ args \in Seq(ArgumentSpec)
  BY LenProperties, WordsAre
<1>2. p.score \in Int
  BY DEF Possibility
<1>3. IF Waiting(p) THEN ValueOf(p, q, tok) ELSE OtherOf(p, q, args, tok, n)
  BY <1>1, NewIs
<1>4. tok \in STRING
  BY ParserAssumption
<1>5. \A arg : TypeScore(arg) \in {0, 15}
  BY DEF TypeScore
<1>6. ASSUME NEW m \in Match, NEW s \in 0..19, q = AddPossibility(p, m, s)
      PROVE  q.score < 35 * n
  <2>1. s \in Int
    OBVIOUS
  <2>2. q.score = p.score + s + TypeScore(m.arg)
    BY <1>6, <2>1, Adds
  <2>3. TypeScore(m.arg) \in {0, 15}
    BY <1>5
  <2>4. \A x \in Int, l \in Nat, u \in 0..19, t \in {0, 15} :
           x <= 35 * l => x + u + t < 35 * (l + 1)
    OBVIOUS
  <2> DEFINE l == Len(ts)
             t == TypeScore(m.arg)
  <2>5. l \in Nat /\ p.score <= 35 * l /\ n = l + 1 /\ t \in {0, 15} /\ q.score = p.score + s + t
    BY <1>1, <2>2, <2>3
  <2> HIDE DEF c, args, n, l, t
  <2> QED BY <1>2, <2>4, <2>5
<1>7. \A i \in DOMAIN args : args[i] \in ArgumentSpec
  BY <1>1, LenProperties, ElementOfSeq
<1>8. CASE Waiting(p)
  <2> DEFINE arg == LastOf(p).arg
  <2>1. ValueOf(p, q, tok) /\ p.matches # <<>>
    BY <1>3, <1>8 DEF Waiting
  <2>2. arg \in ArgumentSpec /\ arg.enums \in Seq(STRING \ {""})
    BY <2>1, LastIs DEF ArgumentSpec
  <2>3. \A e \in Range(arg.enums) : e \in STRING
    <3> DEFINE ens == arg.enums
    <3>1. ens \in Seq(STRING \ {""})
      BY <2>2
    <3> HIDE DEF ens
    <3>2. \A e \in Range(ens) : e \in STRING
      BY <3>1, RangeOfSeq
    <3> QED BY <3>2 DEF ens
  <2>4. \A e \in STRING : DataMatch(arg, e) \in Match
    BY <2>2, MatchesAre
  <2>5. 5 \in 0..19 /\ 8 \in 0..19
    OBVIOUS
  <2> HIDE DEF n
  <2>6. \E e \in STRING, s \in {5, 8} : q = AddPossibility(p, DataMatch(arg, e), s)
    BY <1>4, <2>1, <2>3 DEF ValueOf
  <2>7. q.score < 35 * n
    <3> HIDE DEF arg
    <3> QED BY <1>6, <2>4, <2>5, <2>6
  <2>8. q.score \in Int
    <3> HIDE DEF arg
    <3>1. 5 \in Int /\ 8 \in Int
      OBVIOUS
    <3> QED BY <2>4, <2>6, <3>1, Adds DEF Possibility
  <2>9. q.score <= 35 * n /\ q.score # 35 * n
    BY <1>1, <2>7, <2>8
  <2> QED BY <2>9 DEF n
<1>9. CASE ~ Waiting(p)
  <2>1. OtherOf(p, q, args, tok, n)
    BY <1>3, <1>9
  <2>2. CASE p.matches # <<>> /\ q = AddPossibility(p, MoreMatch(p, tok), 0)
    <3>1. MoreMatch(p, tok) \in Match
      BY <1>4, <2>2, LastIs, MatchesAre DEF MoreMatch
    <3>2. 0 \in 0..19
      OBVIOUS
    <3>3. q.score < 35 * n
      <4> HIDE DEF n
      <4> QED BY <1>6, <2>2, <3>1, <3>2
    <3>4. q.score \in Int
      <4>1. 0 \in Int
        OBVIOUS
      <4> QED BY <2>2, <3>1, <4>1, Adds DEF Possibility
    <3> HIDE DEF n
    <3>5. q.score <= 35 * n /\ q.score # 35 * n
      BY <1>1, <3>3, <3>4
    <3> QED BY <3>5 DEF n
  <2>3. ASSUME NEW i \in DOMAIN args, q = AddPossibility(p, NokeyMatch(args[i], tok), 2)
        PROVE  q.score <= 35 * n /\ q.score # 35 * n
    <3>1. NokeyMatch(args[i], tok) \in Match
      BY <1>4, <1>7, MatchesAre
    <3>2. 2 \in 0..19
      OBVIOUS
    <3> HIDE DEF n
    <3>3. q.score < 35 * n
      BY <1>6, <2>3, <3>1, <3>2
    <3>4. q.score \in Int
      <4>1. 2 \in Int
        OBVIOUS
      <4> QED BY <2>3, <3>1, <4>1, Adds DEF Possibility
    <3> QED BY <1>1, <3>3, <3>4
  <2>4. ASSUME NEW i \in DOMAIN args,
               q = AddPossibility(p, NamedMatch(args[i]), NameScore(args[i], tok, i = n))
        PROVE  q.score <= 35 * n /\ (q.score = 35 * n => Exact(q, c, Append(ts, tok)))
    <3> DEFINE s == NameScore(args[i], tok, i = n)
               m == NamedMatch(args[i])
               t == TypeScore(args[i])
    <3>1. m \in Match /\ m.arg = args[i]
      BY <1>7, <1>4, MatchesAre DEF NamedMatch
    <3>2. s \in {5, 10, 15, 20} /\ (s = 20 => args[i].name = tok /\ i = n /\ args[i].type = "keyword")
      BY DEF NameScore
    <3>3. t \in {0, 15}
      BY <1>5
    <3>4. q.score = p.score + s + t /\ q.matches = Append(p.matches, m)
      <4>1. s \in Int
        BY <3>2
      <4>2. q = AddPossibility(p, m, s)
        BY <2>4
      <4> HIDE DEF m, s
      <4>3. /\ q.score = p.score + s + TypeScore(m.arg) /\ q.matches = Append(p.matches, m)
        BY <3>1, <4>1, <4>2, Adds
      <4> QED BY <3>1, <4>3
    <3> HIDE DEF s, t, m, c, args
    <3>5. q.score <= 35 * n
      BY <1>1, <1>2, <3>2, <3>3, <3>4
    <3>6. ASSUME q.score = 35 * n PROVE Exact(q, c, Append(ts, tok))
      <4>1. s = 20 /\ p.score = 35 * Len(ts)
        <5>1. \A x \in Int, l \in Nat, u \in {5, 10, 15, 20}, v \in {0, 15} :
                 x <= 35 * l /\ x + u + v = 35 * (l + 1) => u = 20 /\ x = 35 * l
          OBVIOUS
        <5> DEFINE l == Len(ts)
        <5>2. l \in Nat /\ p.score <= 35 * l /\ q.score = 35 * (l + 1)
          BY <1>1, <3>6
        <5> DEFINE x == p.score
        <5>3. x \in Int /\ x <= 35 * l /\ x + s + t = 35 * (l + 1)
          BY <1>2, <3>4, <5>2
        <5> HIDE DEF l, n, x
        <5>4. s = 20 /\ x = 35 * l
          BY <3>2, <3>3, <5>1, <5>2, <5>3
        <5> QED BY <5>4 DEF l, x
      <4>2. Exact(p, c, ts)
        BY <4>1 DEF c
      <4>3. args[n].name = tok /\ i = n /\ args[n].type = "keyword"
        BY <3>2, <4>1
      <4>4. n \in DOMAIN c.words
        BY <4>3 DEF WellWorded, c, args
      <4>5. args[n] = KeywordArgument(c.words[n])
        BY <4>4, WordsAre DEF c, args
      <4>6. c.words[n] = tok
        BY <4>3, <4>5 DEF KeywordArgument
      <4>7. q.matches = Append(p.matches, NamedMatch(KeywordArgument(tok)))
        BY <3>4, <4>3, <4>5, <4>6 DEF m
      <4>8. WellWorded(c)
        BY DEF c
      <4> QED BY <4>2, <4>4, <4>6, <4>7, <4>8, ExactGrows
    <3> QED BY <3>5, <3>6
  <2> HIDE DEF n, c, args
  <2>5. q.score <= 35 * n /\ (q.score = 35 * n => Exact(q, c, Append(ts, tok)))
    BY <2>1, <2>2, <2>3, <2>4 DEF OtherOf, ArgumentGives, n, c
  <2> QED BY <2>5 DEF n, c
<1> QED BY <1>8, <1>9

\* The first of the flattened sequence is the first of the first sequence that has any.
LEMMA FirstOfFlat ==
    ASSUME NEW X, NEW ss \in Seq(Seq(X)), NEW i \in DOMAIN ss, ss[i] # <<>>,
           \A k \in 1..(i - 1) : ss[k] = <<>>
    PROVE  FlattenSeq(ss) \in Seq(X) /\ FlattenSeq(ss) # <<>> /\ FlattenSeq(ss)[1] = ss[i][1]
<1> DEFINE F == FlattenSeq(ss)
<1>1. F \in Seq(X) /\ FlatAt(F, ss, Len(ss)) /\ DOMAIN ss = 1..Len(ss) /\ Len(ss) \in Nat
  BY Flattened, LenProperties
<1> HIDE DEF F
<1>2. ss[i] \in Seq(X) /\ 1 \in DOMAIN ss[i]
  <2>1. ss[i] \in Seq(X)
    BY <1>1, ElementOfSeq
  <2> DEFINE t == ss[i]
  <2>2. t \in Seq(X) /\ t # <<>>
    BY <2>1
  <2> HIDE DEF t
  <2>3. 1 \in DOMAIN t
    BY <2>2, EmptySeq, LenProperties
  <2> QED BY <2>1, <2>3 DEF t
<1>3. PICK q \in DOMAIN F : F[q] = ss[i][1] /\ \A m \in 1..(q - 1) : Before(F[m], ss, i, 1)
  BY <1>1, <1>2 DEF FlatAt
<1>4. DOMAIN F = 1..Len(F) /\ Len(F) \in Nat
  BY <1>1, LenProperties
<1>5. q = 1
  <2> SUFFICES ASSUME q # 1 PROVE FALSE
    OBVIOUS
  <2>1. 1 \in 1..(q - 1)
    BY <1>4
  <2>2. Before(F[1], ss, i, 1)
    BY <1>3, <2>1
  <2>3. 1..(1 - 1) = {}
    OBVIOUS
  <2>4. PICK k \in 1..(i - 1) : \E m \in DOMAIN ss[k] : TRUE
    BY <2>2, <2>3 DEF Before
  <2>5. ss[k] = <<>>
    OBVIOUS
  <2> QED BY <2>4, <2>5
<1>6. F # <<>>
  BY <1>3, EmptySeq
<1> QED BY <1>1, <1>3, <1>5, <1>6 DEF F

LEMMA WordMatches ==
    ASSUME NEW w
    PROVE  /\ NamedMatch(KeywordArgument(w)).arg = KeywordArgument(w)
           /\ KeywordArgument(w).name = w /\ KeywordArgument(w).nokeyword = FALSE
           /\ NamedMatch(KeywordArgument(w)).needsData = FALSE
<1>1. KeywordArgument(w).type = "keyword" /\ KeywordArgument(w).name = w
      /\ KeywordArgument(w).nokeyword = FALSE
  BY DEF KeywordArgument
<1>2. NeedsData("keyword") = FALSE
  BY DEF NeedsData
<1> DEFINE a == KeywordArgument(w)
<1> HIDE DEF a
<1>3. NamedMatch(a).arg = a /\ NamedMatch(a).needsData = NeedsData(a.type)
  BY DEF NamedMatch
<1> QED BY <1>1, <1>2, <1>3 DEF a

\* Of the readings of one more word, that as the next word of the command comes first.
LEMMA FirstIsExact ==
    ASSUME NEW p \in Possibility, NEW tok \in Token, NEW ts \in Seq(Token),
           WellWorded(commands[p.command]), Len(p.matches) = Len(ts),
           p.score = 35 * Len(ts), Exact(p, commands[p.command], ts),
           StartsWith(commands[p.command], Append(ts, tok))
    PROVE  LET new == NewPossibilities(p, tok, Len(ts) + 1)
           IN  /\ new \in Seq(Possibility) /\ new # <<>> /\ new[1].command = p.command
               /\ new[1].score = 35 * (Len(ts) + 1)
               /\ Exact(new[1], commands[p.command], Append(ts, tok))
<1> DEFINE n == Len(ts) + 1
           c == commands[p.command]
           args == Arguments(c)
           ss == ByArgument(p, args, tok, n)
           F == FlattenSeq(ss)
           q0 == AddPossibility(p, NamedMatch(args[n]), NameScore(args[n], tok, n = n))
<1>1. n \in Nat /\ Len(ts) \in Nat /\ args \in Seq(ArgumentSpec) /\ p.matches \in Seq(Match)
      /\ p.score \in Int
  BY LenProperties, WordsAre DEF Possibility
<1>2. Len(Append(ts, tok)) = n /\ Append(ts, tok)[n] = tok /\ \A k \in 1..Len(ts) : Append(ts, tok)[k] = ts[k]
  BY AppendProperties
<1>3. /\ c.words \in Seq(STRING) /\ DOMAIN c.words = 1..Len(c.words) /\ Len(c.words) \in Nat
      /\ \A i \in DOMAIN c.words : i \in DOMAIN args /\ args[i] = KeywordArgument(c.words[i])
  BY WordsAre
<1>4. \A k \in 1..n : k \in DOMAIN c.words /\ c.words[k] = Append(ts, tok)[k]
  <2> DEFINE w == Len(c.words)
  <2>1. n <= w /\ \A k \in 1..n : c.words[k] = Append(ts, tok)[k]
    BY <1>2 DEF StartsWith
  <2>2. \A k \in 1..n : k \in 1..w
    <3>1. w \in Nat
      BY <1>3
    <3> HIDE DEF w, n
    <3> QED BY <1>1, <2>1, <3>1
  <2> QED BY <1>3, <2>1, <2>2
<1>5. \A k \in 1..Len(ts) : /\ k \in DOMAIN c.words /\ c.words[k] = ts[k]
                            /\ p.matches[k] = NamedMatch(KeywordArgument(c.words[k]))
  <2>1. \A k \in 1..Len(ts) : k \in 1..n
    BY <1>1
  <2> HIDE DEF n, c
  <2>2. \A k \in 1..Len(ts) : k \in DOMAIN c.words /\ c.words[k] = ts[k]
    BY <1>2, <1>4, <2>1
  <2> QED BY <2>2 DEF Exact, c
<1>6. n \in DOMAIN c.words /\ n \in DOMAIN args /\ c.words[n] = tok /\ args[n] = KeywordArgument(tok)
  <2>1. n \in 1..n
    BY <1>1
  <2> HIDE DEF n, c, args
  <2> QED BY <1>2, <1>3, <1>4, <2>1
<1>7. Seen(p) = {c.words[k] : k \in 1..Len(ts)}
  <2>1. DOMAIN p.matches = 1..Len(ts)
    BY <1>1, LenProperties
  <2>2. \A k \in 1..Len(ts) : p.matches[k].arg.name = c.words[k]
    <3> TAKE k \in 1..Len(ts)
    <3> DEFINE w == c.words[k]
    <3>1. p.matches[k] = NamedMatch(KeywordArgument(w))
      BY <1>5
    <3> HIDE DEF w
    <3>2. p.matches[k].arg.name = w
      BY <3>1, WordMatches
    <3> QED BY <3>2 DEF w
  <2> HIDE DEF c
  <2> QED BY <2>1, <2>2 DEF Seen
<1>8. ~ Waiting(p)
  <2> SUFFICES ASSUME p.matches # <<>> PROVE ~ LastOf(p).needsData
    BY DEF Waiting
  <2>1. Len(ts) \in 1..Len(ts)
    <3>1. Len(p.matches) # 0
      BY <1>1, EmptySeq
    <3> QED BY <1>1, <3>1
  <2>2. LastOf(p) = NamedMatch(KeywordArgument(c.words[Len(ts)]))
    <3> HIDE DEF c
    <3> QED BY <1>5, <2>1 DEF LastOf
  <2> QED BY <2>2, WordMatches
<1> DEFINE new == NewPossibilities(p, tok, n)
<1>9. new = F \o More(p, tok)
  BY <1>8 DEF NewPossibilities, ByArgument
<1>10. ASSUME NEW i \in 1..(n - 1) PROVE ss[i] = <<>>
  <2>1. i \in 1..Len(ts)
    BY <1>1
  <2>2. args[i].name \in Seen(p) /\ i \in DOMAIN args
    <3>1. args[i] = KeywordArgument(c.words[i]) /\ i \in DOMAIN args /\ c.words[i] \in Seen(p)
      <4> HIDE DEF c, args
      <4> QED BY <1>3, <1>5, <1>7, <2>1
    <3> QED BY <3>1 DEF KeywordArgument
  <2> HIDE DEF args, n
  <2>3. Named(p, args, tok, n, i) = <<>> /\ Plain(p, args, tok, i) = <<>>
    BY <2>2 DEF Named, Plain, Fits
  <2>4. ss[i] = <<>> \o <<>>
    BY <2>2, <2>3 DEF ByArgument
  <2>5. <<>> \o <<>> = <<>>
    OBVIOUS
  <2> QED BY <2>4, <2>5
<1>11. ss[n] # <<>> /\ ss[n][1] = q0
  <2>1. args[n].name = tok /\ args[n].nokeyword = FALSE
    BY <1>6 DEF KeywordArgument
  <2>2. tok \notin Seen(p)
    <3>1. IsInjective(c.words)
      BY DEF WellWorded
    <3>2. \A k \in 1..Len(ts) : k # n
      BY <1>1
    <3> HIDE DEF c, n
    <3> QED BY <1>5, <1>6, <1>7, <3>1, <3>2 DEF IsInjective
  <2>3. tok \in Abbreviates[tok]
    <3>1. tok \in Range(c.words)
      <4> HIDE DEF n, c
      <4> QED BY <1>6 DEF Range
    <3> QED BY <3>1 DEF WellWorded
  <2> HIDE DEF n, args
  <2>4. Named(p, args, tok, n, n) = <<q0>>
    BY <2>1, <2>2, <2>3 DEF Named, Fits
  <2>5. Plain(p, args, tok, n) = <<>>
    BY <2>1 DEF Plain
  <2>6. ss[n] = <<q0>> \o <<>>
    BY <1>6, <2>4, <2>5 DEF ByArgument
  <2> HIDE DEF q0
  <2>7. <<q0>> \o <<>> = <<q0>> /\ <<q0>> # <<>> /\ <<q0>>[1] = q0
    OBVIOUS
  <2> QED BY <2>6, <2>7
<1>12. F \in Seq(Possibility) /\ F # <<>> /\ F[1] = q0
  <2>1. ss \in Seq(Seq(Possibility)) /\ DOMAIN ss = DOMAIN args
    BY <1>1, ByArgumentIs
  <2> HIDE DEF ss, n, args, q0
  <2> QED BY <1>6, <1>10, <1>11, <2>1, FirstOfFlat
<1>13. new \in Seq(Possibility) /\ new # <<>> /\ new[1] = q0
  <2> DEFINE M == More(p, tok)
  <2>1. M \in Seq(Possibility) /\ new = F \o M
    BY <1>9, MoreIs
  <2>2. Len(F) \in Nat /\ Len(F) # 0 /\ Len(M) \in Nat
    BY <1>12, <2>1, EmptySeq, LenProperties
  <2> HIDE DEF F, M, q0, new
  <2>3. /\ new \in Seq(Possibility) /\ Len(new) = Len(F) + Len(M)
        /\ \A i \in 1..(Len(F) + Len(M)) : new[i] = IF i <= Len(F) THEN F[i] ELSE M[i - Len(F)]
    BY <1>12, <2>1, ConcatProperties
  <2>4. 1 \in 1..(Len(F) + Len(M)) /\ 1 <= Len(F) /\ Len(new) # 0
    BY <2>2, <2>3
  <2>5. new # <<>>
    BY <2>4, EmptySeq
  <2> QED BY <1>12, <2>3, <2>4, <2>5
<1>14. /\ q0.command = p.command /\ q0.score = 35 * n
       /\ q0.matches = Append(p.matches, NamedMatch(KeywordArgument(tok)))
  <2> DEFINE m == NamedMatch(args[n])
             s == NameScore(args[n], tok, n = n)
  <2>1. s = 20 /\ TypeScore(args[n]) = 15 /\ m.arg = args[n]
    BY <1>6 DEF NameScore, TypeScore, KeywordArgument, NamedMatch
  <2>2. m \in Match
    <3>1. args[n] \in ArgumentSpec /\ tok \in STRING
      BY <1>1, <1>6, LenProperties, ElementOfSeq, ParserAssumption
    <3> QED BY <3>1, MatchesAre
  <2>3. q0 = AddPossibility(p, m, s)
    OBVIOUS
  <2>4. s \in Int
    BY <2>1
  <2> HIDE DEF m, s, q0
  <2>5. /\ q0.command = p.command /\ q0.matches = Append(p.matches, m)
        /\ q0.score = p.score + s + TypeScore(m.arg)
    BY <2>2, <2>3, <2>4, Adds
  <2>6. q0.score = 35 * Len(ts) + 20 + 15
    BY <2>1, <2>5
  <2>7. m = NamedMatch(KeywordArgument(tok))
    BY <1>6 DEF m
  <2>8. q0.score = 35 * n
    BY <1>1, <2>6
  <2> QED BY <2>5, <2>7, <2>8
<1>15. Exact(q0, c, Append(ts, tok))
  <2> HIDE DEF q0
  <2> QED BY <1>6, <1>14, ExactGrows
<1> HIDE DEF q0
<1> QED BY <1>13, <1>14, <1>15 DEF new, n, c

\* No reading scores more than 35 for each word, and as much only the words of its command do;
Scored(p, c, ts) == p.score <= 35 * Len(ts) /\ (p.score = 35 * Len(ts) => Exact(p, c, ts))

\* of a command that begins with the words, the first of its readings does.
FirstOf(s, i, cs, ts) ==
    \E k \in DOMAIN s : /\ s[k].command = i /\ s[k].score = 35 * Len(ts) /\ Exact(s[k], cs[i], ts)
                        /\ \A j \in 1..(k - 1) : s[j].command # i

WordsScore ==
    parsePhase = "typing" =>
        /\ \A p \in Range(possibilities) : Scored(p, commands[p.command], tokens)
        /\ \A i \in DOMAIN commands : StartsWith(commands[i], tokens) => FirstOf(possibilities, i, commands, tokens)

\* At the end keywords that are missing cost something, and what is chosen is a best one.
WordsWin ==
    parsePhase # "typing" =>
        /\ \A p \in Range(possibilities) : /\ Scored(p, commands[p.command], tokens)
                                           /\ p.score = 35 * Len(tokens) => Lacks(p) = {}
        /\ \A i \in DOMAIN commands : commands[i].words = tokens =>
              \E p \in Range(possibilities) : p.score = 35 * Len(tokens)
        /\ parsePhase \in {"run", "refused"} => possibilities = <<>> \/ poss \in Best

LEMMA WordsScoreInit == ASSUME ParserInit PROVE WordsScore /\ WordsWin
<1>1. ParserTypes /\ tokens = <<>> /\ parsePhase = "typing"
  BY ParserTypesInit DEF ParserInit
<1>2. possibilities = [i \in DOMAIN commands |-> [NoReading EXCEPT !.command = i]]
  BY DEF ParserInit, InitialPossibilities
<1>3. Len(tokens) = 0 /\ 35 * Len(tokens) = 0 /\ 1..Len(tokens) = {}
  BY <1>1, EmptySeq
<1>4. CommandsKnown /\ DOMAIN commands = 1..Len(commands) /\ Len(commands) \in Nat
  BY <1>1, LensKnown DEF ParserTypes, CommandsKnown
<1>5. ASSUME NEW i \in DOMAIN commands
      PROVE  /\ possibilities[i].command = i /\ possibilities[i].score = 0
             /\ \A p : Exact(p, commands[i], tokens)
  <2>1. Len(commands[i].words) \in Nat
    BY <1>4, WellWordedAre, WordsAre
  <2>2. 0 <= Len(commands[i].words)
    BY <2>1
  <2>3. StartsWith(commands[i], tokens)
    BY <1>3, <2>2 DEF StartsWith
  <2>4. possibilities[i] = [command |-> i, matches |-> <<>>, score |-> 0]
    <3> DEFINE q == [NoReading EXCEPT !["command"] = i]
    <3>1. q = [command |-> i, matches |-> <<>>, score |-> 0]
      BY DEF NoReading
    <3> QED BY <1>2, <3>1
  <2> QED BY <1>3, <2>3, <2>4 DEF Exact
<1>6. \A p \in Range(possibilities) : Scored(p, commands[p.command], tokens)
  <2>1. \A p \in Range(possibilities) : \E i \in DOMAIN commands : p = possibilities[i]
    BY <1>2 DEF Range
  <2>2. ASSUME NEW i \in DOMAIN commands PROVE Scored(possibilities[i], commands[i], tokens)
    BY <1>3, <1>5 DEF Scored
  <2> QED BY <1>5, <2>1, <2>2
<1>7. ASSUME NEW i \in DOMAIN commands PROVE FirstOf(possibilities, i, commands, tokens)
  <2>1. i \in DOMAIN possibilities
    BY <1>2
  <2>2. ASSUME NEW j \in 1..(i - 1) PROVE possibilities[j].command # i
    <3>1. j \in DOMAIN commands /\ j # i
      BY <1>4
    <3> QED BY <1>5, <3>1
  <2> QED BY <1>3, <1>5, <2>1, <2>2 DEF FirstOf
<1> QED BY <1>1, <1>6, <1>7 DEF WordsScore, WordsWin

LEMMA StartedEarlier ==
    ASSUME NEW c, NEW ts \in Seq(Token), NEW tok \in Token, StartsWith(c, Append(ts, tok)), Len(c.words) \in Nat
    PROVE  StartsWith(c, ts)
<1>1. Len(ts) \in Nat /\ Len(Append(ts, tok)) = Len(ts) + 1 /\ \A k \in 1..Len(ts) : Append(ts, tok)[k] = ts[k]
  BY AppendProperties, LenProperties
<1>2. Len(ts) + 1 <= Len(c.words) /\ \A k \in 1..(Len(ts) + 1) : c.words[k] = Append(ts, tok)[k]
  BY <1>1 DEF StartsWith
<1>3. \A k \in 1..Len(ts) : k \in 1..(Len(ts) + 1)
  BY <1>1
<1>4. Len(ts) <= Len(c.words)
  BY <1>1, <1>2
<1> QED BY <1>1, <1>2, <1>3, <1>4 DEF StartsWith

LEMMA WordsScoreToken ==
    ASSUME ParserTypes, WordsScore, NEW tok \in Token, NextToken(tok)
    PROVE  WordsScore' /\ WordsWin'
<1> DEFINE n == Len(tokens) + 1
           ss == [k \in DOMAIN possibilities |-> NewPossibilities(possibilities[k], tok, n)]
<1>1. /\ n \in Nat /\ tokens' = Append(tokens, tok) /\ Len(tokens') = n /\ tokens' \in Seq(Token)
      /\ ss \in Seq(Seq(Possibility)) /\ DOMAIN ss = DOMAIN possibilities
      /\ possibilities' = FlattenSeq(ss)
  BY NextPossibilities
<1>2. commands' = commands /\ parsePhase = "typing" /\ parsePhase' = "typing"
  BY DEF NextToken
<1>3. CommandsKnown /\ tokens \in Seq(Token) /\ possibilities \in Seq(Possibility)
      /\ DOMAIN possibilities = 1..Len(possibilities) /\ Len(possibilities) \in Nat
  <2>1. CommandsKnown /\ tokens \in Seq(Token) /\ possibilities \in Seq(Possibility)
    BY DEF ParserTypes, CommandsKnown
  <2> QED BY <2>1, LenProperties
<1>4. \A k \in DOMAIN possibilities : ss[k] = NewPossibilities(possibilities[k], tok, n)
  OBVIOUS
<1> HIDE DEF ss
<1>5. ASSUME NEW k \in DOMAIN possibilities
      PROVE  /\ possibilities[k] \in Possibility /\ possibilities[k].command \in DOMAIN commands
             /\ Len(possibilities[k].matches) = Len(tokens)
             /\ WellWorded(commands[possibilities[k].command])
             /\ Scored(possibilities[k], commands[possibilities[k].command], tokens)
             /\ Arguments(commands[possibilities[k].command]) \in Seq(ArgumentSpec)
  <2>1. possibilities[k] \in Range(possibilities)
    BY DEF Range
  <2>2. /\ possibilities[k] \in Possibility /\ possibilities[k].command \in DOMAIN commands
        /\ Len(possibilities[k].matches) = Len(tokens)
    BY <2>1 DEF ParserTypes, IsPossibility
  <2> QED BY <1>2, <1>3, <2>1, <2>2, WellWordedAre, CommandsAre DEF WordsScore
<1>6. /\ possibilities' \in Seq(Possibility) /\ FlatAt(possibilities', ss, Len(ss))
      /\ \A q \in Range(possibilities') : \E k \in DOMAIN ss : q \in Range(ss[k])
      /\ DOMAIN ss = 1..Len(ss) /\ Len(ss) \in Nat
  BY <1>1, Flattened, RangeOfFlat, LenProperties
<1>7. ASSUME NEW k \in DOMAIN possibilities, NEW q \in Range(ss[k])
      PROVE  q.command = possibilities[k].command /\ Scored(q, commands[q.command], tokens')
  <2> DEFINE p == possibilities[k]
  <2>1. /\ p \in Possibility /\ Len(p.matches) = Len(tokens) /\ WellWorded(commands[p.command])
        /\ Scored(p, commands[p.command], tokens)
        /\ Arguments(commands[p.command]) \in Seq(ArgumentSpec)
    BY <1>5
  <2>2. q \in Range(NewPossibilities(p, tok, n))
    BY <1>4, <1>7
  <2> HIDE DEF p
  <2>3. q.command = p.command
    <3> HIDE DEF n
    <3> QED BY <1>1, <2>1, <2>2, NewGrow
  <2>4. p.score <= 35 * Len(tokens) /\ (p.score = 35 * Len(tokens) => Exact(p, commands[p.command], tokens))
    BY <2>1 DEF Scored
  <2>5. q \in Range(NewPossibilities(p, tok, Len(tokens) + 1))
    BY <2>2
  <2>6. /\ q.score <= 35 * (Len(tokens) + 1)
        /\ q.score = 35 * (Len(tokens) + 1) => Exact(q, commands[p.command], Append(tokens, tok))
    BY <1>3, <2>1, <2>4, <2>5, ScoreGrows
  <2>7. Len(tokens') = Len(tokens) + 1
    BY <1>1
  <2> QED BY <1>1, <2>3, <2>6, <2>7 DEF Scored, p
<1>8. \A q \in Range(possibilities') : Scored(q, commands[q.command], tokens')
  BY <1>1, <1>6, <1>7
<1>9. ASSUME NEW i \in DOMAIN commands, StartsWith(commands[i], tokens')
      PROVE  FirstOf(possibilities', i, commands, tokens')
  <2>1. WellWorded(commands[i])
    BY <1>3, WellWordedAre
  <2>2. StartsWith(commands[i], tokens)
    <3>1. Len(commands[i].words) \in Nat
      BY <2>1, WordsAre
    <3>2. StartsWith(commands[i], Append(tokens, tok))
      BY <1>1, <1>9
    <3> QED BY <1>3, <3>1, <3>2, StartedEarlier
  <2>3. PICK k \in DOMAIN possibilities :
                /\ possibilities[k].command = i /\ possibilities[k].score = 35 * Len(tokens)
                /\ Exact(possibilities[k], commands[i], tokens)
                /\ \A j \in 1..(k - 1) : possibilities[j].command # i
    BY <1>2, <2>2 DEF WordsScore, FirstOf
  <2> DEFINE new == ss[k]
             L == 35 * (Len(tokens) + 1)
  <2>4. /\ new \in Seq(Possibility) /\ new # <<>> /\ new[1].command = i
        /\ new[1].score = L /\ Exact(new[1], commands[i], tokens')
    <3> DEFINE p == possibilities[k]
    <3>1. /\ p \in Possibility /\ Len(p.matches) = Len(tokens) /\ p.command = i
          /\ p.score = 35 * Len(tokens) /\ Exact(p, commands[p.command], tokens)
          /\ WellWorded(commands[p.command])
      BY <1>5, <2>3
    <3>2. new = NewPossibilities(p, tok, Len(tokens) + 1)
      BY <1>4
    <3>3. StartsWith(commands[p.command], Append(tokens, tok))
      BY <1>1, <1>9, <3>1
    <3> HIDE DEF p, new
    <3> QED BY <1>1, <1>3, <3>1, <3>2, <3>3, FirstIsExact
  <2>5. 1 \in DOMAIN new
    <3> HIDE DEF new
    <3> QED BY <2>4, EmptySeq, LenProperties
  <2>6. k \in 1..Len(ss) /\ k \in Nat
    BY <1>1, <1>3, <1>6
  <2>7. PICK q \in DOMAIN possibilities' :
                possibilities'[q] = new[1] /\ \A m \in 1..(q - 1) : Before(possibilities'[m], ss, k, 1)
    BY <1>6, <2>5, <2>6 DEF FlatAt
  <2>8. ASSUME NEW m \in 1..(q - 1) PROVE possibilities'[m].command # i
    <3>1. Before(possibilities'[m], ss, k, 1)
      BY <2>7
    <3>2. 1..(1 - 1) = {}
      OBVIOUS
    <3>3. PICK j \in 1..(k - 1) : \E l \in DOMAIN ss[j] : possibilities'[m] = ss[j][l]
      BY <3>1, <3>2 DEF Before
    <3>4. j \in DOMAIN possibilities
      BY <1>3, <2>6
    <3>5. possibilities'[m] \in Range(ss[j])
      BY <3>3 DEF Range
    <3> QED BY <1>7, <2>3, <3>4, <3>5
  <2>9. L = 35 * Len(tokens')
    BY <1>1
  <2> HIDE DEF new, L
  <2> QED BY <2>4, <2>7, <2>8, <2>9 DEF FirstOf
<1> QED BY <1>2, <1>8, <1>9 DEF WordsScore, WordsWin

\* A reading that says all words of a command lacks none of its keywords, and one of some words
\* lacks none only if the command has no more.
LEMMA ExactLacks ==
    ASSUME CommandsKnown, tokens \in Seq(Token), NEW p \in Possibility, p.command \in DOMAIN commands,
           Len(p.matches) = Len(tokens), Exact(p, commands[p.command], tokens)
    PROVE  Lacks(p) = {} <=> commands[p.command].words = tokens
<1> DEFINE c == commands[p.command]
           args == Arguments(c)
           n == Len(tokens)
           w == Len(c.words)
<1>1. WellWorded(c)
  BY WellWordedAre
<1>2. /\ c.words \in Seq(STRING) /\ DOMAIN c.words = 1..w /\ w \in Nat
      /\ \A i \in DOMAIN c.words : i \in DOMAIN args /\ args[i] = KeywordArgument(c.words[i])
  BY <1>1, WordsAre
<1>3. /\ n \in Nat /\ DOMAIN tokens = 1..n /\ n <= w
      /\ \A k \in 1..n : /\ c.words[k] = tokens[k]
                         /\ p.matches[k] = NamedMatch(KeywordArgument(tokens[k]))
  BY LenProperties DEF Exact, StartsWith
<1>4. Seen(p) = {tokens[k] : k \in 1..n}
  <2>1. DOMAIN p.matches = 1..n
    BY LenProperties DEF Possibility
  <2>2. ASSUME NEW k \in 1..n PROVE p.matches[k].arg.name = tokens[k]
    <3> DEFINE t == tokens[k]
    <3>1. p.matches[k] = NamedMatch(KeywordArgument(t))
      BY <1>3
    <3> HIDE DEF t
    <3>2. p.matches[k].arg.name = t
      BY <3>1, WordMatches
    <3> QED BY <3>2 DEF t
  <2> QED BY <2>1, <2>2 DEF Seen
<1>5. \A i \in DOMAIN args : args[i].type = "keyword" => i \in DOMAIN c.words
  BY <1>1 DEF WellWorded
<1>6. \A i \in DOMAIN c.words : args[i].type = "keyword" /\ args[i].name = c.words[i]
  <2> TAKE i \in DOMAIN c.words
  <2>1. args[i] = KeywordArgument(c.words[i])
    BY <1>2
  <2> HIDE DEF c, args
  <2> QED BY <2>1 DEF KeywordArgument
<1>7. Lacks(p) = {i \in DOMAIN args : args[i].type = "keyword" /\ args[i].name \notin Seen(p)}
  BY DEF Lacks
<1>8. IsInjective(c.words)
  BY <1>1 DEF WellWorded
<1> HIDE DEF c, args
<1>9. ASSUME c.words = tokens PROVE Lacks(p) = {}
  <2>1. \A i \in DOMAIN c.words : c.words[i] \in Seen(p)
    BY <1>3, <1>4, <1>9
  <2> QED BY <1>5, <1>6, <1>7, <2>1
<1>10. ASSUME Lacks(p) = {} PROVE c.words = tokens
  <2>1. ASSUME NEW i \in DOMAIN c.words PROVE i \in 1..n
    <3>1. c.words[i] \in Seen(p)
      BY <1>2, <1>6, <1>7, <1>10
    <3>2. PICK k \in 1..n : c.words[i] = tokens[k]
      BY <1>4, <3>1
    <3>3. k \in DOMAIN c.words /\ c.words[k] = c.words[i]
      <4> HIDE DEF n, w
      <4>1. k \in 1..w
        BY <1>2, <1>3
      <4> QED BY <1>2, <1>3, <3>2, <4>1
    <3>4. i = k
      BY <1>8, <3>3 DEF IsInjective
    <3> QED BY <3>4
  <2>2. w = n
    <3>1. \A i \in 1..w : i \in 1..n
      BY <1>2, <2>1
    <3> HIDE DEF n, w
    <3> QED BY <1>2, <1>3, <3>1
  <2>3. c.words = [k \in 1..n |-> c.words[k]] /\ tokens = [k \in 1..n |-> tokens[k]]
    <3>1. c.words = [k \in DOMAIN c.words |-> c.words[k]] /\ tokens = [k \in DOMAIN tokens |-> tokens[k]]
      BY <1>2, LenProperties
    <3> QED BY <1>2, <1>3, <2>2, <3>1
  <2>4. [k \in 1..n |-> c.words[k]] = [k \in 1..n |-> tokens[k]]
    <3> HIDE DEF n
    <3> QED BY <1>3
  <2> QED BY <2>3, <2>4
<1> QED BY <1>9, <1>10 DEF c

LEMMA WordsWinEnd ==
    ASSUME ParserTypes, WordsScore, EndOfInput
    PROVE  WordsScore' /\ WordsWin'
<1> DEFINE kept == PostProcess(possibilities)
           n == Len(tokens)
<1>1. /\ parsePhase' = "parsed" /\ parsePhase = "typing" /\ tokens # <<>>
      /\ possibilities' = kept /\ commands' = commands /\ tokens' = tokens
  BY DEF EndOfInput
<1>2. possibilities \in Seq(OfCommand) /\ CommandsKnown /\ tokens \in Seq(Token)
  BY PossibilitiesOfCommand DEF ParserTypes, CommandsKnown
<1>3. kept \in Seq(OfCommand) /\ StandFor(kept, possibilities, Len(possibilities))
  BY <1>2, PostProcessStands
<1>4. n \in Nat \ {0} /\ DOMAIN possibilities = 1..Len(possibilities) /\ Len(possibilities) \in Nat
  BY <1>1, <1>2, EmptySeq, LenProperties
<1> HIDE DEF kept
<1>5. ASSUME NEW m \in 1..Len(possibilities)
      PROVE  /\ possibilities[m] \in Possibility /\ possibilities[m].command \in DOMAIN commands
             /\ possibilities[m].score \in Int
             /\ Len(possibilities[m].matches) = Len(tokens)
             /\ Scored(possibilities[m], commands[possibilities[m].command], tokens)
  <2>1. possibilities[m] \in Range(possibilities)
    BY <1>4 DEF Range
  <2> QED BY <1>1, <2>1 DEF ParserTypes, IsPossibility, WordsScore, Possibility
<1>6. ASSUME NEW q \in Range(kept)
      PROVE  Scored(q, commands[q.command], tokens) /\ (q.score = 35 * n => Lacks(q) = {})
  <2>1. PICK m \in 1..Len(possibilities) : q = Penalised(possibilities[m])
    BY <1>3 DEF StandFor
  <2> DEFINE p == possibilities[m]
             k == Cardinality(Lacks(p))
  <2>2. /\ p \in Possibility /\ p.command \in DOMAIN commands /\ p.score \in Int
        /\ Scored(p, commands[p.command], tokens) /\ q = Penalised(p)
    BY <1>5, <2>1
  <2> HIDE DEF p
  <2>3. /\ q.command = p.command /\ q.matches = p.matches /\ q.score = p.score - 5 * k
        /\ k \in Nat /\ (k = 0 <=> Lacks(p) = {})
    BY <1>2, <2>2, PenalisedIs
  <2>4. p.score <= 35 * n /\ (p.score = 35 * n => Exact(p, commands[p.command], tokens))
    BY <2>2 DEF Scored
  <2>5. Lacks(q) = Lacks(p) /\ (Exact(p, commands[p.command], tokens) => Exact(q, commands[q.command], tokens))
    BY <2>3 DEF Lacks, Seen, Exact
  <2> HIDE DEF k, n
  <2>6. q.score <= 35 * n /\ (q.score = 35 * n => p.score = 35 * n /\ k = 0)
    BY <1>4, <2>2, <2>3, <2>4
  <2> QED BY <2>3, <2>4, <2>5, <2>6 DEF Scored, n
<1>7. ASSUME NEW i \in DOMAIN commands, commands[i].words = tokens
      PROVE  \E q \in Range(kept) : q.score = 35 * n
  <2>1. StartsWith(commands[i], tokens)
    BY <1>4, <1>7 DEF StartsWith
  <2>2. PICK m \in DOMAIN possibilities :
                /\ possibilities[m].command = i /\ possibilities[m].score = 35 * n
                /\ Exact(possibilities[m], commands[i], tokens)
                /\ \A j \in 1..(m - 1) : possibilities[j].command # i
    BY <1>1, <2>1 DEF WordsScore, FirstOf
  <2> DEFINE p == possibilities[m]
             k == Cardinality(Lacks(p))
  <2>3. /\ p \in Possibility /\ p.command = i /\ p.score = 35 * n /\ Len(p.matches) = n
        /\ Exact(p, commands[p.command], tokens) /\ m \in 1..Len(possibilities)
    BY <1>4, <1>5, <2>2
  <2>4. ~ AllNokeyword(p)
    <3> DEFINE t == tokens[1]
    <3>1. 1 \in 1..n
      BY <1>4
    <3>2. p.matches[1] = NamedMatch(KeywordArgument(t))
      BY <2>3, <3>1 DEF Exact
    <3> HIDE DEF t, p
    <3>3. ~ p.matches[1].arg.nokeyword
      <4>1. p.matches[1].arg = KeywordArgument(t)
        BY <3>2, WordMatches
      <4> QED BY <4>1, WordMatches
    <3>4. 1 \in DOMAIN p.matches
      <4>1. p.matches \in Seq(Match)
        BY <2>3 DEF Possibility
      <4> QED BY <2>3, <3>1, <4>1, LenProperties
    <3> QED BY <3>3, <3>4 DEF AllNokeyword
  <2>5. Penalised(p) \in Range(kept)
    <3>1. ~ \E j \in 1..(m - 1) : possibilities[j].command = possibilities[m].command
      BY <2>2
    <3> QED BY <1>3, <2>3, <2>4, <3>1 DEF StandFor
  <2> HIDE DEF p
  <2>6. Penalised(p).score = p.score - 5 * k /\ k \in Nat /\ (k = 0 <=> Lacks(p) = {})
    BY <1>2, <1>7, <2>3, PenalisedIs
  <2>7. Lacks(p) = {}
    BY <1>2, <1>7, <2>3, ExactLacks
  <2>8. Penalised(p).score = 35 * n
    <3> HIDE DEF k, n
    <3> QED BY <1>4, <2>3, <2>6, <2>7
  <2> QED BY <2>5, <2>8
<1>8. \A p : Lacks(p)' = {} <=> Lacks(p) = {}
  BY <1>1 DEF Lacks
<1>9. WordsScore'
  BY <1>1 DEF WordsScore
<1>10. ASSUME NEW q \in Range(kept)
       PROVE  Scored(q, commands'[q.command], tokens') /\ (q.score = 35 * Len(tokens') => Lacks(q)' = {})
  BY <1>1, <1>6, <1>8
<1>11. \A q \in Range(possibilities') : /\ Scored(q, commands'[q.command], tokens')
                                        /\ q.score = 35 * Len(tokens') => Lacks(q)' = {}
  BY <1>1, <1>10
<1>12. \A i \in DOMAIN commands' : commands'[i].words = tokens' =>
          \E p \in Range(possibilities') : p.score = 35 * Len(tokens')
  BY <1>1, <1>7
<1>13. parsePhase' \notin {"run", "refused"}
  BY <1>1
<1> QED BY <1>9, <1>11, <1>12, <1>13 DEF WordsWin

LEMMA WordsWinRun ==
    ASSUME ParserTypes, WordsWin, ExecuteCommand
    PROVE  WordsScore' /\ WordsWin'
<1>1. /\ parsePhase = "parsed" /\ parsePhase' \in {"run", "refused"}
      /\ commands' = commands /\ tokens' = tokens /\ possibilities' = possibilities
      /\ possibilities = <<>> \/ poss' \in Best
  BY DEF ExecuteCommand
<1>2. Best' = Best /\ \A p : Lacks(p)' = Lacks(p)
  BY <1>1 DEF Best, Lacks
<1>3. /\ \A p \in Range(possibilities) : /\ Scored(p, commands[p.command], tokens)
                                         /\ p.score = 35 * Len(tokens) => Lacks(p) = {}
      /\ \A i \in DOMAIN commands : commands[i].words = tokens =>
            \E p \in Range(possibilities) : p.score = 35 * Len(tokens)
  BY <1>1 DEF WordsWin
<1>4. \A q \in Range(possibilities') : /\ Scored(q, commands'[q.command], tokens')
                                       /\ q.score = 35 * Len(tokens') => Lacks(q)' = {}
  BY <1>1, <1>2, <1>3
<1>5. \A i \in DOMAIN commands' : commands'[i].words = tokens' =>
          \E p \in Range(possibilities') : p.score = 35 * Len(tokens')
  BY <1>1, <1>3
<1>6. possibilities' = <<>> \/ poss' \in Best'
  BY <1>1, <1>2
<1> QED BY <1>1, <1>4, <1>5, <1>6 DEF WordsScore, WordsWin

WordsInv == ParserTypes /\ WordsScore /\ WordsWin

LEMMA WordsInvNext == ASSUME WordsInv, ParserNext \/ UNCHANGED parserVars PROVE WordsInv'
<1>1. ParserTypes'
  BY ParserTypesNext, ParserTypesStays DEF WordsInv
<1>2. CASE ParserNext
  BY <1>1, <1>2, WordsScoreToken, WordsWinEnd, WordsWinRun DEF WordsInv, ParserNext
<1>3. CASE UNCHANGED parserVars
  <2>1. UNCHANGED <<commands, tokens, possibilities, parsePhase, poss>>
    BY <1>3 DEF parserVars
  <2>2. Best' = Best /\ \A p : Lacks(p)' = Lacks(p)
    BY <2>1 DEF Best, Lacks
  <2>3. WordsScore'
    BY <2>1 DEF WordsInv, WordsScore
  <2>4. WordsWin'
    BY <2>1, <2>2 DEF WordsInv, WordsWin
  <2> QED BY <1>1, <2>3, <2>4 DEF WordsInv
<1> QED BY <1>2, <1>3

LEMMA WordsInvSuffices == ASSUME WordsInv PROVE FullySpelledWins
<1> SUFFICES ASSUME parsePhase \in {"run", "refused"}, NEW c \in Range(commands), c.words = tokens
             PROVE  poss.command # 0 /\ commands[poss.command].words = tokens
  BY DEF FullySpelledWins
<1>1. PICK i \in DOMAIN commands : commands[i].words = tokens
  BY DEF Range
<1>2. PICK p \in Range(possibilities) : p.score = 35 * Len(tokens)
  BY <1>1 DEF WordsInv, WordsWin
<1>3. poss \in Best
  <2>1. possibilities # <<>>
    BY <1>2 DEF Range
  <2> QED BY <2>1 DEF WordsInv, WordsWin
<1>4. poss \in Range(possibilities) /\ p.score <= poss.score
  BY <1>2, <1>3 DEF Best
<1>5. /\ poss \in Possibility /\ poss.command \in DOMAIN commands /\ Len(poss.matches) = Len(tokens)
      /\ Scored(poss, commands[poss.command], tokens)
      /\ poss.score = 35 * Len(tokens) => Lacks(poss) = {}
  BY <1>4 DEF WordsInv, WordsWin, ParserTypes, IsPossibility
<1>6. Len(tokens) \in Nat /\ DOMAIN commands = 1..Len(commands) /\ CommandsKnown /\ tokens \in Seq(Token)
  BY LensKnown DEF WordsInv, ParserTypes, CommandsKnown
<1>7. poss.score = 35 * Len(tokens)
  <2>1. poss.score \in Int /\ poss.score <= 35 * Len(tokens)
    BY <1>5 DEF Scored, Possibility
  <2> QED BY <1>2, <1>4, <1>6, <2>1
<1>8. Exact(poss, commands[poss.command], tokens) /\ Lacks(poss) = {}
  BY <1>5, <1>7 DEF Scored
<1>9. commands[poss.command].words = tokens
  BY <1>5, <1>6, <1>8, ExactLacks
<1> QED BY <1>5, <1>6, <1>9

\* Whoever types all words of a command gets that command: no abbreviation, optional argument or
\* longer command the words could stand for as well outweighs it, whatever the commands are and
\* however the sort orders readings of one score ($.clira.scoring, sortPossibilities).
THEOREM WordsTypedWin == Spec => []FullySpelledWins
<1>1. PageInit => WordsInv
  BY ParserTypesInit, WordsScoreInit DEF PageInit, WordsInv
<1>2. WordsInv /\ [PageNext]_pageVars => WordsInv'
  BY ParserSteps, WordsInvNext
<1>3. WordsInv => FullySpelledWins
  BY WordsInvSuffices
<1> QED BY <1>1, <1>2, <1>3, PTL DEF Spec

-----------------------------------------------------------------------------
(* Readings *)

\* The words before the k-th have named these arguments, and the last of them has this role.
NamedBefore(r, args, k) == {args[r[j][1]].name : j \in 1..(k - 1)}
NoRole                  == <<0, "none">>
RoleBefore(r, k)        == IF k > 1 THEN r[k - 1] ELSE NoRole

\* A word may have a role after them: a line of IsReading.
Opens(args, before) == before[2] = "name" /\ NeedsData(args[before[1]].type)

RoleFits(args, named, before, role, tok) ==
    \/ /\ role[2] = "value" /\ Opens(args, before) /\ before[1] = role[1]
       /\ args[role[1]].enums # <<>> => Range(args[role[1]].enums) \cap Abbreviates[tok] # {}
    \/ /\ role[2] = "name" /\ ~ Opens(args, before)
       /\ args[role[1]].name \notin named /\ args[role[1]].name \in Abbreviates[tok]
    \/ /\ role[2] = "plain" /\ ~ Opens(args, before)
       /\ args[role[1]].name \notin named /\ args[role[1]].nokeyword
       /\ \A i \in DOMAIN args : args[i].name \notin named =>
             /\ args[i].name \in Abbreviates[tok] => i > role[1]
             /\ args[i].nokeyword => i >= role[1]
    \/ /\ role[2] = "more" /\ before[1] = role[1] /\ before[2] # "name" /\ args[role[1]].multiple

RolesOf(args) == (DOMAIN args) \X Uses

LEMMA ReadingWordByWord ==
    ASSUME NEW args \in Seq(ArgumentSpec), NEW ts \in Seq(Token), NEW r \in [DOMAIN ts -> RolesOf(args)]
    PROVE  IsReading(r, args, ts) <=>
              \A k \in DOMAIN ts : RoleFits(args, NamedBefore(r, args, k), RoleBefore(r, k), r[k], ts[k])
<1> DEFINE Reads(k) ==
        LET arg       == args[r[k][1]]
            named     == {args[r[j][1]].name : j \in 1..(k - 1)}
            open      == k > 1 /\ r[k - 1][2] = "name" /\ NeedsData(args[r[k - 1][1]].type)
            ofLast    == k > 1 /\ r[k - 1][1] = r[k][1]
            unnamed == {i \in DOMAIN args : args[i].name \notin named}
        IN  CASE r[k][2] = "value" ->
                    /\ open /\ ofLast
                    /\ arg.enums # <<>> => Range(arg.enums) \cap Abbreviates[ts[k]] # {}
              [] r[k][2] = "name" ->
                    ~ open /\ r[k][1] \in unnamed /\ arg.name \in Abbreviates[ts[k]]
              [] r[k][2] = "plain" ->
                    /\ ~ open /\ r[k][1] \in unnamed /\ arg.nokeyword
                    /\ \A i \in unnamed : args[i].name \in Abbreviates[ts[k]] => i > r[k][1]
                    /\ \A i \in unnamed : args[i].nokeyword => i >= r[k][1]
              [] r[k][2] = "more" ->
                    ofLast /\ r[k - 1][2] # "name" /\ arg.multiple
<1>1. IsReading(r, args, ts) <=> \A k \in DOMAIN ts : Reads(k)
  BY Zenon DEF IsReading
<1>2. DOMAIN args = 1..Len(args) /\ Len(args) \in Nat /\ DOMAIN ts = 1..Len(ts) /\ Len(ts) \in Nat
  BY LenProperties
<1>3. ASSUME NEW k \in DOMAIN ts
      PROVE  Reads(k) <=> RoleFits(args, NamedBefore(r, args, k), RoleBefore(r, k), r[k], ts[k])
  <2> DEFINE named == NamedBefore(r, args, k)
             before == RoleBefore(r, k)
             open == k > 1 /\ r[k - 1][2] = "name" /\ NeedsData(args[r[k - 1][1]].type)
             ofLast == k > 1 /\ r[k - 1][1] = r[k][1]
             arg == args[r[k][1]]
             unnamed == {i \in DOMAIN args : args[i].name \notin named}
  <2>1. r[k][1] \in DOMAIN args /\ r[k][2] \in Uses /\ k \in Nat
    BY <1>2 DEF RolesOf
  <2>2. open <=> Opens(args, before)
    BY <1>2 DEF Opens, RoleBefore, NoRole
  <2>3. ofLast <=> before[1] = r[k][1]
    BY <1>2, <2>1 DEF RoleBefore, NoRole
  <2>4. k > 1 => r[k - 1][2] = before[2]
    BY DEF RoleBefore
  <2>5. r[k][1] \in unnamed <=> args[r[k][1]].name \notin named
    BY <2>1
  <2>6. Reads(k) <=>
          CASE r[k][2] = "value" ->
                    /\ open /\ ofLast
                    /\ arg.enums # <<>> => Range(arg.enums) \cap Abbreviates[ts[k]] # {}
              [] r[k][2] = "name" ->
                    ~ open /\ r[k][1] \in unnamed /\ arg.name \in Abbreviates[ts[k]]
              [] r[k][2] = "plain" ->
                    /\ ~ open /\ r[k][1] \in unnamed /\ arg.nokeyword
                    /\ \A i \in unnamed : args[i].name \in Abbreviates[ts[k]] => i > r[k][1]
                    /\ \A i \in unnamed : args[i].nokeyword => i >= r[k][1]
              [] r[k][2] = "more" ->
                    ofLast /\ r[k - 1][2] # "name" /\ arg.multiple
    BY Zenon DEF NamedBefore
  <2> DEFINE use == r[k][2]
             fits == RoleFits(args, named, before, r[k], ts[k])
  <2> HIDE DEF open, Reads
  <2>7. CASE use = "value"
    <3>1. fits <=> /\ Opens(args, before) /\ before[1] = r[k][1]
                   /\ arg.enums # <<>> => Range(arg.enums) \cap Abbreviates[ts[k]] # {}
      BY <2>7 DEF RoleFits
    <3>2. Reads(k) <=> /\ open /\ ofLast
                       /\ arg.enums # <<>> => Range(arg.enums) \cap Abbreviates[ts[k]] # {}
      BY <2>6, <2>7
    <3> QED BY <2>2, <2>3, <3>1, <3>2
  <2>8. CASE use = "name"
    <3>1. fits <=> ~ Opens(args, before) /\ arg.name \notin named /\ arg.name \in Abbreviates[ts[k]]
      BY <2>8 DEF RoleFits
    <3>2. Reads(k) <=> ~ open /\ r[k][1] \in unnamed /\ arg.name \in Abbreviates[ts[k]]
      BY <2>6, <2>8
    <3> QED BY <2>2, <2>5, <3>1, <3>2
  <2>9. CASE use = "plain"
    <3>1. fits <=> /\ ~ Opens(args, before) /\ arg.name \notin named /\ arg.nokeyword
                   /\ \A i \in DOMAIN args : args[i].name \notin named =>
                        /\ args[i].name \in Abbreviates[ts[k]] => i > r[k][1]
                        /\ args[i].nokeyword => i >= r[k][1]
      BY <2>9 DEF RoleFits
    <3>2. Reads(k) <=> /\ ~ open /\ r[k][1] \in unnamed /\ arg.nokeyword
                       /\ \A i \in unnamed : args[i].name \in Abbreviates[ts[k]] => i > r[k][1]
                       /\ \A i \in unnamed : args[i].nokeyword => i >= r[k][1]
      BY <2>6, <2>9
    <3> QED BY <2>2, <2>5, <3>1, <3>2
  <2>10. CASE use = "more"
    <3>1. fits <=> before[1] = r[k][1] /\ before[2] # "name" /\ arg.multiple
      BY <2>10 DEF RoleFits
    <3>2. Reads(k) <=> ofLast /\ r[k - 1][2] # "name" /\ arg.multiple
      BY <2>6, <2>10
    <3> QED BY <2>3, <2>4, <3>1, <3>2
  <2> QED BY <2>1, <2>7, <2>8, <2>9, <2>10 DEF Uses
<1> HIDE DEF Reads
<1> QED BY <1>1, <1>3

\* The readings of one more word are those of the words before it with a role that fits.
LEMMA ReadingGrows ==
    ASSUME NEW args \in Seq(ArgumentSpec), NEW ts \in Seq(Token), NEW tok \in Token,
           NEW r \in [DOMAIN ts -> RolesOf(args)], NEW s \in [DOMAIN Append(ts, tok) -> RolesOf(args)],
           \A k \in DOMAIN ts : s[k] = r[k]
    PROVE  IsReading(s, args, Append(ts, tok)) <=>
              /\ IsReading(r, args, ts)
              /\ LET n == Len(ts) + 1
                 IN  RoleFits(args, NamedBefore(r, args, n), RoleBefore(r, n), s[n], tok)
<1> DEFINE us == Append(ts, tok)
           n == Len(ts) + 1
<1>1. /\ us \in Seq(Token) /\ DOMAIN us = 1..n /\ us[n] = tok /\ n \in Nat /\ Len(ts) \in Nat
      /\ DOMAIN ts = 1..Len(ts) /\ \A k \in 1..Len(ts) : us[k] = ts[k]
  <2>1. us \in Seq(Token) /\ Len(us) = n /\ us[n] = tok /\ \A k \in 1..Len(ts) : us[k] = ts[k]
    BY AppendProperties
  <2> HIDE DEF us
  <2>2. DOMAIN us = 1..n /\ DOMAIN ts = 1..Len(ts) /\ Len(ts) \in Nat
    BY <2>1, LenProperties
  <2> QED BY <2>1, <2>2
<1> HIDE DEF us
<1>2. s \in [DOMAIN us -> RolesOf(args)]
  BY DEF us
<1> HIDE DEF n
<1>3. \A k \in 1..n : \A j \in 1..(k - 1) : j \in DOMAIN ts /\ s[j] = r[j]
  <2> DEFINE l == Len(ts)
  <2>1. l \in Nat /\ n = l + 1
    BY <1>1 DEF n
  <2> HIDE DEF l
  <2>2. \A k \in 1..n : \A j \in 1..(k - 1) : j \in 1..l
    BY <2>1
  <2>3. DOMAIN ts = 1..l
    BY <1>1 DEF l
  <2> QED BY <2>2, <2>3
<1>4. ASSUME NEW k \in 1..n
      PROVE  NamedBefore(s, args, k) = NamedBefore(r, args, k) /\ RoleBefore(s, k) = RoleBefore(r, k)
  <2>1. NamedBefore(s, args, k) = NamedBefore(r, args, k)
    BY <1>3 DEF NamedBefore
  <2>2. k > 1 => k - 1 \in 1..(k - 1)
    BY <1>1
  <2> QED BY <1>3, <2>1, <2>2 DEF RoleBefore
<1>5. \A k \in 1..n : k \in DOMAIN ts \/ k = n
  BY <1>1 DEF n
<1>6. n \in 1..n /\ \A k \in DOMAIN ts : k \in 1..n
  BY <1>1 DEF n
<1> DEFINE FitsIn(x, ws, k) == RoleFits(args, NamedBefore(x, args, k), RoleBefore(x, k), x[k], ws[k])
<1>7. /\ IsReading(s, args, us) <=> \A k \in 1..n : FitsIn(s, us, k)
      /\ IsReading(r, args, ts) <=> \A k \in DOMAIN ts : FitsIn(r, ts, k)
  BY <1>1, <1>2, ReadingWordByWord
<1>8. \A k \in DOMAIN ts : FitsIn(s, us, k) <=> FitsIn(r, ts, k)
  BY <1>1, <1>4, <1>6
<1>9. FitsIn(s, us, n) <=> RoleFits(args, NamedBefore(r, args, n), RoleBefore(r, n), s[n], tok)
  BY <1>1, <1>4, <1>6
<1> HIDE DEF FitsIn
<1>10. IsReading(s, args, us) <=> IsReading(r, args, ts) /\ FitsIn(s, us, n)
  BY <1>5, <1>6, <1>7, <1>8
<1> QED BY <1>9, <1>10 DEF us, n

\* A match is what the parser makes of a word with a role,
MatchFor(m, args, role) ==
    /\ m.arg = args[role[1]]
    /\ m.data = "" <=> role[2] = "name"
    /\ m.nokeyword <=> role[2] = "plain"
    /\ m.needsData <=> role[2] = "name" /\ NeedsData(args[role[1]].type)
    /\ m.multiple <=> role[2] # "name" /\ args[role[1]].multiple

\* and a possibility stands for a reading.
IsReadAs(p, r, args) == \A k \in 1..Len(p.matches) : MatchFor(p.matches[k], args, r[k])

\* A command as the command files declare it
WellArgued(c) ==
    /\ c \in CommandSpec /\ IsInjective(Arguments(c))
    /\ \A i, j, k \in DOMAIN Arguments(c) :
          k <= j /\ j < i /\ Arguments(c)[i].nokeyword /\ Arguments(c)[j].nokeyword
             => Arguments(c)[k].name # Arguments(c)[i].name

LEMMA WellArguedAre == ASSUME CommandsKnown, NEW c \in DOMAIN commands PROVE WellArgued(commands[c])
<1>1. commands \in CommandSets /\ commands[c] \in Range(commands) /\ commands[c] \in CommandSpec
  BY CommandsAre DEF CommandsKnown, Range
<1> QED BY <1>1, ArgumentsAssumption DEF WellArgued

\* What a possibility knows of the words before is what the reading it stands for says of them.
LEMMA KnowsReading ==
    ASSUME NEW args \in Seq(ArgumentSpec), NEW p \in Possibility, NEW n \in Nat, Len(p.matches) = n,
           NEW r \in [1..n -> RolesOf(args)], IsReadAs(p, r, args)
    PROVE  /\ Seen(p) = NamedBefore(r, args, n + 1)
           /\ Waiting(p) <=> Opens(args, RoleBefore(r, n + 1))
           /\ p.matches = <<>> <=> RoleBefore(r, n + 1) = NoRole
           /\ p.matches # <<>> => MatchFor(LastOf(p), args, RoleBefore(r, n + 1))
                                  /\ RoleBefore(r, n + 1) \in RolesOf(args)
<1> DEFINE before == RoleBefore(r, n + 1)
<1>1. p.matches \in Seq(Match) /\ DOMAIN p.matches = 1..n /\ (n = 0 <=> p.matches = <<>>)
  <2>1. p.matches \in Seq(Match)
    BY DEF Possibility
  <2> QED BY <2>1, EmptySeq, LenProperties
<1>2. Seen(p) = NamedBefore(r, args, n + 1)
  <2>1. \A k \in 1..n : p.matches[k].arg.name = args[r[k][1]].name
    BY DEF IsReadAs, MatchFor
  <2>2. n + 1 - 1 = n
    OBVIOUS
  <2>3. Seen(p) = {p.matches[k].arg.name : k \in 1..n}
    BY <1>1 DEF Seen
  <2>4. NamedBefore(r, args, n + 1) = {args[r[k][1]].name : k \in 1..n}
    BY <2>2 DEF NamedBefore
  <2>5. {p.matches[k].arg.name : k \in 1..n} = {args[r[k][1]].name : k \in 1..n}
    BY <2>1
  <2> QED BY <2>3, <2>4, <2>5
<1>3. p.matches # <<>> => before = r[n] /\ before \in RolesOf(args) /\ MatchFor(LastOf(p), args, before)
  <2> SUFFICES ASSUME p.matches # <<>>
               PROVE  before = r[n] /\ before \in RolesOf(args) /\ MatchFor(LastOf(p), args, before)
    OBVIOUS
  <2>1. n \in 1..n /\ n + 1 > 1 /\ n + 1 - 1 = n
    BY <1>1
  <2>2. before = r[n]
    BY <2>1 DEF RoleBefore
  <2> HIDE DEF before
  <2> QED BY <2>1, <2>2 DEF LastOf, IsReadAs
<1>4. p.matches = <<>> => before = NoRole
  BY <1>1 DEF RoleBefore
<1>5. NoRole \notin RolesOf(args) /\ ~ Opens(args, NoRole)
  BY DEF NoRole, RolesOf, Uses, Opens
<1> HIDE DEF before
<1>6. Waiting(p) <=> Opens(args, before)
  <2>1. CASE p.matches = <<>>
    BY <1>4, <1>5, <2>1 DEF Waiting
  <2>2. CASE p.matches # <<>>
    BY <1>3, <2>2 DEF Waiting, MatchFor, Opens
  <2> QED BY <2>1, <2>2
<1> QED BY <1>2, <1>3, <1>4, <1>5, <1>6 DEF before

LEMMA MatchesFor ==
    ASSUME NEW args, NEW i, args[i] \in ArgumentSpec, NEW d \in STRING, d # ""
    PROVE  /\ MatchFor(NamedMatch(args[i]), args, <<i, "name">>)
           /\ MatchFor(DataMatch(args[i], d), args, <<i, "value">>)
           /\ MatchFor(NokeyMatch(args[i], d), args, <<i, "plain">>)
           /\ args[i].multiple =>
                 MatchFor([DataMatch(args[i], d) EXCEPT !.multiple = TRUE], args, <<i, "more">>)
<1> DEFINE a == args[i]
<1>1. a.multiple \in BOOLEAN /\ NeedsData(a.type) \in BOOLEAN
  BY DEF ArgumentSpec, NeedsData
<1>2. <<i, "name">>[1] = i /\ <<i, "value">>[1] = i /\ <<i, "plain">>[1] = i /\ <<i, "more">>[1] = i
      /\ <<i, "name">>[2] = "name" /\ <<i, "value">>[2] = "value" /\ <<i, "plain">>[2] = "plain"
      /\ <<i, "more">>[2] = "more"
  OBVIOUS
<1> HIDE DEF a
<1>3. LET m == NamedMatch(a)
      IN  m.arg = a /\ m.data = "" /\ m.needsData = NeedsData(a.type) /\ m.multiple = FALSE /\ m.nokeyword = FALSE
  BY DEF NamedMatch
<1>4. LET m == DataMatch(a, d)
      IN  m.arg = a /\ m.data = d /\ m.needsData = FALSE /\ m.multiple = a.multiple /\ m.nokeyword = FALSE
  BY DEF DataMatch
<1>5. LET m == NokeyMatch(a, d)
      IN  m.arg = a /\ m.data = d /\ m.needsData = FALSE /\ m.multiple = a.multiple /\ m.nokeyword = TRUE
  BY DEF DataMatch, NokeyMatch
<1>6. LET m == [DataMatch(a, d) EXCEPT !.multiple = TRUE]
      IN  m.arg = a /\ m.data = d /\ m.needsData = FALSE /\ m.multiple = TRUE /\ m.nokeyword = FALSE
  BY DEF DataMatch
<1>7. MatchFor(NamedMatch(a), args, <<i, "name">>)
  BY <1>1, <1>2, <1>3 DEF MatchFor, a
<1>8. MatchFor(DataMatch(a, d), args, <<i, "value">>)
  BY <1>1, <1>2, <1>4 DEF MatchFor, a
<1>9. MatchFor(NokeyMatch(a, d), args, <<i, "plain">>)
  BY <1>1, <1>2, <1>5 DEF MatchFor, a
<1>10. a.multiple => MatchFor([DataMatch(a, d) EXCEPT !.multiple = TRUE], args, <<i, "more">>)
  BY <1>1, <1>2, <1>6 DEF MatchFor, a
<1> QED BY <1>7, <1>8, <1>9, <1>10 DEF a

\* Of one more match
Grows(p, q, args, role) == \E m \in Match : q.matches = Append(p.matches, m) /\ MatchFor(m, args, role)

\* A word whose value is waited for has one role.
LEMMA ValueReads ==
    ASSUME NEW args \in Seq(ArgumentSpec), NEW p \in Possibility, NEW tok \in Token, NEW before, NEW named,
           p.matches # <<>>, MatchFor(LastOf(p), args, before), before \in RolesOf(args), Opens(args, before)
    PROVE  /\ \A q : ValueOf(p, q, tok) =>
                 \E role \in RolesOf(args) : RoleFits(args, named, before, role, tok) /\ Grows(p, q, args, role)
           /\ \A role \in RolesOf(args) : RoleFits(args, named, before, role, tok) =>
                 \E q : ValueOf(p, q, tok) /\ Grows(p, q, args, role)
<1> DEFINE i == before[1]
           arg == args[i]
           role0 == <<i, "value">>
           fits == arg.enums # <<>> => Range(arg.enums) \cap Abbreviates[tok] # {}
<1>1. /\ i \in DOMAIN args /\ before[2] = "name" /\ LastOf(p).arg = arg /\ role0 \in RolesOf(args)
      /\ role0[1] = i /\ role0[2] = "value"
  BY DEF RolesOf, Uses, Opens, MatchFor
<1>2. arg \in ArgumentSpec /\ arg.enums \in Seq(STRING \ {""}) /\ tok \in STRING /\ tok # ""
  <2>1. arg \in ArgumentSpec
    BY <1>1, LenProperties, ElementOfSeq
  <2>2. tok \in STRING /\ tok # ""
    BY ParserAssumption
  <2> HIDE DEF arg
  <2>3. arg.enums \in Seq(STRING \ {""})
    BY <2>1 DEF ArgumentSpec
  <2> QED BY <2>1, <2>2, <2>3
<1>3. \A e \in Range(arg.enums) : e \in STRING /\ e # ""
  <2> DEFINE ens == arg.enums
  <2>1. ens \in Seq(STRING \ {""})
    BY <1>2
  <2> HIDE DEF ens
  <2> DEFINE X == STRING \ {""}
  <2>2. \A e \in Range(ens) : e \in X
    <3> HIDE DEF X
    <3>1. ens \in Seq(X)
      BY <2>1 DEF X
    <3> QED BY <3>1, RangeOfSeq
  <2> QED BY <2>2 DEF ens
<1>4. ASSUME NEW d \in STRING, d # "", NEW s \in Int
      PROVE  Grows(p, AddPossibility(p, DataMatch(arg, d), s), args, role0)
  <2>1. DataMatch(arg, d) \in Match
    BY <1>2, MatchesAre
  <2>2. MatchFor(DataMatch(arg, d), args, role0)
    BY <1>2, <1>4, MatchesFor
  <2> HIDE DEF arg, role0
  <2> QED BY <2>1, <2>2, Adds DEF Grows
<1>5. RoleFits(args, named, before, role0, tok) <=> fits
  <2> HIDE DEF role0
  <2> QED BY <1>1 DEF RoleFits
<1>6. ASSUME NEW role \in RolesOf(args), RoleFits(args, named, before, role, tok) PROVE role = role0
  <2>1. role[2] = "value" /\ before[1] = role[1]
    BY <1>1, <1>6 DEF RoleFits
  <2>2. role = <<role[1], role[2]>>
    BY DEF RolesOf
  <2> QED BY <2>1, <2>2
<1>7. 5 \in Int /\ 8 \in Int
  OBVIOUS
<1> HIDE DEF role0
<1>8. ASSUME NEW q, ValueOf(p, q, tok)
      PROVE  \E role \in RolesOf(args) : RoleFits(args, named, before, role, tok) /\ Grows(p, q, args, role)
  <2>1. fits /\ \E d \in STRING, s \in Int : d # "" /\ q = AddPossibility(p, DataMatch(arg, d), s)
    <3> HIDE DEF arg
    <3>1. CASE arg.enums = <<>> /\ q = AddPossibility(p, DataMatch(arg, tok), 5)
      BY <1>2, <1>7, <3>1
    <3>2. CASE /\ arg.enums # <<>>
               /\ \E e \in Range(arg.enums) : /\ e \in Abbreviates[tok]
                                              /\ q = AddPossibility(p, DataMatch(arg, e), 8)
      BY <1>3, <1>7, <3>2
    <3> QED BY <1>1, <1>8, <3>1, <3>2 DEF ValueOf
  <2> HIDE DEF arg, fits
  <2> QED BY <1>1, <1>4, <1>5, <2>1
<1>9. ASSUME NEW role \in RolesOf(args), RoleFits(args, named, before, role, tok)
      PROVE  \E q : ValueOf(p, q, tok) /\ Grows(p, q, args, role)
  <2>1. role = role0 /\ fits
    BY <1>5, <1>6, <1>9
  <2> HIDE DEF arg
  <2>2. CASE arg.enums = <<>>
    <3> DEFINE q == AddPossibility(p, DataMatch(arg, tok), 5)
    <3>1. ValueOf(p, q, tok)
      BY <1>1, <2>2 DEF ValueOf
    <3>2. Grows(p, q, args, role)
      BY <1>2, <1>4, <1>7, <2>1
    <3> QED BY <3>1, <3>2
  <2>3. CASE arg.enums # <<>>
    <3>1. PICK e \in Range(arg.enums) : e \in Abbreviates[tok]
      BY <2>1, <2>3
    <3> DEFINE q == AddPossibility(p, DataMatch(arg, e), 8)
    <3>2. ValueOf(p, q, tok)
      BY <1>1, <2>3, <3>1 DEF ValueOf
    <3>3. Grows(p, q, args, role)
      BY <1>3, <1>4, <1>7, <2>1
    <3> QED BY <3>2, <3>3
  <2> QED BY <2>2, <2>3
<1> QED BY <1>8, <1>9

\* Arguments without names come in order whichever names the words have.
InOrder(args) ==
    \A i, j, k \in DOMAIN args :
       k <= j /\ j < i /\ args[i].nokeyword /\ args[j].nokeyword => args[k].name # args[i].name

LEMMA PlainReads ==
    ASSUME NEW args \in Seq(ArgumentSpec), InOrder(args), NEW p \in Possibility, NEW tok \in Token,
           NEW before, NEW i \in DOMAIN args, ~ Opens(args, before)
    PROVE  PlainFits(p, args, tok, i) <=> RoleFits(args, Seen(p), before, <<i, "plain">>, tok)
<1> DEFINE fits == /\ args[i].name \notin Seen(p) /\ args[i].nokeyword
                   /\ \A k \in DOMAIN args : args[k].name \notin Seen(p) =>
                         /\ args[k].name \in Abbreviates[tok] => k > i
                         /\ args[k].nokeyword => k >= i
<1>1. DOMAIN args = 1..Len(args) /\ Len(args) \in Nat
  BY LenProperties
<1>2. RoleFits(args, Seen(p), before, <<i, "plain">>, tok) <=> fits
  <2> DEFINE role == <<i, "plain">>
  <2>1. role[1] = i /\ role[2] = "plain"
    OBVIOUS
  <2> HIDE DEF role
  <2>2. RoleFits(args, Seen(p), before, role, tok) <=> fits
    BY <2>1 DEF RoleFits
  <2> QED BY <2>2 DEF role
<1>3. \A k \in 1..i : k \in DOMAIN args /\ k <= i /\ ~ (k > i)
  BY <1>1
<1>4. \A k \in 1..(i - 1) : k \in DOMAIN args /\ k < i /\ ~ (k >= i)
  BY <1>1
<1>5. \A k \in DOMAIN args : (k > i \/ k \in 1..i) /\ (k >= i \/ k \in 1..(i - 1))
  BY <1>1
<1>6. \A j \in 1..(i - 1) : \A k \in 1..j : k \in DOMAIN args /\ k <= j
  BY <1>1
<1>7. ASSUME PlainFits(p, args, tok, i) PROVE fits
  <2>1. /\ args[i].nokeyword /\ args[i].name \notin Seen(p)
        /\ \A k \in 1..i : ~ (args[k].name \notin Seen(p) /\ args[k].name \in Abbreviates[tok])
        /\ ~ MissingPreviousNokeywords(p, args, i)
    BY <1>7 DEF PlainFits, Fits
  <2>2. ASSUME NEW j \in 1..(i - 1), args[j].nokeyword, args[j].name \notin Seen(p) PROVE FALSE
    <3>1. \A k \in 1..j : args[k].name # args[i].name
      BY <1>4, <1>6, <2>1, <2>2 DEF InOrder
    <3> QED BY <2>1, <2>2, <3>1 DEF MissingPreviousNokeywords
  <2> QED BY <1>5, <2>1, <2>2
<1>8. ASSUME fits PROVE PlainFits(p, args, tok, i)
  <2>1. ~ MissingPreviousNokeywords(p, args, i)
    BY <1>4, <1>8 DEF MissingPreviousNokeywords
  <2>2. \A k \in 1..i : ~ Fits(p, args, tok, k)
    BY <1>3, <1>8 DEF Fits
  <2> QED BY <1>8, <2>1, <2>2 DEF PlainFits
<1> QED BY <1>2, <1>7, <1>8

LEMMA OtherReads ==
    ASSUME NEW args \in Seq(ArgumentSpec), InOrder(args), NEW p \in Possibility, NEW tok \in Token,
           NEW n \in Nat, NEW before, p.matches = <<>> <=> before = NoRole,
           p.matches # <<>> => MatchFor(LastOf(p), args, before) /\ before \in RolesOf(args),
           ~ Opens(args, before)
    PROVE  /\ \A q : OtherOf(p, q, args, tok, n) =>
                 \E role \in RolesOf(args) : RoleFits(args, Seen(p), before, role, tok) /\ Grows(p, q, args, role)
           /\ \A role \in RolesOf(args) : RoleFits(args, Seen(p), before, role, tok) =>
                 \E q : OtherOf(p, q, args, tok, n) /\ Grows(p, q, args, role)
<1> DEFINE Fit(role) == RoleFits(args, Seen(p), before, role, tok)
           Q(i) == AddPossibility(p, NamedMatch(args[i]), NameScore(args[i], tok, i = n))
           P(i) == AddPossibility(p, NokeyMatch(args[i], tok), 2)
           M    == AddPossibility(p, MoreMatch(p, tok), 0)
           more == p.matches # <<>> /\ LastOf(p).multiple
<1>1. tok \in STRING /\ tok # "" /\ \A i \in DOMAIN args : args[i] \in ArgumentSpec
  BY LenProperties, ElementOfSeq, ParserAssumption
<1>2. ASSUME NEW i \in DOMAIN args
      PROVE  /\ Grows(p, Q(i), args, <<i, "name">>) /\ Grows(p, P(i), args, <<i, "plain">>)
             /\ <<i, "name">> \in RolesOf(args) /\ <<i, "plain">> \in RolesOf(args)
  <2>1. NamedMatch(args[i]) \in Match /\ NokeyMatch(args[i], tok) \in Match
    BY <1>1, MatchesAre
  <2>2. MatchFor(NamedMatch(args[i]), args, <<i, "name">>) /\ MatchFor(NokeyMatch(args[i], tok), args, <<i, "plain">>)
    BY <1>1, MatchesFor
  <2>3. NameScore(args[i], tok, i = n) \in Int /\ 2 \in Int
    BY DEF NameScore
  <2>4. /\ Q(i).matches = Append(p.matches, NamedMatch(args[i]))
        /\ P(i).matches = Append(p.matches, NokeyMatch(args[i], tok))
    BY <2>1, <2>3, Adds
  <2>5. <<i, "name">> \in RolesOf(args) /\ <<i, "plain">> \in RolesOf(args)
    BY DEF RolesOf, Uses
  <2> HIDE DEF Q, P
  <2> QED BY <2>1, <2>2, <2>4, <2>5 DEF Grows
<1>3. ASSUME NEW i \in DOMAIN args PROVE Fits(p, args, tok, i) <=> Fit(<<i, "name">>)
  <2> DEFINE role == <<i, "name">>
  <2>1. role[1] = i /\ role[2] = "name"
    OBVIOUS
  <2> HIDE DEF role
  <2>2. Fits(p, args, tok, i) <=> Fit(role)
    BY <2>1 DEF RoleFits, Fits
  <2> QED BY <2>2 DEF role
<1>4. \A i \in DOMAIN args : PlainFits(p, args, tok, i) <=> Fit(<<i, "plain">>)
  BY PlainReads
<1> DEFINE role0 == <<before[1], "more">>
<1>5. more => role0 \in RolesOf(args) /\ Fit(role0) /\ Grows(p, M, args, role0)
  <2> SUFFICES ASSUME more PROVE role0 \in RolesOf(args) /\ Fit(role0) /\ Grows(p, M, args, role0)
    OBVIOUS
  <2> DEFINE i == before[1]
  <2>1. /\ i \in DOMAIN args /\ LastOf(p).arg = args[i] /\ before[2] # "name" /\ args[i].multiple
        /\ role0 \in RolesOf(args) /\ role0[1] = i /\ role0[2] = "more"
    BY DEF RolesOf, Uses, MatchFor
  <2>2. Fit(role0)
    <3> HIDE DEF role0, i
    <3> QED BY <2>1 DEF RoleFits, i
  <2>3. MoreMatch(p, tok) \in Match /\ MatchFor(MoreMatch(p, tok), args, role0)
    <3> HIDE DEF i
    <3>1. MoreMatch(p, tok) = [DataMatch(args[i], tok) EXCEPT !.multiple = TRUE]
      BY <2>1 DEF MoreMatch
    <3>2. role0 = <<i, "more">>
      BY DEF i
    <3> HIDE DEF role0
    <3>3. MatchFor([DataMatch(args[i], tok) EXCEPT !.multiple = TRUE], args, <<i, "more">>)
      BY <1>1, <2>1, MatchesFor
    <3>4. [DataMatch(args[i], tok) EXCEPT !.multiple = TRUE] \in Match
      BY <1>1, <2>1, MatchesAre
    <3> QED BY <3>1, <3>2, <3>3, <3>4
  <2>4. M.matches = Append(p.matches, MoreMatch(p, tok))
    <3>1. 0 \in Int
      OBVIOUS
    <3> QED BY <2>3, <3>1, Adds
  <2> HIDE DEF M, role0
  <2> QED BY <2>1, <2>2, <2>3, <2>4 DEF Grows
<1>6. ASSUME NEW role \in RolesOf(args), Fit(role)
      PROVE  \/ \E i \in DOMAIN args : role = <<i, "name">> \/ role = <<i, "plain">>
             \/ more /\ role = role0
  <2>1. role = <<role[1], role[2]>> /\ role[1] \in DOMAIN args
    BY DEF RolesOf
  <2>2. \/ role[2] = "name" \/ role[2] = "plain"
        \/ role[2] = "more" /\ before[1] = role[1] /\ before[2] # "name" /\ args[role[1]].multiple
    BY <1>6 DEF RoleFits
  <2>3. CASE role[2] = "name" \/ role[2] = "plain"
    BY <2>1, <2>3
  <2>4. CASE role[2] = "more" /\ before[1] = role[1] /\ before[2] # "name" /\ args[role[1]].multiple
    <3>1. role = role0
      BY <2>1, <2>4
    <3>2. before # NoRole
      <4>1. 0 \notin DOMAIN args
        BY LenProperties
      <4> QED BY <2>1, <2>4, <4>1 DEF NoRole
    <3>3. MatchFor(LastOf(p), args, before) /\ p.matches # <<>>
      BY <3>2
    <3>4. LastOf(p).multiple
      BY <2>4, <3>3 DEF MatchFor
    <3> QED BY <3>1, <3>3, <3>4
  <2> QED BY <2>2, <2>3, <2>4
<1>7. \A q : OtherOf(p, q, args, tok, n) <=>
         \/ \E i \in DOMAIN args : \/ Fits(p, args, tok, i) /\ q = Q(i)
                                   \/ PlainFits(p, args, tok, i) /\ q = P(i)
         \/ more /\ q = M
  BY DEF OtherOf, ArgumentGives
<1> HIDE DEF Q, P, M, more, role0, Fit
<1>8. \A q : OtherOf(p, q, args, tok, n) => \E role \in RolesOf(args) : Fit(role) /\ Grows(p, q, args, role)
  <2> SUFFICES ASSUME NEW q, OtherOf(p, q, args, tok, n)
               PROVE  \E role \in RolesOf(args) : Fit(role) /\ Grows(p, q, args, role)
    OBVIOUS
  <2>1. ASSUME NEW i \in DOMAIN args, Fits(p, args, tok, i), q = Q(i)
        PROVE  \E role \in RolesOf(args) : Fit(role) /\ Grows(p, q, args, role)
    <3> DEFINE role == <<i, "name">>
    <3>1. role \in RolesOf(args) /\ Fit(role) /\ Grows(p, q, args, role)
      BY <1>2, <1>3, <2>1
    <3> HIDE DEF role
    <3> QED BY <3>1
  <2>2. ASSUME NEW i \in DOMAIN args, PlainFits(p, args, tok, i), q = P(i)
        PROVE  \E role \in RolesOf(args) : Fit(role) /\ Grows(p, q, args, role)
    <3> DEFINE role == <<i, "plain">>
    <3>1. role \in RolesOf(args) /\ Fit(role) /\ Grows(p, q, args, role)
      BY <1>2, <1>4, <2>2
    <3> HIDE DEF role
    <3> QED BY <3>1
  <2>3. ASSUME more, q = M
        PROVE  \E role \in RolesOf(args) : Fit(role) /\ Grows(p, q, args, role)
    BY <1>5, <2>3
  <2>4. \/ \E i \in DOMAIN args : Fits(p, args, tok, i) /\ q = Q(i)
        \/ \E i \in DOMAIN args : PlainFits(p, args, tok, i) /\ q = P(i)
        \/ more /\ q = M
    BY <1>7
  <2> QED BY <2>1, <2>2, <2>3, <2>4
<1>9. \A role \in RolesOf(args) : Fit(role) => \E q : OtherOf(p, q, args, tok, n) /\ Grows(p, q, args, role)
  <2> SUFFICES ASSUME NEW role \in RolesOf(args), Fit(role)
               PROVE  \E q : OtherOf(p, q, args, tok, n) /\ Grows(p, q, args, role)
    OBVIOUS
  <2>1. ASSUME NEW i \in DOMAIN args, role = <<i, "name">> PROVE OtherOf(p, Q(i), args, tok, n) /\ Grows(p, Q(i), args, role)
    <3>1. Fits(p, args, tok, i) /\ Grows(p, Q(i), args, role)
      BY <1>2, <1>3, <2>1
    <3> QED BY <1>7, <3>1
  <2>2. ASSUME NEW i \in DOMAIN args, role = <<i, "plain">> PROVE OtherOf(p, P(i), args, tok, n) /\ Grows(p, P(i), args, role)
    <3>1. PlainFits(p, args, tok, i) /\ Grows(p, P(i), args, role)
      BY <1>2, <1>4, <2>2
    <3> QED BY <1>7, <3>1
  <2>3. ASSUME more, role = role0 PROVE OtherOf(p, M, args, tok, n) /\ Grows(p, M, args, role)
    BY <1>5, <1>7, <2>3
  <2> QED BY <1>6, <2>1, <2>2, <2>3
<1> QED BY <1>8, <1>9 DEF Fit

\* The readings of one more word that NewPossibilities finds are those there are.
LEMMA NewReads ==
    ASSUME NEW p \in Possibility, NEW tok \in Token, NEW n \in Nat, Len(p.matches) = n,
           WellArgued(commands[p.command]),
           NEW r \in [1..n -> RolesOf(Arguments(commands[p.command]))],
           IsReadAs(p, r, Arguments(commands[p.command]))
    PROVE  LET args == Arguments(commands[p.command])
               Fit(role) == RoleFits(args, NamedBefore(r, args, n + 1), RoleBefore(r, n + 1), role, tok)
               new == NewPossibilities(p, tok, n + 1)
           IN  /\ \A q \in Range(new) : \E role \in RolesOf(args) : Fit(role) /\ Grows(p, q, args, role)
               /\ \A role \in RolesOf(args) : Fit(role) => \E q \in Range(new) : Grows(p, q, args, role)
<1> DEFINE args == Arguments(commands[p.command])
           before == RoleBefore(r, n + 1)
           named == NamedBefore(r, args, n + 1)
           new == NewPossibilities(p, tok, n + 1)
<1>1. args \in Seq(ArgumentSpec) /\ InOrder(args) /\ n + 1 \in Nat
  BY ArgumentsAre DEF WellArgued, InOrder
<1>2. \A q : q \in Range(new) <=>
         IF Waiting(p) THEN ValueOf(p, q, tok) ELSE OtherOf(p, q, args, tok, n + 1)
  BY <1>1, NewIs
<1> HIDE DEF args, new
<1>3. r \in [1..n -> RolesOf(args)] /\ IsReadAs(p, r, args)
  BY DEF args
<1>4. /\ Seen(p) = named /\ (Waiting(p) <=> Opens(args, before))
      /\ p.matches = <<>> <=> before = NoRole
      /\ p.matches # <<>> => MatchFor(LastOf(p), args, before) /\ before \in RolesOf(args)
  BY <1>1, <1>3, KnowsReading
<1> HIDE DEF before, named
<1> DEFINE m == n + 1
<1> HIDE DEF m
<1>5. m \in Nat /\ \A q : q \in Range(new) <=> IF Waiting(p) THEN ValueOf(p, q, tok) ELSE OtherOf(p, q, args, tok, m)
  BY <1>1, <1>2 DEF m
<1>6. CASE Waiting(p)
  <2>1. p.matches # <<>> /\ Opens(args, before) /\ \A q : q \in Range(new) <=> ValueOf(p, q, tok)
    BY <1>4, <1>5, <1>6 DEF Waiting
  <2>2. /\ \A q : ValueOf(p, q, tok) =>
              \E role \in RolesOf(args) : RoleFits(args, named, before, role, tok) /\ Grows(p, q, args, role)
        /\ \A role \in RolesOf(args) : RoleFits(args, named, before, role, tok) =>
              \E q : ValueOf(p, q, tok) /\ Grows(p, q, args, role)
    BY <1>1, <1>4, <2>1, ValueReads
  <2> QED BY <2>1, <2>2 DEF args, before, named, new
<1>7. CASE ~ Waiting(p)
  <2>1. ~ Opens(args, before) /\ \A q : q \in Range(new) <=> OtherOf(p, q, args, tok, m)
    BY <1>4, <1>5, <1>7
  <2>2. /\ \A q : OtherOf(p, q, args, tok, m) =>
              \E role \in RolesOf(args) : RoleFits(args, Seen(p), before, role, tok) /\ Grows(p, q, args, role)
        /\ \A role \in RolesOf(args) : RoleFits(args, Seen(p), before, role, tok) =>
              \E q : OtherOf(p, q, args, tok, m) /\ Grows(p, q, args, role)
    BY <1>1, <1>4, <1>5, <2>1, OtherReads
  <2>3. /\ \A q \in Range(new) :
              \E role \in RolesOf(args) : RoleFits(args, named, before, role, tok) /\ Grows(p, q, args, role)
        /\ \A role \in RolesOf(args) : RoleFits(args, named, before, role, tok) =>
              \E q \in Range(new) : Grows(p, q, args, role)
    BY <1>4, <2>1, <2>2
  <2> QED BY <2>3 DEF args, before, named, new
<1> QED BY <1>6, <1>7

\* A possibility stands for a reading of the words,
HasReading(p, args, ts) ==
    \E r \in [DOMAIN ts -> RolesOf(args)] : IsReading(r, args, ts) /\ IsReadAs(p, r, args)

\* and every reading of them for a command is there.
ReadingsHad(list, c, args, ts) ==
    \A r \in [DOMAIN ts -> RolesOf(args)] :
        IsReading(r, args, ts) => \E p \in Range(list) : p.command = c /\ IsReadAs(p, r, args)

ReadingsFound ==
    parsePhase = "typing" =>
        /\ \A p \in Range(possibilities) : HasReading(p, Arguments(commands[p.command]), tokens)
        /\ \A c \in DOMAIN commands : ReadingsHad(possibilities, c, Arguments(commands[c]), tokens)

\* With one more match a possibility is read as what it was, with the role of that match.
LEMMA ReadAsGrows ==
    ASSUME NEW args \in Seq(ArgumentSpec), NEW n \in Nat, NEW p \in Possibility, Len(p.matches) = n,
           NEW r \in [1..n -> RolesOf(args)], NEW s \in [1..(n + 1) -> RolesOf(args)],
           \A k \in 1..n : s[k] = r[k], IsReadAs(p, r, args),
           NEW q, Grows(p, q, args, s[n + 1])
    PROVE  IsReadAs(q, s, args)
<1>1. PICK m \in Match : q.matches = Append(p.matches, m) /\ MatchFor(m, args, s[n + 1])
  BY DEF Grows
<1>2. p.matches \in Seq(Match)
  BY DEF Possibility
<1>3. Len(q.matches) = n + 1 /\ q.matches[n + 1] = m /\ \A k \in 1..n : q.matches[k] = p.matches[k]
  BY <1>1, <1>2, AppendProperties
<1>4. \A k \in 1..n : MatchFor(p.matches[k], args, r[k])
  BY DEF IsReadAs
<1>5. \A k \in 1..(n + 1) : k \in 1..n \/ k = n + 1
  OBVIOUS
<1>6. ASSUME NEW k \in 1..(n + 1) PROVE MatchFor(q.matches[k], args, s[k])
  <2>1. CASE k \in 1..n
    BY <1>3, <1>4, <2>1
  <2>2. CASE k = n + 1
    BY <1>1, <1>3, <2>2
  <2> QED BY <1>5, <2>1, <2>2
<1> QED BY <1>3, <1>6 DEF IsReadAs

\* What is found for one more word is a reading of it too,
LEMMA ReadingOfOneMore ==
    ASSUME NEW p \in Possibility, NEW tok \in Token, NEW ts \in Seq(Token), Len(p.matches) = Len(ts),
           WellArgued(commands[p.command]), HasReading(p, Arguments(commands[p.command]), ts),
           NEW q \in Range(NewPossibilities(p, tok, Len(ts) + 1))
    PROVE  HasReading(q, Arguments(commands[p.command]), Append(ts, tok))
<1> DEFINE args == Arguments(commands[p.command])
           n == Len(ts)
           us == Append(ts, tok)
<1>1. /\ args \in Seq(ArgumentSpec) /\ n \in Nat /\ DOMAIN ts = 1..n /\ DOMAIN us = 1..(n + 1)
  <2>1. us \in Seq(Token) /\ Len(us) = n + 1 /\ n \in Nat
    BY AppendProperties, LenProperties
  <2> HIDE DEF us
  <2>2. DOMAIN us = 1..(n + 1) /\ DOMAIN ts = 1..n
    BY <2>1, LenProperties
  <2> QED BY <2>1, <2>2, ArgumentsAre DEF WellArgued
<1>2. PICK r \in [DOMAIN ts -> RolesOf(args)] : IsReading(r, args, ts) /\ IsReadAs(p, r, args)
  BY DEF HasReading
<1>3. r \in [1..n -> RolesOf(args)]
  BY <1>1, <1>2
<1>4. PICK role \in RolesOf(args) : /\ RoleFits(args, NamedBefore(r, args, n + 1), RoleBefore(r, n + 1), role, tok)
                                    /\ Grows(p, q, args, role)
  BY <1>1, <1>2, <1>3, NewReads
<1> DEFINE s == [k \in 1..(n + 1) |-> IF k \in 1..n THEN r[k] ELSE role]
<1> HIDE DEF args, n, us
<1>5. /\ s \in [1..(n + 1) -> RolesOf(args)] /\ s[n + 1] = role
      /\ \A k \in 1..n : s[k] = r[k]
  <2>1. \A k \in 1..n : k \in 1..(n + 1)
    BY <1>1
  <2>2. n + 1 \in 1..(n + 1) /\ n + 1 \notin 1..n
    BY <1>1
  <2>3. \A k \in 1..(n + 1) : s[k] \in RolesOf(args)
    BY <1>3, <1>4
  <2> QED BY <2>1, <2>2, <2>3
<1> HIDE DEF s
<1>6. s \in [DOMAIN us -> RolesOf(args)] /\ \A k \in DOMAIN ts : s[k] = r[k]
  BY <1>1, <1>5
<1>7. IsReading(s, args, us)
  <2>1. s \in [DOMAIN Append(ts, tok) -> RolesOf(args)]
    BY <1>6 DEF us
  <2>2. RoleFits(args, NamedBefore(r, args, Len(ts) + 1), RoleBefore(r, Len(ts) + 1), s[Len(ts) + 1], tok)
    BY <1>4, <1>5 DEF n
  <2> QED BY <1>1, <1>2, <1>6, <2>1, <2>2, ReadingGrows DEF us
<1>8. IsReadAs(q, s, args)
  <2>1. Grows(p, q, args, s[n + 1]) /\ Len(p.matches) = n
    BY <1>4, <1>5 DEF n
  <2> QED BY <1>1, <1>2, <1>3, <1>5, <2>1, ReadAsGrows
<1>9. HasReading(q, args, us)
  BY <1>6, <1>7, <1>8 DEF HasReading
<1> QED BY <1>9 DEF args, us

\* and every reading of it is found, by what stands for the reading of the words before.
LEMMA ReadingsOfOneMore ==
    ASSUME CommandsKnown, NEW tok \in Token, NEW ts \in Seq(Token), NEW c \in DOMAIN commands, NEW list,
           \A p \in Range(list) : p \in Possibility /\ Len(p.matches) = Len(ts),
           ReadingsHad(list, c, Arguments(commands[c]), ts),
           NEW s \in [DOMAIN Append(ts, tok) -> RolesOf(Arguments(commands[c]))],
           IsReading(s, Arguments(commands[c]), Append(ts, tok))
    PROVE  \E p \in Range(list) : /\ p.command = c
                                  /\ \E q \in Range(NewPossibilities(p, tok, Len(ts) + 1)) :
                                        IsReadAs(q, s, Arguments(commands[c]))
<1> DEFINE args == Arguments(commands[c])
           n == Len(ts)
           us == Append(ts, tok)
           r == [k \in DOMAIN ts |-> s[k]]
<1>1. /\ args \in Seq(ArgumentSpec) /\ WellArgued(commands[c])
      /\ n \in Nat /\ DOMAIN ts = 1..n /\ DOMAIN us = 1..(n + 1)
  <2>1. us \in Seq(Token) /\ Len(us) = n + 1 /\ n \in Nat
    BY AppendProperties, LenProperties
  <2> HIDE DEF us
  <2>2. DOMAIN us = 1..(n + 1) /\ DOMAIN ts = 1..n
    BY <2>1, LenProperties
  <2> QED BY <2>1, <2>2, CommandsAre, WellArguedAre
<1>2. s \in [1..(n + 1) -> RolesOf(args)]
  BY <1>1
<1>3. r \in [DOMAIN ts -> RolesOf(args)] /\ r \in [1..n -> RolesOf(args)] /\ \A k \in DOMAIN ts : s[k] = r[k]
  <2> HIDE DEF n, us, args
  <2>1. \A k \in 1..n : k \in 1..(n + 1)
    BY <1>1
  <2> QED BY <1>1, <1>2, <2>1
<1> HIDE DEF r
<1>4. /\ IsReading(r, args, ts)
      /\ RoleFits(args, NamedBefore(r, args, n + 1), RoleBefore(r, n + 1), s[n + 1], tok)
  BY <1>1, <1>3, ReadingGrows
<1>5. PICK p \in Range(list) : p.command = c /\ IsReadAs(p, r, args)
  BY <1>3, <1>4 DEF ReadingsHad
<1>6. /\ p \in Possibility /\ Len(p.matches) = n /\ args = Arguments(commands[p.command])
      /\ WellArgued(commands[p.command])
  BY <1>1, <1>5
<1>7. s[n + 1] \in RolesOf(args)
  <2> HIDE DEF n, us, args
  <2>1. n + 1 \in 1..(n + 1)
    BY <1>1
  <2> QED BY <1>2, <2>1
<1>8. PICK q \in Range(NewPossibilities(p, tok, n + 1)) : Grows(p, q, args, s[n + 1])
  <2> DEFINE brgs == Arguments(commands[p.command])
  <2>1. r \in [1..n -> RolesOf(brgs)] /\ IsReadAs(p, r, brgs) /\ s[n + 1] \in RolesOf(brgs)
        /\ RoleFits(brgs, NamedBefore(r, brgs, n + 1), RoleBefore(r, n + 1), s[n + 1], tok)
    BY <1>3, <1>4, <1>5, <1>6, <1>7
  <2>2. \E q \in Range(NewPossibilities(p, tok, n + 1)) : Grows(p, q, brgs, s[n + 1])
    BY <1>1, <1>6, <2>1, NewReads
  <2> QED BY <1>6, <2>2
<1> HIDE DEF n, args, us
<1>9. IsReadAs(q, s, args)
  BY <1>1, <1>2, <1>3, <1>5, <1>6, <1>8, ReadAsGrows
<1> QED BY <1>5, <1>8, <1>9 DEF n, args

LEMMA ReadingsFoundInit == ParserInit => ReadingsFound
<1> SUFFICES ASSUME ParserInit PROVE ReadingsFound
  OBVIOUS
<1>1. ParserTypes /\ tokens = <<>> /\ CommandsKnown
  BY ParserTypesInit DEF ParserInit, ParserTypes, CommandsKnown
<1>2. possibilities = [c \in DOMAIN commands |-> [NoReading EXCEPT !.command = c]]
  BY DEF ParserInit, InitialPossibilities
<1>3. tokens \in Seq(Token) /\ DOMAIN tokens = {} /\ Len(tokens) = 0
  <2>1. tokens \in Seq(Token) /\ Len(tokens) = 0
    BY <1>1, EmptySeq DEF ParserTypes
  <2>2. DOMAIN tokens = 1..Len(tokens)
    BY <2>1, LenProperties
  <2> QED BY <2>1, <2>2
<1>4. \A p \in Range(possibilities) : 1..Len(p.matches) = {}
  <2>1. \A p \in Range(possibilities) : Len(p.matches) = 0
    BY <1>1, <1>3 DEF ParserTypes, IsPossibility
  <2> QED BY <2>1
<1>5. \A r, args : \A p \in Range(possibilities) : IsReadAs(p, r, args)
  BY <1>4 DEF IsReadAs
<1>6. ASSUME NEW args, NEW r PROVE IsReading(r, args, tokens)
  BY <1>3 DEF IsReading
<1>7. ASSUME NEW p \in Range(possibilities) PROVE HasReading(p, Arguments(commands[p.command]), tokens)
  <2> DEFINE args == Arguments(commands[p.command])
             r == [k \in DOMAIN tokens |-> NoRole]
  <2>1. r \in [DOMAIN tokens -> RolesOf(args)]
    BY <1>3
  <2> HIDE DEF r, args
  <2>2. HasReading(p, args, tokens)
    BY <1>5, <1>6, <2>1 DEF HasReading
  <2> QED BY <2>2 DEF args
<1>8. ASSUME NEW c \in DOMAIN commands PROVE ReadingsHad(possibilities, c, Arguments(commands[c]), tokens)
  <2> DEFINE p == [NoReading EXCEPT !["command"] = c]
  <2>1. p.command = c
    BY DEF NoReading
  <2>2. p \in Range(possibilities)
    BY <1>2 DEF Range
  <2> HIDE DEF p
  <2> QED BY <1>5, <2>1, <2>2 DEF ReadingsHad
<1> QED BY <1>7, <1>8 DEF ReadingsFound

LEMMA ReadingsFoundToken ==
    ASSUME ParserTypes, ReadingsFound, NEW tok \in Token, NextToken(tok)
    PROVE  ReadingsFound'
<1> DEFINE n == Len(tokens) + 1
           ss == [k \in DOMAIN possibilities |-> NewPossibilities(possibilities[k], tok, n)]
<1>1. /\ n \in Nat /\ tokens' = Append(tokens, tok)
      /\ ss \in Seq(Seq(Possibility)) /\ DOMAIN ss = DOMAIN possibilities
      /\ possibilities' = FlattenSeq(ss)
  BY NextPossibilities
<1>2. commands' = commands /\ parsePhase = "typing"
  BY DEF NextToken
<1>3. CommandsKnown /\ tokens \in Seq(Token)
  BY DEF ParserTypes, CommandsKnown
<1>4. \A k \in DOMAIN possibilities : ss[k] = NewPossibilities(possibilities[k], tok, n)
  OBVIOUS
<1> HIDE DEF ss
<1>5. /\ \A q \in Range(possibilities') : \E k \in DOMAIN ss : q \in Range(ss[k])
      /\ \A k \in DOMAIN ss : \A q \in Range(ss[k]) : q \in Range(possibilities')
  BY <1>1, RangeOfFlat
<1>6. ASSUME NEW p \in Range(possibilities)
      PROVE  /\ p \in Possibility /\ p.command \in DOMAIN commands /\ Len(p.matches) = Len(tokens)
             /\ WellArgued(commands[p.command]) /\ Arguments(commands[p.command]) \in Seq(ArgumentSpec)
             /\ HasReading(p, Arguments(commands[p.command]), tokens)
  <2>1. p \in Possibility /\ p.command \in DOMAIN commands /\ Len(p.matches) = Len(tokens)
    BY DEF ParserTypes, IsPossibility
  <2> QED BY <1>2, <1>3, <2>1, WellArguedAre, CommandsAre DEF ReadingsFound
<1>7. ASSUME NEW q \in Range(possibilities')
      PROVE  HasReading(q, Arguments(commands[q.command]), tokens')
  <2>1. PICK k \in DOMAIN possibilities : q \in Range(NewPossibilities(possibilities[k], tok, n))
    BY <1>1, <1>4, <1>5
  <2> DEFINE p == possibilities[k]
  <2>2. p \in Range(possibilities)
    BY DEF Range
  <2>3. q \in Range(NewPossibilities(p, tok, n))
    BY <2>1
  <2> HIDE DEF p
  <2>4. HasReading(q, Arguments(commands[p.command]), Append(tokens, tok))
    BY <1>3, <1>6, <2>2, <2>3, ReadingOfOneMore
  <2>5. q.command = p.command
    <3> HIDE DEF n
    <3> QED BY <1>1, <1>6, <2>2, <2>3, NewGrow
  <2> QED BY <1>1, <2>4, <2>5
<1>8. ASSUME NEW c \in DOMAIN commands
      PROVE  ReadingsHad(possibilities', c, Arguments(commands[c]), tokens')
  <2> DEFINE args == Arguments(commands[c])
  <2>1. ASSUME NEW s \in [DOMAIN Append(tokens, tok) -> RolesOf(args)], IsReading(s, args, Append(tokens, tok))
        PROVE  \E q \in Range(possibilities') : q.command = c /\ IsReadAs(q, s, args)
    <3>1. /\ \A p \in Range(possibilities) : p \in Possibility /\ Len(p.matches) = Len(tokens)
          /\ ReadingsHad(possibilities, c, args, tokens)
      BY <1>2, <1>6 DEF ReadingsFound
    <3>2. PICK p \in Range(possibilities) :
                 /\ p.command = c
                 /\ \E q \in Range(NewPossibilities(p, tok, Len(tokens) + 1)) : IsReadAs(q, s, args)
      BY <1>3, <2>1, <3>1, ReadingsOfOneMore
    <3>3. PICK q \in Range(NewPossibilities(p, tok, n)) : IsReadAs(q, s, args)
      BY <3>2
    <3> HIDE DEF n, args
    <3>4. q.command = c
      BY <1>1, <1>6, <3>2, <3>3, NewGrow
    <3>5. PICK k \in DOMAIN possibilities : p = possibilities[k]
      BY <3>2 DEF Range
    <3>6. q \in Range(possibilities')
      BY <1>1, <1>4, <1>5, <3>3, <3>5
    <3> QED BY <3>3, <3>4, <3>6
  <2> HIDE DEF args
  <2>2. ReadingsHad(possibilities', c, args, Append(tokens, tok))
    BY <2>1 DEF ReadingsHad
  <2> QED BY <1>1, <2>2 DEF args
<1>9. \A q \in Range(possibilities') : HasReading(q, Arguments(commands'[q.command]), tokens')
  BY <1>2, <1>7
<1>10. \A c \in DOMAIN commands' : ReadingsHad(possibilities', c, Arguments(commands'[c]), tokens')
  BY <1>2, <1>8
<1> QED BY <1>9, <1>10 DEF ReadingsFound

LEMMA ReadingsFoundNext ==
    ASSUME ParserTypes, ReadingsFound, ParserNext \/ UNCHANGED parserVars PROVE ReadingsFound'
<1>1. ASSUME NEW tok \in Token, NextToken(tok) PROVE ReadingsFound'
  BY <1>1, ReadingsFoundToken
<1>2. CASE EndOfInput \/ ExecuteCommand
  <2>1. parsePhase' # "typing"
    BY <1>2 DEF EndOfInput, ExecuteCommand
  <2> QED BY <2>1 DEF ReadingsFound
<1>3. CASE UNCHANGED parserVars
  BY <1>3 DEF parserVars, ReadingsFound
<1> QED BY <1>1, <1>2, <1>3 DEF ParserNext

\* A possibility that stands for a reading is taken for that reading.
LEMMA TakenFor ==
    ASSUME tokens \in Seq(Token), NEW args \in Seq(ArgumentSpec), IsInjective(args),
           NEW p \in Possibility, args = Arguments(commands[p.command]), Len(p.matches) = Len(tokens),
           NEW r \in [DOMAIN tokens -> RolesOf(args)], IsReading(r, args, tokens), IsReadAs(p, r, args)
    PROVE  ReadingOf(p) = r /\ r \in [DOMAIN tokens -> Roles(args)]
<1>1. DOMAIN tokens = 1..Len(tokens) /\ Len(tokens) \in Nat
  BY LenProperties
<1>2. DOMAIN p.matches = DOMAIN tokens
  <2>1. p.matches \in Seq(Match)
    BY DEF Possibility
  <2> QED BY <1>1, <2>1, LenProperties
<1>3. ASSUME NEW k \in DOMAIN tokens
      PROVE  /\ MatchFor(p.matches[k], args, r[k]) /\ k \in Nat
             /\ r[k] = <<r[k][1], r[k][2]>> /\ r[k][1] \in DOMAIN args /\ r[k][2] \in Uses
             /\ RoleFits(args, NamedBefore(r, args, k), RoleBefore(r, k), r[k], tokens[k])
  <2>1. RoleFits(args, NamedBefore(r, args, k), RoleBefore(r, k), r[k], tokens[k])
    BY ReadingWordByWord
  <2>2. MatchFor(p.matches[k], args, r[k])
    BY <1>1 DEF IsReadAs
  <2> QED BY <1>1, <2>1, <2>2 DEF RolesOf
<1>4. NoRole[1] \notin DOMAIN args /\ NoRole[2] # "name"
  <2>1. DOMAIN args = 1..Len(args)
    BY LenProperties
  <2> QED BY <2>1 DEF NoRole
<1>5. ASSUME NEW k \in DOMAIN tokens PROVE Use(p, k) = r[k][2] /\ r[k] \in Roles(args)
  <2> DEFINE m == p.matches[k]
             role == r[k]
             before == RoleBefore(r, k)
  <2>1. /\ MatchFor(m, args, role) /\ role = <<role[1], role[2]>>
        /\ role[1] \in DOMAIN args /\ role[2] \in Uses
        /\ RoleFits(args, NamedBefore(r, args, k), before, role, tokens[k])
    BY <1>3
  <2>2. /\ m.data = "" <=> role[2] = "name"
        /\ m.nokeyword <=> role[2] = "plain"
    BY <2>1 DEF MatchFor
  <2>3. before # NoRole => MatchFor(p.matches[k - 1], args, before)
    <3> SUFFICES ASSUME before # NoRole PROVE MatchFor(p.matches[k - 1], args, before)
      OBVIOUS
    <3>1. k > 1 /\ before = r[k - 1]
      BY DEF RoleBefore
    <3>2. k - 1 \in DOMAIN tokens
      BY <1>1, <3>1
    <3> HIDE DEF before
    <3> QED BY <1>3, <3>1, <3>2
  <2>4. before # NoRole => (p.matches[k - 1].data = "" <=> before[2] = "name")
    BY <2>3 DEF MatchFor
  <2>5. Use(p, k) = IF m.data = "" THEN "name"
                    ELSE IF m.nokeyword THEN "plain"
                    ELSE IF p.matches[k - 1].data = "" THEN "value" ELSE "more"
    BY DEF Use
  <2> HIDE DEF m, before
  <2>6. CASE role[2] = "name"
    <3>1. args[role[1]].name \in Abbreviates[tokens[k]]
      BY <2>1, <2>6 DEF RoleFits
    <3>2. Use(p, k) = "name"
      BY <2>2, <2>5, <2>6
    <3> HIDE DEF role
    <3>3. role \in Roles(args)
      BY <2>1, <2>6, <3>1 DEF Roles
    <3> QED BY <2>6, <3>2, <3>3 DEF role
  <2>7. CASE role[2] = "plain"
    <3>1. args[role[1]].nokeyword
      BY <2>1, <2>7 DEF RoleFits
    <3>2. Use(p, k) = "plain"
      BY <2>2, <2>5, <2>7
    <3> HIDE DEF role
    <3>3. role \in Roles(args)
      BY <2>1, <2>7, <3>1 DEF Roles
    <3> QED BY <2>7, <3>2, <3>3 DEF role
  <2>8. CASE role[2] = "value"
    <3>1. Opens(args, before) /\ before[1] = role[1]
      BY <2>1, <2>8 DEF RoleFits
    <3>2. before[2] = "name" /\ NeedsData(args[role[1]].type) /\ before # NoRole
      BY <1>4, <3>1 DEF Opens
    <3>3. Use(p, k) = "value"
      BY <2>2, <2>4, <2>5, <2>8, <3>2
    <3> HIDE DEF role
    <3>4. role \in Roles(args)
      BY <2>1, <2>8, <3>2 DEF Roles
    <3> QED BY <2>8, <3>3, <3>4 DEF role
  <2>9. CASE role[2] = "more"
    <3>1. before[1] = role[1] /\ before[2] # "name" /\ args[role[1]].multiple
      BY <2>1, <2>9 DEF RoleFits
    <3>2. before # NoRole
      BY <1>4, <2>1, <3>1
    <3>3. Use(p, k) = "more"
      BY <2>2, <2>4, <2>5, <2>9, <3>1, <3>2
    <3> HIDE DEF role
    <3>4. role \in Roles(args)
      BY <2>1, <2>9, <3>1 DEF Roles
    <3> QED BY <2>9, <3>3, <3>4 DEF role
  <2> QED BY <2>1, <2>6, <2>7, <2>8, <2>9 DEF Uses
<1>6. ASSUME NEW k \in DOMAIN tokens PROVE (CHOOSE i \in DOMAIN args : args[i] = p.matches[k].arg) = r[k][1]
  <2> DEFINE j == r[k][1]
  <2>1. j \in DOMAIN args /\ args[j] = p.matches[k].arg
    BY <1>3 DEF MatchFor
  <2>2. \A i \in DOMAIN args : args[i] = p.matches[k].arg => i = j
    BY <2>1 DEF IsInjective
  <2> HIDE DEF j
  <2>3. (CHOOSE i \in DOMAIN args : args[i] = p.matches[k].arg) = j
    BY <2>1, <2>2
  <2> QED BY <2>3 DEF j
<1>7. ReadingOf(p) = [k \in DOMAIN tokens |-> <<CHOOSE i \in DOMAIN args : args[i] = p.matches[k].arg, Use(p, k)>>]
  BY <1>2 DEF ReadingOf
<1>8. ASSUME NEW k \in DOMAIN tokens
      PROVE  <<CHOOSE i \in DOMAIN args : args[i] = p.matches[k].arg, Use(p, k)>> = r[k]
  BY <1>3, <1>5, <1>6
<1>9. r = [k \in DOMAIN tokens |-> r[k]]
  OBVIOUS
<1>10. ReadingOf(p) = r
  BY <1>7, <1>8, <1>9
<1>11. r \in [DOMAIN tokens -> Roles(args)]
  BY <1>5, <1>9
<1> QED BY <1>10, <1>11

LEMMA ReadingsFoundSuffice == ASSUME ParserTypes, ReadingsFound PROVE FindsAllReadings
<1> SUFFICES ASSUME parsePhase = "typing", NEW c \in DOMAIN commands
             PROVE  {ReadingOf(p) : p \in {q \in Range(possibilities) : q.command = c}}
                       = {r \in [DOMAIN tokens -> Roles(Arguments(commands[c]))] :
                            IsReading(r, Arguments(commands[c]), tokens)}
  BY DEF FindsAllReadings
<1> DEFINE args == Arguments(commands[c])
           found == {ReadingOf(p) : p \in {q \in Range(possibilities) : q.command = c}}
<1>1. CommandsKnown /\ tokens \in Seq(Token)
  BY DEF ParserTypes, CommandsKnown
<1>2. args \in Seq(ArgumentSpec) /\ IsInjective(args)
  BY <1>1, CommandsAre, WellArguedAre DEF WellArgued
<1>3. ASSUME NEW p \in Range(possibilities), p.command = c
      PROVE  p \in Possibility /\ Len(p.matches) = Len(tokens) /\ args = Arguments(commands[p.command])
  BY <1>3 DEF ParserTypes, IsPossibility
<1>4. /\ \A p \in Range(possibilities) : HasReading(p, Arguments(commands[p.command]), tokens)
      /\ ReadingsHad(possibilities, c, args, tokens)
  BY DEF ReadingsFound
<1>5. ASSUME NEW p \in Range(possibilities), p.command = c
      PROVE  ReadingOf(p) \in [DOMAIN tokens -> Roles(args)] /\ IsReading(ReadingOf(p), args, tokens)
  <2>1. HasReading(p, args, tokens)
    BY <1>4, <1>5
  <2>2. PICK r \in [DOMAIN tokens -> RolesOf(args)] : IsReading(r, args, tokens) /\ IsReadAs(p, r, args)
    BY <2>1 DEF HasReading
  <2>3. p \in Possibility /\ Len(p.matches) = Len(tokens) /\ args = Arguments(commands[p.command])
    BY <1>3, <1>5
  <2> HIDE DEF args
  <2>4. ReadingOf(p) = r /\ r \in [DOMAIN tokens -> Roles(args)]
    BY <1>1, <1>2, <2>2, <2>3, TakenFor
  <2> QED BY <2>2, <2>4
<1>6. ASSUME NEW r \in [DOMAIN tokens -> Roles(args)], IsReading(r, args, tokens)
      PROVE  \E p \in Range(possibilities) : p.command = c /\ ReadingOf(p) = r
  <2>1. r \in [DOMAIN tokens -> RolesOf(args)]
    <3>1. Roles(args) \subseteq RolesOf(args)
      BY DEF Roles, RolesOf
    <3> HIDE DEF args
    <3> QED BY <3>1
  <2>2. PICK p \in Range(possibilities) : p.command = c /\ IsReadAs(p, r, args)
    BY <1>4, <1>6, <2>1 DEF ReadingsHad
  <2>3. p \in Possibility /\ Len(p.matches) = Len(tokens) /\ args = Arguments(commands[p.command])
    BY <1>3, <2>2
  <2> HIDE DEF args
  <2>4. ReadingOf(p) = r
    BY <1>1, <1>2, <1>6, <2>1, <2>2, <2>3, TakenFor
  <2> QED BY <2>2, <2>4
<1> HIDE DEF args
<1>7. \A x \in found : x \in [DOMAIN tokens -> Roles(args)] /\ IsReading(x, args, tokens)
  BY <1>5
<1>8. \A x \in [DOMAIN tokens -> Roles(args)] : IsReading(x, args, tokens) => x \in found
  BY <1>6
<1> HIDE DEF found
<1>9. found = {r \in [DOMAIN tokens -> Roles(args)] : IsReading(r, args, tokens)}
  BY <1>7, <1>8
<1> QED BY <1>9 DEF found, args

\* The loop of parse() finds all readings of the words there are and no other, whatever the
\* commands declare and whatever was typed: no early return of Command.parse drops one, and
\* none is made up (buildInitialPossibilities, newPossibilities, missingPreviousNokeywords).
THEOREM ReadingsAreFound == Spec => []FindsAllReadings
<1>1. PageInit => ParserTypes /\ ReadingsFound
  BY ParserTypesInit, ReadingsFoundInit DEF PageInit
<1>2. ParserTypes /\ ReadingsFound /\ [PageNext]_pageVars => (ParserTypes /\ ReadingsFound)'
  BY ParserSteps, ParserTypesNext, ParserTypesStays, ReadingsFoundNext
<1>3. ParserTypes /\ ReadingsFound => FindsAllReadings
  BY ReadingsFoundSuffice
<1> QED BY <1>1, <1>2, <1>3, PTL DEF Spec

=============================================================================
