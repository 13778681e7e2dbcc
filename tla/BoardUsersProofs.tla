-------------------------- MODULE BoardUsersProofs --------------------------
(***************************************************************************)
(* Proofs about BoardUsers: its types, what every tab shows of the others, *)
(* one name for the tabs of an identity, the cookies that hold it, and     *)
(* what the tabs know of their access.                                     *)
(***************************************************************************)
EXTENDS BoardUsers, SequenceLemmas, FiniteSetTheorems

-----------------------------------------------------------------------------
(* Sequences of messages *)

\* SetToSeq lists the elements of a finite set.
LEMMA SetToSeqListsTheSet ==
  ASSUME NEW S, IsFiniteSet(S)
  PROVE  /\ SetToSeq(S) \in Seq(S)
         /\ DOMAIN SetToSeq(S) = 1..Len(SetToSeq(S))
         /\ \A x \in S : \E i \in DOMAIN SetToSeq(S) : SetToSeq(S)[i] = x
<1> DEFINE n == Cardinality(S)
<1>1. n \in Nat /\ ExistsBijection(1..n, S) BY FS_CardinalityType
<1>2. PICK g \in [1..n -> S] : IsInjective(g)
  BY <1>1 DEF ExistsBijection, Bijection, Injection
<1> DEFINE f == SetToSeq(S)
<1>3. f \in [1..n -> S] /\ IsInjective(f)
  <2>1. \E h \in [1..n -> S] : IsInjective(h) BY <1>2
  <2> QED BY <2>1 DEF SetToSeq
<1> HIDE DEF f
<1>4. f \in Injection(1..n, S) BY <1>3 DEF Injection
<1>5. Cardinality(1..n) = n BY <1>1, FS_Interval
<1>6. f \in Surjection(1..n, S) BY <1>4, <1>5, FS_Injection
<1>7. \A x \in S : \E i \in 1..n : f[i] = x BY <1>6 DEF Surjection
<1>8. f \in Seq(S) /\ Len(f) = n BY <1>1, <1>3, FunctionIsSeq
<1> QED BY <1>3, <1>7, <1>8 DEF f

\* The last message of a kind, when more messages are sent.
LEMMA LastOfConcat ==
  ASSUME NEW S, NEW v \in Seq(S), NEW w \in Seq(S), NEW K
  PROVE  /\ \A i : IsLast(v \o w, K, i) =>
              \/ IsLast(v, K, i) /\ HasNone(w, K) /\ (v \o w)[i] = v[i]
              \/ \E j \in DOMAIN w : w[j] \in K /\ (v \o w)[i] = w[j]
         /\ HasNone(v \o w, K) => HasNone(v, K) /\ HasNone(w, K)
<1>1. /\ Len(v) \in Nat /\ Len(w) \in Nat
      /\ DOMAIN v = 1..Len(v) /\ DOMAIN w = 1..Len(w) BY LenProperties
<1> DEFINE u == v \o w
<1>2. /\ u \in Seq(S) /\ Len(u) = Len(v) + Len(w)
      /\ \A i \in 1..Len(v) + Len(w) : u[i] = IF i <= Len(v) THEN v[i] ELSE w[i - Len(v)]
  BY ConcatProperties
<1>3. DOMAIN u = 1..Len(v) + Len(w) BY <1>2, LenProperties
<1> HIDE DEF u
<1>4. \A i \in DOMAIN v : i \in DOMAIN u /\ u[i] = v[i] BY <1>1, <1>2, <1>3
<1>5. \A j \in DOMAIN w : Len(v) + j \in DOMAIN u /\ u[Len(v) + j] = w[j]
  BY <1>1, <1>2, <1>3
<1>6. ASSUME NEW i, IsLast(u, K, i)
      PROVE  \/ IsLast(v, K, i) /\ HasNone(w, K) /\ u[i] = v[i]
             \/ \E j \in DOMAIN w : w[j] \in K /\ u[i] = w[j]
  <2>1. i \in DOMAIN u /\ u[i] \in K /\ \A j \in DOMAIN u : j > i => u[j] \notin K
    BY <1>6 DEF IsLast
  <2>2. CASE i \in DOMAIN v
    <3>1. \A j \in DOMAIN v : j > i => v[j] \notin K BY <1>4, <2>1
    <3>2. \A j \in DOMAIN w : w[j] \notin K
      <4>1. \A j \in DOMAIN w : Len(v) + j > i BY <1>1, <2>2
      <4> QED BY <1>5, <2>1, <4>1
    <3> QED BY <1>4, <2>1, <2>2, <3>1, <3>2 DEF IsLast, HasNone
  <2>3. CASE i \notin DOMAIN v
    <3>1. i - Len(v) \in DOMAIN w /\ Len(v) + (i - Len(v)) = i BY <1>1, <1>3, <2>1, <2>3
    <3> QED BY <1>5, <2>1, <3>1
  <2> QED BY <2>2, <2>3
<1>7. HasNone(u, K) => HasNone(v, K) /\ HasNone(w, K) BY <1>4, <1>5 DEF HasNone
<1> QED BY <1>6, <1>7 DEF u

\* The last message of a kind, when the first one is received.
LEMMA LastOfTail ==
  ASSUME NEW S, NEW w \in Seq(S), w # << >>, NEW K
  PROVE  /\ \A i : IsLast(Tail(w), K, i) => IsLast(w, K, i + 1) /\ Tail(w)[i] = w[i + 1]
         /\ HasNone(Tail(w), K) => IF Head(w) \in K THEN IsLast(w, K, 1) /\ w[1] = Head(w)
                                   ELSE HasNone(w, K)
<1>1. Len(w) \in Nat \ {0} /\ DOMAIN w = 1..Len(w) BY LenProperties, EmptySeq
<1> DEFINE u == Tail(w)
<1>2. u \in Seq(S) /\ Len(u) = Len(w) - 1 /\ \A i \in 1..Len(u) : u[i] = w[i + 1]
  BY HeadTailProperties
<1>3. DOMAIN u = 1..Len(w) - 1 BY <1>2, LenProperties
<1>4. Head(w) = w[1] OBVIOUS
<1> HIDE DEF u
<1>5. \A j \in DOMAIN w : j > 1 => j - 1 \in DOMAIN u /\ u[j - 1] = w[j]
  BY <1>1, <1>2, <1>3
<1>6. ASSUME NEW i, IsLast(u, K, i) PROVE IsLast(w, K, i + 1) /\ u[i] = w[i + 1]
  <2>1. i \in DOMAIN u /\ u[i] \in K /\ \A j \in DOMAIN u : j > i => u[j] \notin K
    BY <1>6 DEF IsLast
  <2>2. i + 1 \in DOMAIN w /\ u[i] = w[i + 1] BY <1>1, <1>2, <1>3, <2>1
  <2>3. ASSUME NEW j \in DOMAIN w, j > i + 1 PROVE w[j] \notin K
    <3>1. j > 1 /\ j - 1 > i BY <1>1, <1>3, <2>1, <2>3
    <3> QED BY <1>5, <2>1, <3>1
  <2> QED BY <2>1, <2>2, <2>3 DEF IsLast
<1>7. ASSUME HasNone(u, K)
      PROVE  IF w[1] \in K THEN IsLast(w, K, 1) ELSE HasNone(w, K)
  <2>1. \A j \in DOMAIN w : j > 1 => w[j] \notin K BY <1>5, <1>7 DEF HasNone
  <2>2. \A j \in DOMAIN w : j = 1 \/ j > 1 BY <1>1
  <2>3. 1 \in DOMAIN w BY <1>1
  <2> QED BY <2>1, <2>2, <2>3 DEF IsLast, HasNone
<1> QED BY <1>4, <1>6, <1>7 DEF u

-----------------------------------------------------------------------------
(* Types *)

\* Sockets are pairs of a tab and a number, and there are finitely many.
LEMMA Sockets ==
  /\ \A s \in Socket : /\ s = <<s[1], s[2]>> /\ s[1] \in Tab /\ Owner(s) = s[1]
                       /\ s[2] \in 1..MaxConn[s[1]]
                       /\ Identity(s) = SecretOf[s[1]] /\ Identity(s) \in Secret
  /\ \A t \in Tab : \A k \in 1..MaxConn[t] :
       <<t, k>> \in Socket /\ <<t, k>>[1] = t /\ <<t, k>>[2] = k
  /\ IsFiniteSet(Socket)
<1>1. \A s \in Socket : /\ s = <<s[1], s[2]>> /\ s[1] \in Tab
                        /\ s[2] \in 1..MaxConn[s[1]] BY DEF Socket
<1>2. \A t \in Tab : \A k \in 1..MaxConn[t] :
         <<t, k>> \in Socket /\ <<t, k>>[1] = t /\ <<t, k>>[2] = k BY DEF Socket
<1>3. IsFiniteSet(Socket)
  <2> DEFINE Own(t) == {t} \X (1..MaxConn[t])
             F      == [t \in Tab |-> Own(t)]
             Image  == {Own(t) : t \in Tab}
  <2>1. F \in Surjection(Tab, Image) BY DEF Surjection
  <2>2. IsFiniteSet(Image)
    <3> HIDE DEF Image, F
    <3> QED BY <2>1, FS_Surjection, UsersAssumption
  <2>3. \A t \in Tab : IsFiniteSet(Own(t))
    <3> TAKE t \in Tab
    <3>1. IsFiniteSet({t}) BY FS_Singleton
    <3>2. MaxConn[t] \in Int BY UsersAssumption
    <3>3. IsFiniteSet(1..MaxConn[t]) BY <3>2, FS_Interval
    <3> QED BY <3>1, <3>3, FS_Product
  <2>4. \A T \in Image : IsFiniteSet(T) BY <2>3
  <2>5. IsFiniteSet(UNION Image)
    <3> HIDE DEF Image
    <3> QED BY <2>2, <2>4, FS_UNION
  <2> QED BY <2>5 DEF Socket
<1> QED BY <1>1, <1>2, <1>3, UsersAssumption DEF Owner, Identity

\* The messages about some sockets, one for each, in any order.
LEMMA News ==
  ASSUME NEW mine \in SUBSET Socket, NEW m \in [mine -> Message]
  PROVE  LET q == SetToSeq({m[s] : s \in mine}) IN
         /\ q \in Seq(Message)
         /\ \A i \in DOMAIN q : \E s \in mine : q[i] = m[s]
         /\ \A s \in mine : \E i \in DOMAIN q : q[i] = m[s]
<1> DEFINE S == {m[s] : s \in mine}
<1>1. IsFiniteSet(mine) BY Sockets, FS_Subset
<1>2. m \in Surjection(mine, S) BY DEF Surjection
<1>3. S \subseteq Message OBVIOUS
<1>4. \A x \in S : \E s \in mine : x = m[s] OBVIOUS
<1>5. \A s \in mine : m[s] \in S OBVIOUS
<1> DEFINE q == SetToSeq(S)
<1>6. IsFiniteSet(S)
  <2> HIDE DEF S
  <2> QED BY <1>1, <1>2, FS_Surjection
<1>7. q \in Seq(S) /\ \A x \in S : \E i \in DOMAIN q : q[i] = x
  <2> HIDE DEF S
  <2> QED BY <1>6, SetToSeqListsTheSet
<1>8. q \in Seq(Message) /\ \A i \in DOMAIN q : q[i] \in S
  <2> HIDE DEF S, q
  <2> QED BY <1>3, <1>7, SeqMonotonic, ElementOfSeq, LenProperties
<1> HIDE DEF S, q
<1>9. /\ q \in Seq(Message)
      /\ \A i \in DOMAIN q : \E s \in mine : q[i] = m[s]
      /\ \A s \in mine : \E i \in DOMAIN q : q[i] = m[s]
  BY <1>4, <1>5, <1>7, <1>8
<1> QED BY <1>9 DEF q, S

LEMMA MessageTypes ==
  /\ \A s \in Socket, u \in UserRecord : Joined(s, u) \in Message
  /\ \A s \in Socket : Left(s) \in Message
  /\ \A a \in AccessRecord : BoardState(a) \in Message
  /\ \A us \in Users, a \in AccessRecord : Bootstrap(us, a) \in Message
  /\ Notice \in Message
  BY DEF Joined, Left, BoardState, Bootstrap, Notice, Message

\* What the server says of the access of a tab.  With nothing left to expire,
\* the tab may edit, and moderates only if it always does.
LEMMA AccessType ==
  ASSUME now \in Nat, bans \in [secrets: [Secret -> 0..MaxTime], ips: [Ip -> 0..MaxTime]],
         NEW g \in [Secret -> 0..MaxTime], NEW t \in Tab
  PROVE  /\ Access(g, t) \in AccessRecord
         /\ Access(g, t).moderate => Access(g, t).edit
         /\ Access(g, t).left = None =>
              Access(g, t).edit /\ (Access(g, t).moderate => t \in Permanent)
<1> DEFINE e == GrantEnd(g, t)
           b == BanEnd(t)
<1>1. e \in 0..MaxTime BY UsersAssumption DEF GrantEnd
<1>2. b \in 0..MaxTime
  <2>1. bans.secrets[SecretOf[t]] \in 0..MaxTime /\ bans.ips[IpOf[t]] \in 0..MaxTime
    BY UsersAssumption
  <2>2. \A x, y \in 0..MaxTime : Max({x, y}) \in {x, y} BY UsersAssumption DEF Max
  <2> QED BY <2>1, <2>2 DEF BanEnd
<1>3. Moderates(g, t) \in BOOLEAN /\ Banned(g, t) \in BOOLEAN BY DEF Moderates, Banned
<1>4. Access(g, t).left \in (1..MaxTime) \union {None}
  <2>1. e > now => e - now \in 1..MaxTime BY <1>1, UsersAssumption
  <2>2. b > now => b - now \in 1..MaxTime BY <1>2, UsersAssumption
  <2> HIDE DEF e, b
  <2> QED BY <2>1, <2>2 DEF Access, Banned, e, b
<1>5. Access(g, t).left = None => ~(e > now) /\ ~Banned(g, t)
  <2>1. e > now => e - now \in Nat BY <1>1
  <2>2. b > now => b - now \in Nat BY <1>2
  <2>3. None \notin Nat BY UsersAssumption
  <2> QED BY <2>1, <2>2, <2>3 DEF Access, Banned
<1> QED BY <1>3, <1>4, <1>5 DEF Access, AccessRecord, Moderates, Banned

LEMMA UserType ==
  ASSUME TypeOK, NEW t \in Tab, NEW name \in Name \union {None}
  PROVE  User(t, name) \in UserRecord /\ User(t, name).name = name
<1>1. Access(grants, t) \in AccessRecord BY AccessType DEF TypeOK
<1> QED BY <1>1 DEF User, UserRecord, AccessRecord

LEMMA UsersType ==
  ASSUME TypeOK, NEW s \in Socket
  PROVE  users[s] \in UserRecord \union {None} /\ (IsOn(s) => users[s] \in UserRecord)
  BY DEF TypeOK, Users, IsOn

LEMMA JoinNameType ==
  ASSUME TypeOK, NEW t \in Tab
  PROVE  JoinName(t) \in Name \union {None}
<1> DEFINE peers == {s \in Socket : IsOn(s) /\ Identity(s) = SecretOf[t] /\ users[s].name # None}
<1>1. CASE peers # {}
  <2>1. (CHOOSE s \in peers : TRUE) \in peers BY <1>1
  <2>2. \A s \in peers : users[s].name \in Name \union {None} BY UsersType DEF UserRecord
  <2> HIDE DEF peers
  <2>3. users[CHOOSE s \in peers : TRUE].name \in Name \union {None} BY <2>1, <2>2
  <2> QED BY <1>1, <2>3 DEF JoinName, peers
<1>2. CASE peers = {}
  <2>1. tab[t].urlName \in Name \union {None} BY DEF TypeOK, TabRecord
  <2>2. cookie[SecretOf[t]] \in Name \union {None} BY UsersAssumption DEF TypeOK
  <2> QED BY <1>2, <2>1, <2>2 DEF JoinName
<1> QED BY <1>1, <1>2

\* What is sent to all sockets on the board.
LEMMA SentType ==
  ASSUME TypeOK, NEW ms \in [Socket -> Seq(Message)]
  PROVE  /\ Sent(ms) \in [Socket -> Seq(Message)]
         /\ \A s \in Socket :
              /\ Sent(ms)[s] = IF Hears(s) THEN wire[s] \o ms[s] ELSE wire[s]
              /\ Sent(ms)[s] # << >> => tab[Owner(s)].conn = s[2]
<1>1. \A s \in Socket : wire[s] \in Seq(Message) /\ wire[s] \o ms[s] \in Seq(Message)
  BY ConcatProperties DEF TypeOK
<1>2. \A s \in Socket : Sent(ms)[s] = IF Hears(s) THEN wire[s] \o ms[s] ELSE wire[s]
  BY DEF Sent
<1>3. \A s \in Socket : Sent(ms)[s] # << >> => tab[Owner(s)].conn = s[2]
  BY <1>2 DEF TypeOK, Hears
<1> QED BY <1>1, <1>2, <1>3 DEF Sent

\* What the others are told of sockets that are gone, and of new records.
LeftOf(gone)        == SetToSeq({Left(s) : s \in gone})
JoinedOf(mine, new) == SetToSeq({Joined(s, new[s]) : s \in mine})

LEMMA LeftNews ==
  ASSUME NEW gone \in SUBSET Socket
  PROVE  LET q == LeftOf(gone) IN
         /\ q \in Seq(Message)
         /\ \A i \in DOMAIN q : \E s \in gone : q[i] = Left(s)
         /\ \A s \in gone : \E i \in DOMAIN q : q[i] = Left(s)
<1> DEFINE m == [s \in gone |-> Left(s)]
<1>1. m \in [gone -> Message] BY MessageTypes
<1> DEFINE A == {m[s] : s \in gone}
           B == {Left(s) : s \in gone}
<1>2. A = B OBVIOUS
<1>3. \A s \in gone : m[s] = Left(s) OBVIOUS
<1>4. /\ SetToSeq(A) \in Seq(Message)
      /\ \A i \in DOMAIN SetToSeq(A) : \E s \in gone : SetToSeq(A)[i] = m[s]
      /\ \A s \in gone : \E i \in DOMAIN SetToSeq(A) : SetToSeq(A)[i] = m[s]
  <2> HIDE DEF m
  <2> QED BY <1>1, News
<1> HIDE DEF m, A, B
<1>5. /\ SetToSeq(B) \in Seq(Message)
      /\ \A i \in DOMAIN SetToSeq(B) : \E s \in gone : SetToSeq(B)[i] = Left(s)
      /\ \A s \in gone : \E i \in DOMAIN SetToSeq(B) : SetToSeq(B)[i] = Left(s)
  BY <1>2, <1>3, <1>4
<1> QED BY <1>5 DEF B, LeftOf

LEMMA JoinedNews ==
  ASSUME NEW mine \in SUBSET Socket, NEW new, \A s \in mine : new[s] \in UserRecord
  PROVE  LET q == JoinedOf(mine, new) IN
         /\ q \in Seq(Message)
         /\ \A i \in DOMAIN q : \E s \in mine : q[i] = Joined(s, new[s])
         /\ \A s \in mine : \E i \in DOMAIN q : q[i] = Joined(s, new[s])
<1> DEFINE m == [s \in mine |-> Joined(s, new[s])]
<1>1. m \in [mine -> Message] BY MessageTypes
<1> DEFINE A == {m[s] : s \in mine}
           B == {Joined(s, new[s]) : s \in mine}
<1>2. A = B OBVIOUS
<1>3. \A s \in mine : m[s] = Joined(s, new[s]) OBVIOUS
<1>4. /\ SetToSeq(A) \in Seq(Message)
      /\ \A i \in DOMAIN SetToSeq(A) : \E s \in mine : SetToSeq(A)[i] = m[s]
      /\ \A s \in mine : \E i \in DOMAIN SetToSeq(A) : SetToSeq(A)[i] = m[s]
  <2> HIDE DEF m
  <2> QED BY <1>1, News
<1> HIDE DEF m, A, B
<1>5. /\ SetToSeq(B) \in Seq(Message)
      /\ \A i \in DOMAIN SetToSeq(B) : \E s \in mine : SetToSeq(B)[i] = Joined(s, new[s])
      /\ \A s \in mine : \E i \in DOMAIN SetToSeq(B) : SetToSeq(B)[i] = Joined(s, new[s])
  BY <1>2, <1>3, <1>4
<1> QED BY <1>5 DEF B, JoinedOf

LEMMA RemovedType ==
  ASSUME TypeOK, NEW gone \in SUBSET Socket, NEW ws \in [Socket -> Seq(Message)],
         \A s \in Socket : ws[s] # << >> => tab[Owner(s)].conn = s[2]
  PROVE  /\ Removed(gone, ws) \in [Socket -> Seq(Message)]
         /\ \A s \in Socket :
              /\ Removed(gone, ws)[s] = IF Hears(s) /\ s \notin gone
                   THEN ws[s] \o LeftOf(gone) ELSE ws[s]
              /\ Removed(gone, ws)[s] # << >> => tab[Owner(s)].conn = s[2]
<1> DEFINE q == LeftOf(gone)
<1>1. q \in Seq(Message) BY LeftNews
<1>2. \A s \in Socket : ws[s] \in Seq(Message) /\ ws[s] \o q \in Seq(Message)
  <2> HIDE DEF q
  <2> QED BY <1>1, ConcatProperties
<1>3. \A s \in Socket :
        Removed(gone, ws)[s] = IF Hears(s) /\ s \notin gone THEN ws[s] \o q ELSE ws[s]
  BY DEF Removed, LeftOf
<1>4. \A s \in Socket : Removed(gone, ws)[s] # << >> => tab[Owner(s)].conn = s[2]
  <2> HIDE DEF q
  <2> QED BY <1>3 DEF Hears
<1>5. Removed(gone, ws) \in [Socket -> Seq(Message)]
  <2> HIDE DEF q
  <2> QED BY <1>2 DEF Removed, q, LeftOf
<1> QED BY <1>3, <1>4, <1>5

\* The types of what only the server changes, when the tabs do not move.
LEMMA ServerStepType ==
  ASSUME TypeOK, UNCHANGED <<tab, cookie>>, now' \in Nat, events' \in 0..MaxEvents,
         bans' \in [secrets: [Secret -> 0..MaxTime], ips: [Ip -> 0..MaxTime]],
         grants' \in [Secret -> 0..MaxTime],
         users' \in Users, closing' \subseteq Socket,
         wire' \in [Socket -> Seq(Message)],
         \A s \in Socket : wire'[s] # << >> => tab[Owner(s)].conn = s[2]
  PROVE  TypeOK'
  BY DEF TypeOK

LEMMA EventType == ASSUME TypeOK, Event \/ UNCHANGED events PROVE events' \in 0..MaxEvents
<1>1. MaxEvents \in Nat BY UsersAssumption
<1> QED BY <1>1 DEF TypeOK, Event

LEMMA RemoveUsersType ==
  ASSUME TypeOK, NEW gone \in SUBSET Socket, RemoveUsers(gone, wire),
         UNCHANGED <<now, bans, grants, tab, cookie>>, Event \/ UNCHANGED events
  PROVE  TypeOK'
<1> DEFINE on == {s \in gone : IsOn(s)}
<1>1. /\ on \in SUBSET Socket /\ wire \in [Socket -> Seq(Message)]
      /\ \A s \in Socket : wire[s] # << >> => tab[Owner(s)].conn = s[2] BY DEF TypeOK
<1>2. wire' = Removed(on, wire) BY DEF RemoveUsers
<1>3. /\ wire' \in [Socket -> Seq(Message)]
      /\ \A s \in Socket : wire'[s] # << >> => tab[Owner(s)].conn = s[2]
  <2> HIDE DEF on
  <2> QED BY <1>1, <1>2, RemovedType
<1>4. users' \in Users /\ closing' \subseteq Socket BY DEF RemoveUsers, TypeOK, Users
<1>5. events' \in 0..MaxEvents BY EventType
<1> QED BY <1>3, <1>4, <1>5, ServerStepType DEF TypeOK

\* The first message for a tab.
LEMMA ReceivedType ==
  ASSUME TypeOK, NEW t \in Tab, tab[t].conn # 0
  PROVE  /\ Attached(t) \in Socket /\ Owner(Attached(t)) = t /\ Attached(t)[2] = tab[t].conn
         /\ wire[Attached(t)] # << >> =>
              /\ Received(t) \in Message
              /\ Taken(t) \in [Socket -> Seq(Message)]
              /\ \A s \in Socket : Taken(t)[s] =
                   IF s = Attached(t) THEN Tail(wire[Attached(t)]) ELSE wire[s]
<1>1. tab[t].conn \in 1..MaxConn[t] BY UsersAssumption DEF TypeOK
<1>2. Attached(t) \in Socket /\ Owner(Attached(t)) = t /\ Attached(t)[2] = tab[t].conn
  BY <1>1, Sockets DEF Attached, Owner
<1>3. wire[Attached(t)] \in Seq(Message) BY <1>2 DEF TypeOK
<1>4. wire[Attached(t)] # << >> =>
        Head(wire[Attached(t)]) \in Message /\ Tail(wire[Attached(t)]) \in Seq(Message)
  BY <1>3, HeadTailProperties
<1> QED BY <1>2, <1>4 DEF Received, Taken, TypeOK

\* One tab changes, and nothing new is sent.
LEMMA TabStepType ==
  ASSUME TypeOK, NEW t \in Tab, NEW r \in TabRecord, tab' = [tab EXCEPT ![t] = r],
         r.conn \in 0..MaxConn[t], r.state = "connected" <=> r.conn # 0,
         r.wanted # None => r.conn # 0,
         wire' \in [Socket -> Seq(Message)],
         \A s \in Socket : wire'[s] # << >> =>
           wire[s] # << >> /\ (Owner(s) = t => r.conn = s[2]),
         cookie' \in [Secret -> Name \union {None}],
         UNCHANGED server, events' \in 0..MaxEvents
  PROVE  TypeOK'
<1>1. tab' \in [Tab -> TabRecord] BY DEF TypeOK
<1>2. \A x \in Tab : tab'[x] = IF x = t THEN r ELSE tab[x] BY DEF TypeOK
<1>3. \A s \in Socket : wire'[s] # << >> => tab'[Owner(s)].conn = s[2]
  BY <1>2, Sockets DEF TypeOK
<1> QED BY <1>1, <1>2, <1>3 DEF TypeOK, server

\* A tab that has no socket any more, with what was on its way to it.
LEMMA StartType ==
  ASSUME TypeOK, NEW t \in Tab, NEW r \in TabRecord, r.conn = tab[t].conn, Start(t, r)
  PROVE  TypeOK'
<1> DEFINE n == [r EXCEPT !.state = "connecting", !.conn = 0, !.wanted = None,
                          !.view = [s \in Socket |-> None]]
<1>1. n \in TabRecord /\ n.conn = 0 /\ n.state = "connecting" /\ n.wanted = None
  BY DEF TabRecord, Users
<1>2. 0 \in 0..MaxConn[t] BY UsersAssumption
<1>3. tab' = [tab EXCEPT ![t] = n] BY DEF Start
<1>4. /\ wire' \in [Socket -> Seq(Message)]
      /\ \A s \in Socket : wire'[s] # << >> => wire[s] # << >> /\ (Owner(s) = t => 0 = s[2])
  <2>1. wire \in [Socket -> Seq(Message)] BY DEF TypeOK
  <2>2. << >> \in Seq(Message) BY EmptySeq
  <2>3. \A s \in Socket : wire[s] # << >> /\ Owner(s) = t => s = Attached(t) /\ tab[t].conn # 0
    <3>1. \A s \in Socket : s = <<s[1], s[2]>> /\ Owner(s) = s[1] /\ s[2] \in 1..MaxConn[s[1]]
      BY Sockets
    <3> QED BY <3>1, UsersAssumption DEF TypeOK, Attached
  <2>4. CASE tab[t].conn = 0 BY <2>1, <2>3, <2>4 DEF Start
  <2>5. CASE tab[t].conn # 0
    <3>1. Attached(t) \in Socket BY <2>5, ReceivedType
    <3>2. wire' = [wire EXCEPT ![Attached(t)] = << >>] BY <2>5 DEF Start
    <3> QED BY <2>1, <2>2, <2>3, <3>1, <3>2
  <2> QED BY <2>4, <2>5
<1>5. cookie' \in [Secret -> Name \union {None}] /\ UNCHANGED server /\ events' \in 0..MaxEvents
  BY DEF Start, TypeOK
<1> HIDE DEF n
<1> QED BY <1>1, <1>2, <1>3, <1>4, <1>5, TabStepType

\* A tab takes the first message and keeps its socket.
LEMMA ReceiveType ==
  ASSUME TypeOK, NEW t \in Tab, tab[t].conn # 0, wire[Attached(t)] # << >>,
         wire' = Taken(t), UNCHANGED <<server, events>>,
         NEW r \in TabRecord, tab' = [tab EXCEPT ![t] = r],
         r.conn = tab[t].conn, r.state = tab[t].state,
         cookie' \in [Secret -> Name \union {None}]
  PROVE  TypeOK'
<1>1. /\ Attached(t) \in Socket
      /\ wire' \in [Socket -> Seq(Message)]
      /\ \A s \in Socket : wire'[s] = IF s = Attached(t) THEN Tail(wire[Attached(t)]) ELSE wire[s]
  BY ReceivedType
<1>2. \A s \in Socket : wire'[s] # << >> => wire[s] # << >> /\ (Owner(s) = t => r.conn = s[2])
  BY <1>1 DEF TypeOK
<1>3. r.conn \in 0..MaxConn[t] /\ (r.state = "connected" <=> r.conn # 0) /\ events' \in 0..MaxEvents
  BY DEF TypeOK
<1> QED BY <1>1, <1>2, <1>3, TabStepType

LEMMA ToldType ==
  ASSUME TypeOK, NEW r \in TabRecord, NEW a \in AccessRecord
  PROVE  /\ Told(r, a) \in TabRecord
         /\ Told(r, a).conn = r.conn /\ Told(r, a).state = r.state
<1>1. a.left # None => now + a.left \in Nat BY UsersAssumption DEF TypeOK, AccessRecord
<1>2. [edit |-> a.edit, moderate |-> a.moderate] \in [edit: BOOLEAN, moderate: BOOLEAN]
  BY DEF AccessRecord
<1> QED BY <1>1, <1>2 DEF Told, TabRecord

\* names.receive
LEMMA NameReceivedType ==
  ASSUME TypeOK, NEW t \in Tab, NEW u, u.name \in Name \union {None}, NEW r \in TabRecord,
         NameReceived(t, u, r)
  PROVE  \E n \in TabRecord :
           /\ tab' = [tab EXCEPT ![t] = n] /\ n.conn = r.conn /\ n.state = r.state
           /\ cookie' \in [Secret -> Name \union {None}]
<1> DEFINE asks == r.urlName # None /\ r.urlName # u.name
           n == [r EXCEPT !.urlName = None, !.wanted = IF asks THEN r.urlName ELSE r.wanted]
<1>1. n \in TabRecord /\ n.conn = r.conn /\ n.state = r.state BY DEF TabRecord
<1>2. tab' = [tab EXCEPT ![t] = n] BY DEF NameReceived
<1>3. cookie' \in [Secret -> Name \union {None}] BY DEF NameReceived, TypeOK
<1> QED BY <1>1, <1>2, <1>3

LEMMA AccessOf ==
  ASSUME TypeOK, NEW g \in [Secret -> 0..MaxTime], NEW t \in Tab
  PROVE  Access(g, t) \in AccessRecord
  BY AccessType DEF TypeOK

LEMMA RefreshAccessType ==
  ASSUME TypeOK, NEW g \in [Secret -> 0..MaxTime], NEW secret, RefreshAccess(g, secret)
  PROVE  /\ users' \in Users /\ wire' \in [Socket -> Seq(Message)]
         /\ \A s \in Socket : wire'[s] # << >> => tab[Owner(s)].conn = s[2]
<1> DEFINE mine == {s \in Socket : IsOn(s) /\ Identity(s) = secret}
           new  == [s \in mine |-> [users[s] EXCEPT
                      !.edit = Access(g, Owner(s)).edit,
                      !.moderate = Access(g, Owner(s)).moderate]]
           news == JoinedOf(mine, new)
           ms   == [y \in Socket |-> (IF y \in mine THEN <<BoardState(Access(g, Owner(y)))>>
                                      ELSE << >>) \o news]
<1>1. \A s \in Socket : Access(g, Owner(s)) \in AccessRecord BY Sockets, AccessOf
<1>2. \A s \in mine : new[s] \in UserRecord BY <1>1, UsersType DEF UserRecord, AccessRecord
<1>3. mine \in SUBSET Socket OBVIOUS
<1>4. news \in Seq(Message)
  <2> HIDE DEF mine, new
  <2> QED BY <1>2, <1>3, JoinedNews
<1>5. ms \in [Socket -> Seq(Message)]
  <2>1. \A y \in Socket : (IF y \in mine THEN <<BoardState(Access(g, Owner(y)))>> ELSE << >>)
                            \in Seq(Message) BY <1>1, MessageTypes, EmptySeq
  <2> HIDE DEF mine, news
  <2> QED BY <1>4, <2>1, ConcatProperties
<1>6. users' \in Users
  <2>1. users' = [s \in Socket |-> IF s \in mine THEN new[s] ELSE users[s]] BY DEF RefreshAccess
  <2> HIDE DEF mine, new
  <2> QED BY <1>2, <2>1, UsersType DEF Users
<1>7. wire' = Sent(ms) BY DEF RefreshAccess, JoinedOf
<1> HIDE DEF ms
<1> QED BY <1>5, <1>6, <1>7, SentType

LEMMA RenameType ==
  ASSUME TypeOK, NEW x \in Socket, NEW name \in Name \union {None}, Rename(x, name)
  PROVE  /\ users' \in Users /\ wire' \in [Socket -> Seq(Message)]
         /\ \A s \in Socket : wire'[s] # << >> => tab[Owner(s)].conn = s[2]
<1> DEFINE new     == Renamed(x, name)
           changed == {y \in Socket : IsOn(y) /\ Identity(y) = Identity(x)}
           news    == JoinedOf(changed, new)
           ms      == [y \in Socket |-> news]
<1>1. \A s \in changed : new[s] \in UserRecord BY UsersType DEF UserRecord, Renamed
<1>2. new \in Users BY UsersType DEF Renamed, Users, UserRecord
<1>3. news \in Seq(Message)
  <2>1. changed \in SUBSET Socket OBVIOUS
  <2> HIDE DEF changed, new
  <2> QED BY <1>1, <2>1, JoinedNews
<1>4. ms \in [Socket -> Seq(Message)]
  <2> HIDE DEF news
  <2> QED BY <1>3
<1>5. users' = new /\ wire' = Sent(ms) BY DEF Rename, JoinedOf
<1> HIDE DEF new, ms
<1> QED BY <1>2, <1>4, <1>5, SentType

\* A tab joins, and the others are told.
LEMMA JoinType ==
  ASSUME TypeOK, NEW t \in Tab, NEW k \in 1..MaxConn[t], Join(t, k)
  PROVE  TypeOK'
<1> DEFINE s == <<t, k>>
           u == User(t, JoinName(t))
           n == [tab[t] EXCEPT !.state = "connected", !.conn = k]
           ms == [x \in Socket |-> <<Joined(s, u)>>]
<1>1. s \in Socket /\ Owner(s) = t /\ s[2] = k BY Sockets DEF Owner
<1>2. u \in UserRecord BY JoinNameType, UserType
<1>3. users' \in Users BY <1>1, <1>2 DEF Join, TypeOK, Users
<1>4. n \in TabRecord /\ n.conn = k /\ n.state = "connected"
  <2>1. tab[t] \in TabRecord /\ k \in Nat BY DEF TypeOK
  <2> QED BY <2>1 DEF TabRecord
<1>5. k \in 0..MaxConn[t] /\ k # 0 BY UsersAssumption
<1>6. tab' = [tab EXCEPT ![t] = n] BY DEF Join, TypeOK, TabRecord
<1>7. ms \in [Socket -> Seq(Message)] BY <1>1, <1>2, MessageTypes
<1>8. <<Bootstrap(users', Access(grants, t))>> \in Seq(Message)
  <2>1. Access(grants, t) \in AccessRecord BY AccessOf DEF TypeOK
  <2> QED BY <1>3, <2>1, MessageTypes
<1>9. wire' = [Sent(ms) EXCEPT ![s] = <<Bootstrap(users', Access(grants, t))>>] BY DEF Join
<1>10. wire' \in [Socket -> Seq(Message)]
  <2> HIDE DEF ms, u, s
  <2> QED BY <1>1, <1>7, <1>8, <1>9, SentType
<1>11. \A x \in Socket : wire'[x] # << >> => tab'[Owner(x)].conn = x[2]
  <2>1. tab[t].conn = 0 BY DEF Join, TypeOK
  <2>2. \A x \in Socket : Sent(ms)[x] # << >> => tab[Owner(x)].conn = x[2]
    <3> HIDE DEF ms
    <3> QED BY <1>7, SentType
  <2>3. \A x \in Socket : x # s => wire'[x] = Sent(ms)[x]
    <3> HIDE DEF ms, s, u
    <3> QED BY <1>1, <1>7, <1>9, SentType
  <2>4. \A x \in Socket : Owner(x) \in Tab /\ x[2] # 0 BY Sockets, UsersAssumption
  <2>5. \A x \in Tab : tab'[x] = IF x = t THEN n ELSE tab[x] BY <1>6 DEF TypeOK
  <2> HIDE DEF ms, s, u, n
  <2> QED BY <1>1, <1>4, <2>1, <2>2, <2>3, <2>4, <2>5
<1>12. tab' \in [Tab -> TabRecord]
  <2> HIDE DEF n
  <2> QED BY <1>4, <1>6 DEF TypeOK
<1>13. \A x \in Tab : /\ tab'[x].conn \in 0..MaxConn[x]
                      /\ tab'[x].state = "connected" <=> tab'[x].conn # 0
                      /\ tab'[x].wanted # None => tab'[x].conn # 0
  <2> HIDE DEF n
  <2> QED BY <1>4, <1>5, <1>6 DEF TypeOK
<1>14. UNCHANGED <<now, bans, grants, closing, cookie, events>> BY DEF Join
<1> HIDE DEF s, u, n, ms
<1> QED BY <1>3, <1>10, <1>11, <1>12, <1>13, <1>14 DEF TypeOK

\* A bootstrap on its way to a socket holds the socket's own record.
OwnRecordSent ==
  \A s \in Socket : \A i \in DOMAIN wire[s] :
    wire[s][i].kind = "bootstrap" => wire[s][i].users[s] \in UserRecord

LEMMA RequestTypes ==
  ASSUME TypeOK, Moderation
  PROVE  TypeOK'
<1>1. PICK x \in Socket :
        \/ \E s \in Socket : ReportModerator(s, x) \/ ReportByPeer(s, x)
        \/ \E d \in BanTime : ReportByModerator(x, d)
        \/ \E d \in GrantTime : SetTemporaryModerator(x, d)
        \/ \E n \in Name : SetUserName(x, n)
  BY DEF Moderation
<1>2. IpOf[Owner(x)] \in Ip /\ Identity(x) \in Secret BY Sockets, UsersAssumption
<1> DEFINE ms == [y \in Socket |-> IF y = x THEN <<Notice>> ELSE << >>]
<1>3. /\ Sent(ms) \in [Socket -> Seq(Message)]
      /\ \A s \in Socket : Sent(ms)[s] # << >> => tab[Owner(s)].conn = s[2]
  <2>1. ms \in [Socket -> Seq(Message)] BY MessageTypes, EmptySeq
  <2> HIDE DEF ms
  <2> QED BY <2>1, SentType
<1>4. ASSUME NEW s \in Socket, ReportModerator(s, x) PROVE TypeOK'
  BY <1>4, RemoveUsersType DEF ReportModerator
<1>5. ASSUME NEW s \in Socket, ReportByPeer(s, x) PROVE TypeOK'
  <2>1. wire' = Removed({s}, Sent(ms)) BY <1>5 DEF ReportByPeer
  <2>2. /\ wire' \in [Socket -> Seq(Message)]
        /\ \A z \in Socket : wire'[z] # << >> => tab[Owner(z)].conn = z[2]
    <3>1. {s} \in SUBSET Socket OBVIOUS
    <3> HIDE DEF ms
    <3> QED BY <1>3, <2>1, <3>1, RemovedType
  <2>3. users' \in Users /\ closing' \subseteq Socket BY <1>5 DEF ReportByPeer, TypeOK, Users
  <2>4. events' \in 0..MaxEvents BY <1>5, EventType DEF ReportByPeer
  <2> QED BY <1>5, <2>2, <2>3, <2>4, ServerStepType DEF ReportByPeer, TypeOK
<1>6. ASSUME NEW d \in BanTime, ReportByModerator(x, d) PROVE TypeOK'
  <2>1. bans' \in [secrets: [Secret -> 0..MaxTime], ips: [Ip -> 0..MaxTime]]
    <3>1. now + d \in 0..MaxTime BY <1>6, UsersAssumption DEF ReportByModerator, TypeOK
    <3> QED BY <1>2, <1>6, <3>1 DEF ReportByModerator, Ban, TypeOK
  <2>2. wire' = Sent(ms) BY <1>6 DEF ReportByModerator
  <2>3. events' \in 0..MaxEvents BY <1>6, EventType DEF ReportByModerator
  <2>4. closing' \subseteq Socket BY <1>6 DEF ReportByModerator, TypeOK
  <2> HIDE DEF ms
  <2> QED BY <1>3, <1>6, <2>1, <2>2, <2>3, <2>4, ServerStepType DEF ReportByModerator, TypeOK
<1>7. ASSUME NEW d \in GrantTime, SetTemporaryModerator(x, d) PROVE TypeOK'
  <2>1. grants' \in [Secret -> 0..MaxTime]
    <3>1. now + d \in 0..MaxTime /\ 0 \in 0..MaxTime
      BY <1>7, UsersAssumption DEF SetTemporaryModerator, TypeOK
    <3> QED BY <1>2, <1>7, <3>1 DEF SetTemporaryModerator, TypeOK
  <2>2. RefreshAccess(grants', Identity(x)) BY <1>7 DEF SetTemporaryModerator
  <2>3. /\ users' \in Users /\ wire' \in [Socket -> Seq(Message)]
        /\ \A s \in Socket : wire'[s] # << >> => tab[Owner(s)].conn = s[2]
    BY <2>1, <2>2, RefreshAccessType
  <2>4. events' \in 0..MaxEvents BY <1>7, EventType DEF SetTemporaryModerator
  <2> QED BY <1>7, <2>1, <2>3, <2>4, ServerStepType DEF SetTemporaryModerator, TypeOK
<1>8. ASSUME NEW n \in Name, SetUserName(x, n) PROVE TypeOK'
  <2>1. /\ users' \in Users /\ wire' \in [Socket -> Seq(Message)]
        /\ \A s \in Socket : wire'[s] # << >> => tab[Owner(s)].conn = s[2]
    BY <1>8, RenameType DEF SetUserName
  <2>2. events' \in 0..MaxEvents BY <1>8, EventType DEF SetUserName
  <2> QED BY <1>8, <2>1, <2>2, ServerStepType DEF SetUserName, TypeOK
<1> QED BY <1>1, <1>4, <1>5, <1>6, <1>7, <1>8

LEMMA ReceiveTypes ==
  ASSUME TypeOK, OwnRecordSent, NEW t \in Tab, Receive(t)
  PROVE  TypeOK'
<1>1. /\ tab[t].conn # 0 /\ wire[Attached(t)] # << >>
      /\ wire' = Taken(t) /\ UNCHANGED <<server, events>>
  BY DEF Receive, OnBootstrap, OnUserJoined, OnUserLeft, OnBoardState,
         OnModerationDisconnect, IsNextKind
<1> DEFINE m == Received(t)
           a == Attached(t)
<1>2. m \in Message /\ a \in Socket /\ m.kind = Head(wire[a]).kind
  BY <1>1, ReceivedType DEF Received
<1>3. tab[t] \in TabRecord BY DEF TypeOK
<1> SUFFICES \E r \in TabRecord :
               /\ tab' = [tab EXCEPT ![t] = r]
               /\ r.conn = tab[t].conn /\ r.state = tab[t].state
               /\ cookie' \in [Secret -> Name \union {None}]
  BY <1>1, ReceiveType
<1>4. cookie \in [Secret -> Name \union {None}] BY DEF TypeOK
<1>5. CASE OnBootstrap(t)
  <2>1. m.users \in Users /\ m.access \in AccessRecord
    BY <1>2, <1>5 DEF Message, OnBootstrap, IsNextKind, Received
  <2> DEFINE q == Told(tab[t], m.access)
             r == [q EXCEPT !.view = m.users]
  <2>2. q \in TabRecord /\ q.conn = tab[t].conn /\ q.state = tab[t].state
    BY <1>3, <2>1, ToldType
  <2>3. r \in TabRecord /\ r.conn = tab[t].conn /\ r.state = tab[t].state
    <3> HIDE DEF q
    <3> QED BY <2>1, <2>2 DEF TabRecord
  <2>4. NameReceived(t, m.users[a], r) BY <1>5 DEF OnBootstrap
  <2>5. m.users[a].name \in Name \union {None}
    <3>1. 1 \in DOMAIN wire[a] /\ m = wire[a][1]
      BY <1>1, <1>2, EmptySeq, LenProperties DEF TypeOK, Received
    <3>2. m.users[a] \in UserRecord
      BY <1>2, <1>5, <3>1 DEF OwnRecordSent, OnBootstrap, IsNextKind, Received
    <3> QED BY <3>2 DEF UserRecord
  <2> HIDE DEF m, q, r
  <2> QED BY <2>3, <2>4, <2>5, NameReceivedType
<1>6. CASE OnUserJoined(t)
  <2>1. m.socket \in Socket /\ m.user \in UserRecord
    BY <1>2, <1>6 DEF Message, OnUserJoined, IsNextKind, Received
  <2> DEFINE r == [tab[t] EXCEPT !.view[m.socket] = m.user]
  <2>2. r \in TabRecord /\ r.conn = tab[t].conn /\ r.state = tab[t].state
    <3> HIDE DEF m
    <3> QED BY <1>3, <2>1 DEF TabRecord, Users
  <2>3. m.user.name \in Name \union {None} BY <2>1 DEF UserRecord
  <2>4. CASE m.socket = a
    <3>1. NameReceived(t, m.user, r) BY <1>6, <2>4 DEF OnUserJoined
    <3> HIDE DEF m, r
    <3> QED BY <2>2, <2>3, <3>1, NameReceivedType
  <2>5. CASE m.socket # a
    <3>1. tab' = [tab EXCEPT ![t] = r] /\ UNCHANGED cookie BY <1>6, <2>5 DEF OnUserJoined
    <3> HIDE DEF m, r
    <3> QED BY <1>4, <2>2, <3>1
  <2> QED BY <2>4, <2>5
<1>7. CASE OnUserLeft(t)
  <2> DEFINE r == [tab[t] EXCEPT !.view[m.socket] = None]
  <2>1. r \in TabRecord /\ r.conn = tab[t].conn /\ r.state = tab[t].state
    BY <1>3 DEF TabRecord, Users
  <2>2. tab' = [tab EXCEPT ![t] = r] /\ UNCHANGED cookie BY <1>7 DEF OnUserLeft
  <2> HIDE DEF r
  <2> QED BY <1>4, <2>1, <2>2
<1>8. CASE OnBoardState(t)
  <2>1. m.access \in AccessRecord
    BY <1>2, <1>8 DEF Message, OnBoardState, IsNextKind, Received
  <2>2. tab' = [tab EXCEPT ![t] = Told(tab[t], m.access)] /\ UNCHANGED cookie
    BY <1>8 DEF OnBoardState, TypeOK
  <2> HIDE DEF m
  <2> QED BY <1>3, <1>4, <2>1, <2>2, ToldType
<1>9. CASE OnModerationDisconnect(t)
  <2> DEFINE r == [tab[t] EXCEPT !.notice = [acknowledged |-> FALSE, disconnected |-> FALSE]]
  <2>1. r \in TabRecord /\ r.conn = tab[t].conn /\ r.state = tab[t].state BY <1>3 DEF TabRecord
  <2>2. tab' = [tab EXCEPT ![t] = r] /\ UNCHANGED cookie
    BY <1>9 DEF OnModerationDisconnect, TypeOK
  <2> HIDE DEF r
  <2> QED BY <1>4, <2>1, <2>2
<1> QED BY <1>5, <1>6, <1>7, <1>8, <1>9 DEF Receive

LEMMA ConnectionTypes ==
  ASSUME TypeOK, NEW t \in Tab, Connecting(t) \/ Disconnect(t) \/ Acknowledge(t)
  PROVE  TypeOK'
<1>1. tab[t] \in TabRecord BY DEF TypeOK
<1>2. ASSUME NEW k \in 1..MaxConn[t], Join(t, k) PROVE TypeOK' BY <1>2, JoinType
<1>3. ASSUME Reconnect(t) PROVE TypeOK'
  <2>1. CASE Start(t, tab[t]) BY <1>1, <2>1, StartType
  <2>2. CASE Start(t, [tab[t] EXCEPT !.retry = FALSE])
    <3>1. /\ [tab[t] EXCEPT !.retry = FALSE] \in TabRecord
          /\ [tab[t] EXCEPT !.retry = FALSE].conn = tab[t].conn BY <1>1 DEF TabRecord
    <3> QED BY <2>2, <3>1, StartType
  <2> QED BY <1>3, <2>1, <2>2 DEF Reconnect
<1>4. ASSUME AccessRefresh(t) PROVE TypeOK'
  <2> DEFINE r == [tab[t] EXCEPT !.timer = None, !.retry = @ \/ tab[t].state = "due"]
  <2>1. r \in TabRecord /\ r.conn = tab[t].conn BY <1>1 DEF TabRecord
  <2>2. Start(t, r) BY <1>4 DEF AccessRefresh
  <2> HIDE DEF r
  <2> QED BY <2>1, <2>2, StartType
<1>5. ASSUME Disconnect(t) PROVE TypeOK'
  <2> DEFINE d == Disconnected(tab[t])
             r == [d EXCEPT !.conn = 0, !.wanted = None]
  <2>1. d \in TabRecord /\ d.state \in {"due", "held"}
    BY <1>1 DEF Disconnected, TabRecord
  <2>2. r \in TabRecord /\ r.conn = 0 /\ r.wanted = None /\ r.state # "connected"
    <3> HIDE DEF d
    <3> QED BY <2>1 DEF TabRecord
  <2>3. tab' = [tab EXCEPT ![t] = r] BY <1>5 DEF Disconnect, TypeOK
  <2>4. Attached(t) \in Socket /\ << >> \in Seq(Message)
    BY <1>5, ReceivedType, EmptySeq DEF Disconnect
  <2>5. wire' = [wire EXCEPT ![Attached(t)] = << >>] BY <1>5 DEF Disconnect
  <2>6. wire' \in [Socket -> Seq(Message)] BY <2>4, <2>5 DEF TypeOK
  <2>7. \A s \in Socket : wire'[s] # << >> => wire[s] # << >> /\ (Owner(s) = t => r.conn = s[2])
    <3>1. \A s \in Socket : wire'[s] # << >> => wire[s] # << >> /\ s # Attached(t)
      BY <2>4, <2>5 DEF TypeOK
    <3>2. \A s \in Socket : wire[s] # << >> /\ Owner(s) = t => s = Attached(t)
      <4>1. \A s \in Socket : s = <<s[1], s[2]>> /\ Owner(s) = s[1] BY Sockets
      <4> QED BY <4>1 DEF TypeOK, Attached
    <3> QED BY <3>1, <3>2
  <2>8. 0 \in 0..MaxConn[t] BY UsersAssumption
  <2>9. /\ cookie' \in [Secret -> Name \union {None}] /\ UNCHANGED server
        /\ events' \in 0..MaxEvents
    BY <1>5, EventType DEF Disconnect, TypeOK
  <2> HIDE DEF r
  <2> QED BY <2>2, <2>3, <2>6, <2>7, <2>8, <2>9, TabStepType
<1>6. ASSUME Acknowledge(t) PROVE TypeOK'
  <2> DEFINE r == IF ~tab[t].notice.disconnected THEN [tab[t] EXCEPT !.notice.acknowledged = TRUE]
                  ELSE IF tab[t].state = "held"
                  THEN [tab[t] EXCEPT !.notice = None, !.state = "due"]
                  ELSE [tab[t] EXCEPT !.notice = None, !.retry = TRUE]
  <2>1. tab[t].notice \in [acknowledged: BOOLEAN, disconnected: BOOLEAN]
    BY <1>1, <1>6 DEF Acknowledge, TabRecord
  <2>2. /\ r \in TabRecord /\ r.conn = tab[t].conn /\ r.wanted = tab[t].wanted
        /\ r.state = "connected" <=> tab[t].state = "connected"
    BY <1>1, <2>1 DEF TabRecord
  <2>3. tab' = [tab EXCEPT ![t] = r] BY <1>6 DEF Acknowledge
  <2>4. UNCHANGED <<server, wire, cookie, events>> BY <1>6 DEF Acknowledge
  <2>5. /\ wire' \in [Socket -> Seq(Message)] /\ cookie' \in [Secret -> Name \union {None}]
        /\ UNCHANGED server /\ events' \in 0..MaxEvents
        /\ \A s \in Socket : wire'[s] # << >> => wire[s] # << >> /\ tab[Owner(s)].conn = s[2]
        /\ tab[t].conn \in 0..MaxConn[t]
        /\ tab[t].state = "connected" <=> tab[t].conn # 0
        /\ tab[t].wanted # None => tab[t].conn # 0
    BY <2>4 DEF TypeOK
  <2> HIDE DEF r
  <2>6. \A s \in Socket : wire'[s] # << >> => wire[s] # << >> /\ (Owner(s) = t => r.conn = s[2])
    BY <2>2, <2>5
  <2>7. /\ r.conn \in 0..MaxConn[t] /\ (r.state = "connected" <=> r.conn # 0)
        /\ r.wanted # None => r.conn # 0 BY <2>2, <2>5
  <2>8. r \in TabRecord BY <2>2
  <2> QED BY <2>3, <2>5, <2>6, <2>7, <2>8, TabStepType
<1> QED BY <1>2, <1>3, <1>4, <1>5, <1>6 DEF Connecting

-----------------------------------------------------------------------------
(* What the server sends *)

\* With the messages q, one who knows users knows us.
Tells(q, us) ==
  \A x \in Socket :
    \/ HasNone(q, About(x)) /\ us[x] = users[x]
    \/ /\ \E i \in DOMAIN q : q[i] \in About(x)
       /\ \A i \in DOMAIN q : q[i] \in About(x) => Says(q[i], x) = us[x]

HasNoBootstrap(q) == \A i \in DOMAIN q : q[i].kind # "bootstrap"
NoAccess(q)       == \A i \in DOMAIN q : q[i].kind # "state"

\* What the messages q say to socket s of its access is true, and they say so
\* when it is granted more.
Informs(q, s) ==
  /\ \A i \in DOMAIN q : q[i].kind = "state" => q[i].access = Access(grants', Owner(s))
  /\ Hears(s) /\ Moderates(grants', Owner(s))
       => Moderates(grants, Owner(s)) \/ \E i \in DOMAIN q : q[i].kind = "state"

\* Socket s is sent some messages, which tell it of every change of users.
IsTold(s) ==
  \E q \in Seq(Message) :
    /\ wire'[s] = wire[s] \o q
    /\ HasNoBootstrap(q) /\ Informs(q, s)
    /\ Hears(s) /\ users'[s] # None => Tells(q, users')

LEMMA AboutMessages ==
  ASSUME NEW x \in Socket, NEW s \in Socket
  PROVE  /\ \A u \in UserRecord : /\ Joined(s, u) \in About(x) <=> s = x
                                  /\ Says(Joined(s, u), x) = u
                                  /\ Joined(s, u).kind = "joined"
         /\ Left(s) \in About(x) <=> s = x
         /\ Says(Left(s), x) = None
         /\ Left(s).kind = "left"
         /\ Notice \notin About(x) /\ Notice.kind = "notice"
         /\ \A a \in AccessRecord : BoardState(a) \notin About(x) /\ BoardState(a).kind = "state"
         /\ \A us \in Users : \A a \in AccessRecord :
              /\ Bootstrap(us, a) \in About(x)
              /\ Says(Bootstrap(us, a), x) = us[x]
              /\ Bootstrap(us, a).users = us /\ Bootstrap(us, a).kind = "bootstrap"
<1>1. \A u \in UserRecord : /\ Joined(s, u) \in About(x) <=> s = x
                            /\ Says(Joined(s, u), x) = u
                            /\ Joined(s, u).kind = "joined"
  BY MessageTypes DEF About, Says, Joined
<1>2. /\ Left(s) \in About(x) <=> s = x
      /\ Says(Left(s), x) = None /\ Left(s).kind = "left"
  BY MessageTypes DEF About, Says, Left
<1>3. Notice \notin About(x) /\ Notice.kind = "notice" BY DEF About, Notice
<1>4. \A a \in AccessRecord : BoardState(a) \notin About(x) /\ BoardState(a).kind = "state"
  BY DEF About, BoardState
<1>5. \A us \in Users : \A a \in AccessRecord :
        /\ Bootstrap(us, a) \in About(x)
        /\ Says(Bootstrap(us, a), x) = us[x]
        /\ Bootstrap(us, a).users = us /\ Bootstrap(us, a).kind = "bootstrap"
  BY MessageTypes DEF About, Says, Bootstrap
<1> QED BY <1>1, <1>2, <1>3, <1>4, <1>5

LEMMA LeftTells ==
  ASSUME NEW gone \in SUBSET Socket, NEW us,
         \A x \in Socket : us[x] = IF x \in gone THEN None ELSE users[x]
  PROVE  LET q == LeftOf(gone) IN
         Tells(q, us) /\ HasNoBootstrap(q) /\ NoAccess(q)
<1> DEFINE q == LeftOf(gone)
<1>1. /\ \A i \in DOMAIN q : \E s \in gone : q[i] = Left(s)
      /\ \A s \in gone : \E i \in DOMAIN q : q[i] = Left(s)
  BY LeftNews
<1> HIDE DEF q
<1>2. HasNoBootstrap(q) /\ NoAccess(q)
  BY <1>1, AboutMessages DEF HasNoBootstrap, NoAccess
<1>3. ASSUME NEW x \in Socket, x \in gone
      PROVE  /\ \E i \in DOMAIN q : q[i] \in About(x)
             /\ \A i \in DOMAIN q : q[i] \in About(x) => Says(q[i], x) = us[x]
  BY <1>1, <1>3, AboutMessages
<1>4. ASSUME NEW x \in Socket, x \notin gone
      PROVE  HasNone(q, About(x)) /\ us[x] = users[x]
  BY <1>1, <1>4, AboutMessages DEF HasNone
<1>5. Tells(q, us) BY <1>3, <1>4 DEF Tells
<1> QED BY <1>2, <1>5 DEF q

LEMMA JoinedTells ==
  ASSUME NEW mine \in SUBSET Socket, NEW new, \A s \in mine : new[s] \in UserRecord,
         NEW us, \A x \in Socket : us[x] = IF x \in mine THEN new[x] ELSE users[x]
  PROVE  LET q == JoinedOf(mine, new) IN
         Tells(q, us) /\ HasNoBootstrap(q) /\ NoAccess(q)
<1> DEFINE q == JoinedOf(mine, new)
<1>1. /\ \A i \in DOMAIN q : \E s \in mine : q[i] = Joined(s, new[s])
      /\ \A s \in mine : \E i \in DOMAIN q : q[i] = Joined(s, new[s])
  BY JoinedNews
<1> HIDE DEF q
<1>2. HasNoBootstrap(q) /\ NoAccess(q)
  BY <1>1, AboutMessages DEF HasNoBootstrap, NoAccess
<1>3. ASSUME NEW x \in Socket, x \in mine
      PROVE  /\ \E i \in DOMAIN q : q[i] \in About(x)
             /\ \A i \in DOMAIN q : q[i] \in About(x) => Says(q[i], x) = us[x]
  BY <1>1, <1>3, AboutMessages
<1>4. ASSUME NEW x \in Socket, x \notin mine
      PROVE  HasNone(q, About(x)) /\ us[x] = users[x]
  BY <1>1, <1>4, AboutMessages DEF HasNone
<1>5. Tells(q, us) BY <1>3, <1>4 DEF Tells
<1> QED BY <1>2, <1>5 DEF q

\* Messages about other things, sent before, make no difference.
LEMMA TellsAfterOthers ==
  ASSUME NEW p \in Seq(Message), NEW q \in Seq(Message), NEW us, Tells(q, us), HasNoBootstrap(q),
         \A i \in DOMAIN p : p[i].kind \in {"state", "notice"}
  PROVE  /\ p \o q \in Seq(Message) /\ Tells(p \o q, us) /\ HasNoBootstrap(p \o q)
         /\ \A s \in Socket : Informs(p, s) /\ NoAccess(q)
              => Informs(p \o q, s)
<1>1. /\ Len(p) \in Nat /\ Len(q) \in Nat
      /\ DOMAIN p = 1..Len(p) /\ DOMAIN q = 1..Len(q) BY LenProperties
<1> DEFINE r == p \o q
<1>2. /\ r \in Seq(Message) /\ Len(r) = Len(p) + Len(q)
      /\ \A i \in 1..Len(p) + Len(q) : r[i] = IF i <= Len(p) THEN p[i] ELSE q[i - Len(p)]
  BY ConcatProperties
<1>3. DOMAIN r = 1..Len(p) + Len(q) BY <1>2, LenProperties
<1> HIDE DEF r
<1>4. \A i \in DOMAIN r : \/ i \in DOMAIN p /\ r[i] = p[i]
                          \/ i - Len(p) \in DOMAIN q /\ r[i] = q[i - Len(p)]
  BY <1>1, <1>2, <1>3
<1>5. \A j \in DOMAIN q : Len(p) + j \in DOMAIN r /\ r[Len(p) + j] = q[j]
  BY <1>1, <1>2, <1>3
<1>6. HasNoBootstrap(r) BY <1>4 DEF HasNoBootstrap
<1>7. \A x \in Socket : \A i \in DOMAIN r : r[i] \in About(x) =>
        i - Len(p) \in DOMAIN q /\ r[i] = q[i - Len(p)]
  BY <1>4 DEF About
<1>8. Tells(r, us)
  <2> SUFFICES ASSUME NEW x \in Socket
               PROVE  \/ HasNone(r, About(x)) /\ us[x] = users[x]
                      \/ /\ \E i \in DOMAIN r : r[i] \in About(x)
                         /\ \A i \in DOMAIN r : r[i] \in About(x) => Says(r[i], x) = us[x]
    BY DEF Tells
  <2>1. CASE HasNone(q, About(x)) /\ us[x] = users[x]
    BY <1>7, <2>1 DEF HasNone
  <2>2. CASE /\ \E i \in DOMAIN q : q[i] \in About(x)
             /\ \A i \in DOMAIN q : q[i] \in About(x) => Says(q[i], x) = us[x]
    BY <1>5, <1>7, <2>2
  <2> QED BY <2>1, <2>2 DEF Tells
<1>9. \A i \in DOMAIN p : i \in DOMAIN r /\ r[i] = p[i] BY <1>1, <1>2, <1>3
<1>10. ASSUME NEW s \in Socket, Informs(p, s), NoAccess(q)
       PROVE  Informs(r, s)
  <2>1. \A i \in DOMAIN r : r[i].kind = "state" => i \in DOMAIN p /\ r[i] = p[i]
    BY <1>4, <1>10 DEF NoAccess
  <2> QED BY <1>9, <1>10, <2>1 DEF Informs
<1> QED BY <1>2, <1>6, <1>8, <1>10 DEF r

\* A socket that is sent nothing, and is not on the board or sees no change.
LEMMA NothingSent ==
  ASSUME TypeOK, NEW s \in Socket, wire'[s] = wire[s], ~Hears(s) \/ UNCHANGED grants,
         Hears(s) /\ users'[s] # None => \A x \in Socket : users'[x] = users[x]
  PROVE  IsTold(s)
<1>1. << >> \in Seq(Message) /\ wire[s] \in Seq(Message) /\ DOMAIN << >> = {}
  BY EmptySeq DEF TypeOK
<1>2. wire[s] \o << >> = wire[s] BY <1>1, ConcatEmptySeq
<1>3. HasNoBootstrap(<< >>) /\ Informs(<< >>, s) BY <1>1 DEF HasNoBootstrap, Informs
<1>4. Hears(s) /\ users'[s] # None => Tells(<< >>, users') BY <1>1 DEF Tells, HasNone
<1> QED BY <1>1, <1>2, <1>3, <1>4 DEF IsTold

LEMMA MessagesConcat ==
  \A a, b, c \in Seq(Message) : (a \o b) \o c = a \o (b \o c)
  BY ConcatAssociative

\* removeBoardUser, for sockets that have been sent other things before.
LEMMA RemovedTold ==
  ASSUME TypeOK, UNCHANGED grants, NEW gone \in SUBSET Socket, NEW ms \in [Socket -> Seq(Message)],
         \A s \in Socket : \A i \in DOMAIN ms[s] : ms[s][i].kind = "notice",
         NEW ws \in [Socket -> Seq(Message)],
         \A s \in Socket : ws[s] = IF Hears(s) THEN wire[s] \o ms[s] ELSE wire[s],
         wire' = Removed(gone, ws),
         \A x \in Socket : users'[x] = IF x \in gone THEN None ELSE users[x]
  PROVE  \A s \in Socket : IsTold(s)
<1> TAKE s \in Socket
<1> DEFINE q == LeftOf(gone)
<1>1. /\ q \in Seq(Message) /\ Tells(q, users') /\ HasNoBootstrap(q)
      /\ NoAccess(q) BY LeftNews, LeftTells
<1>2. wire[s] \in Seq(Message) /\ ms[s] \in Seq(Message) BY DEF TypeOK
<1>3. wire'[s] = IF Hears(s) /\ s \notin gone THEN ws[s] \o q ELSE ws[s]
  BY DEF Removed, LeftOf
<1> HIDE DEF q
<1>4. Informs(ms[s], s) BY DEF Informs
<1>5. CASE ~Hears(s) BY <1>3, <1>5, NothingSent
<1>6. CASE Hears(s) /\ s \in gone
  <2>1. wire'[s] = wire[s] \o ms[s] /\ users'[s] = None BY <1>3, <1>6
  <2>2. HasNoBootstrap(ms[s]) BY DEF HasNoBootstrap
  <2> QED BY <1>2, <1>4, <2>1, <2>2 DEF IsTold
<1>7. CASE Hears(s) /\ s \notin gone
  <2>1. wire'[s] = wire[s] \o (ms[s] \o q)
    <3>1. (wire[s] \o ms[s]) \o q = wire[s] \o (ms[s] \o q)
      BY <1>1, <1>2, MessagesConcat
    <3>2. wire'[s] = (wire[s] \o ms[s]) \o q BY <1>3, <1>7
    <3> QED BY <3>1, <3>2
  <2>2. /\ ms[s] \o q \in Seq(Message) /\ Tells(ms[s] \o q, users')
        /\ HasNoBootstrap(ms[s] \o q) /\ Informs(ms[s] \o q, s)
    BY <1>1, <1>2, <1>4, TellsAfterOthers
  <2> QED BY <2>1, <2>2 DEF IsTold
<1> QED BY <1>5, <1>6, <1>7

LEMMA RemoveUsersTold ==
  ASSUME TypeOK, UNCHANGED grants, NEW gone \in SUBSET Socket, RemoveUsers(gone, wire)
  PROVE  \A s \in Socket : IsTold(s)
<1> DEFINE on == {s \in gone : IsOn(s)}
           ms == [s \in Socket |-> << >>]
<1>1. /\ on \in SUBSET Socket /\ wire \in [Socket -> Seq(Message)] BY DEF TypeOK
<1>2. wire' = Removed(on, wire) BY DEF RemoveUsers
<1>3. \A x \in Socket : users'[x] = IF x \in on THEN None ELSE users[x]
  BY DEF RemoveUsers, IsOn
<1>4. ms \in [Socket -> Seq(Message)] /\ \A s \in Socket : ms[s] = << >> BY EmptySeq
<1>5. \A s \in Socket : DOMAIN ms[s] = {} BY <1>4
<1>6. \A s \in Socket : wire[s] = IF Hears(s) THEN wire[s] \o ms[s] ELSE wire[s]
  BY <1>1, <1>4, ConcatEmptySeq
<1>7. \A s \in Socket : \A i \in DOMAIN ms[s] : ms[s][i].kind = "notice" BY <1>5
<1> HIDE DEF on, ms
<1> QED BY <1>1, <1>2, <1>3, <1>4, <1>6, <1>7, RemovedTold

\* The records of some sockets change, and all sockets are sent the new ones.
LEMMA ChangedTold ==
  ASSUME TypeOK, NEW mine \in SUBSET Socket, NEW new, \A s \in mine : new[s] \in UserRecord,
         \A x \in Socket : users'[x] = IF x \in mine THEN new[x] ELSE users[x],
         NEW ms \in [Socket -> Seq(Message)],
         \A s \in Socket : \A i \in DOMAIN ms[s] : ms[s][i].kind \in {"state", "notice"},
         \A s \in Socket : Informs(ms[s], s),
         wire' = Sent([s \in Socket |->
                         ms[s] \o JoinedOf(mine, new)])
  PROVE  \A s \in Socket : IsTold(s)
<1> DEFINE q  == JoinedOf(mine, new)
           ns == [s \in Socket |-> ms[s] \o q]
<1>1. /\ q \in Seq(Message) /\ Tells(q, users') /\ HasNoBootstrap(q)
      /\ NoAccess(q)
  BY JoinedNews, JoinedTells
<1>2. wire' = Sent(ns) OBVIOUS
<1> HIDE DEF q
<1>3. \A s \in Socket : /\ ns[s] \in Seq(Message) /\ Tells(ns[s], users')
                        /\ HasNoBootstrap(ns[s]) /\ Informs(ns[s], s)
  BY <1>1, TellsAfterOthers
<1>4. ns \in [Socket -> Seq(Message)] BY <1>3
<1> HIDE DEF ns
<1>5. \A s \in Socket : wire'[s] = IF Hears(s) THEN wire[s] \o ns[s] ELSE wire[s]
  <2>1. \A s \in Socket : Sent(ns)[s] = IF Hears(s) THEN wire[s] \o ns[s] ELSE wire[s]
    BY <1>4, SentType
  <2> QED BY <1>2, <2>1
<1> TAKE s \in Socket
<1>6. CASE Hears(s) BY <1>3, <1>5, <1>6 DEF IsTold
<1>7. CASE ~Hears(s) BY <1>5, <1>7, NothingSent
<1> QED BY <1>6, <1>7

LEMMA RenameTold ==
  ASSUME TypeOK, UNCHANGED grants, NEW x \in Socket, NEW name \in Name \union {None}, Rename(x, name)
  PROVE  \A s \in Socket : IsTold(s)
<1> DEFINE new     == Renamed(x, name)
           changed == {y \in Socket : IsOn(y) /\ Identity(y) = Identity(x)}
           q       == JoinedOf(changed, new)
           none    == [s \in Socket |-> << >>]
<1>1. \A s \in changed : new[s] \in UserRecord BY UsersType DEF UserRecord, Renamed
<1>2. \A s \in Socket : users'[s] = IF s \in changed THEN new[s] ELSE users[s]
  BY DEF Rename, Renamed
<1>3. /\ none \in [Socket -> Seq(Message)]
      /\ \A s \in Socket : DOMAIN none[s] = {} BY EmptySeq
<1>4. \A s \in Socket : Informs(none[s], s) BY <1>3 DEF Informs
<1>5. q \in Seq(Message)
  <2>1. changed \in SUBSET Socket OBVIOUS
  <2> HIDE DEF changed, new
  <2> QED BY <1>1, <2>1, JoinedNews
<1>6. [s \in Socket |-> none[s] \o q] = [s \in Socket |-> q]
  <2> HIDE DEF q
  <2> QED BY <1>5, ConcatEmptySeq
<1>7. wire' = Sent([s \in Socket |-> q]) BY DEF Rename, JoinedOf
<1>8. wire' = Sent([s \in Socket |-> none[s] \o q])
  <2> HIDE DEF q, none
  <2> QED BY <1>6, <1>7
<1>9. changed \in SUBSET Socket OBVIOUS
<1> HIDE DEF new, changed, none
<1> QED BY <1>1, <1>2, <1>3, <1>8, <1>9, <1>4, ChangedTold DEF q

LEMMA RefreshAccessTold ==
  ASSUME TypeOK, grants' \in [Secret -> 0..MaxTime], NEW secret, RefreshAccess(grants', secret),
         \A x \in Secret : x # secret => grants'[x] = grants[x]
  PROVE  \A s \in Socket : IsTold(s)
<1> DEFINE mine == {s \in Socket : IsOn(s) /\ Identity(s) = secret}
           new  == [s \in mine |-> [users[s] EXCEPT
                      !.edit = Access(grants', Owner(s)).edit,
                      !.moderate = Access(grants', Owner(s)).moderate]]
           news == JoinedOf(mine, new)
           ms   == [y \in Socket |-> IF y \in mine THEN <<BoardState(Access(grants', Owner(y)))>>
                                     ELSE << >>]
<1>1. \A s \in Socket : Access(grants', Owner(s)) \in AccessRecord BY Sockets, AccessOf
<1>2. \A s \in mine : new[s] \in UserRecord BY <1>1, UsersType DEF UserRecord, AccessRecord
<1>3. \A x \in Socket : users'[x] = IF x \in mine THEN new[x] ELSE users[x]
  BY DEF RefreshAccess
<1>4. \A y \in Socket : BoardState(Access(grants', Owner(y))) \in Message
  BY <1>1, MessageTypes
<1>5. ms \in [Socket -> Seq(Message)]
  <2>1. \A y \in Socket : <<BoardState(Access(grants', Owner(y)))>> \in Seq(Message) BY <1>4
  <2> HIDE DEF mine
  <2> QED BY <2>1, EmptySeq
<1>6. \A s \in Socket : \A i \in DOMAIN ms[s] : ms[s][i].kind \in {"state", "notice"}
  <2> TAKE s \in Socket
  <2>1. CASE s \in mine
    <3>1. ms[s] = <<BoardState(Access(grants', Owner(s)))>> BY <2>1
    <3> HIDE DEF ms
    <3> QED BY <3>1 DEF BoardState
  <2>2. CASE s \notin mine
    <3>1. ms[s] = << >> BY <2>2
    <3> HIDE DEF ms
    <3> QED BY <3>1
  <2> QED BY <2>1, <2>2
<1>7. \A s \in Socket : Informs(ms[s], s)
  <2> TAKE s \in Socket
  <2>1. CASE s \in mine
    <3>1. ms[s] = <<BoardState(Access(grants', Owner(s)))>> BY <2>1
    <3> HIDE DEF ms, mine
    <3> QED BY <3>1 DEF BoardState, Informs
  <2>2. CASE s \notin mine
    <3>1. ms[s] = << >> BY <2>2
    <3>2. Hears(s) => Identity(s) # secret BY <2>2 DEF Hears
    <3>3. Hears(s) => grants'[SecretOf[Owner(s)]] = grants[SecretOf[Owner(s)]]
      BY <3>2, Sockets DEF Owner
    <3>4. Hears(s) /\ Moderates(grants', Owner(s)) => Moderates(grants, Owner(s))
      BY <3>3 DEF Moderates, GrantEnd
    <3> HIDE DEF ms, mine
    <3> QED BY <3>1, <3>4 DEF Informs
  <2> QED BY <2>1, <2>2
<1>8. wire' = Sent([s \in Socket |-> ms[s] \o news])
  <2>1. \A s \in Socket : ms[s] = IF s \in mine THEN <<BoardState(Access(grants', Owner(s)))>> ELSE << >>
    OBVIOUS
  <2>2. wire' = Sent([y \in Socket |-> (IF y \in mine THEN <<BoardState(Access(grants', Owner(y)))>>
                                    ELSE << >>) \o news]) BY DEF RefreshAccess, JoinedOf
  <2> HIDE DEF mine, new, news, ms
  <2>3. [s \in Socket |-> ms[s] \o news] =
        [y \in Socket |-> (IF y \in mine THEN <<BoardState(Access(grants', Owner(y)))>>
                           ELSE << >>) \o news] BY <2>1
  <2> QED BY <2>2, <2>3
<1>9. mine \in SUBSET Socket OBVIOUS
<1> HIDE DEF mine, new, ms
<1> QED BY <1>2, <1>3, <1>5, <1>6, <1>8, <1>9, <1>7, ChangedTold DEF news

\* The requests and timers of the server tell every socket of what they change.
LEMMA EveryoneIsTold ==
  ASSUME TypeOK,
         \/ Moderation \/ (\E s \in Socket : Leave(s) \/ CloseModerated(s))
         \/ \E t \in Tab : SetUrlName(t)
  PROVE  \A s \in Socket : IsTold(s)
<1>1. ASSUME NEW s \in Socket, Leave(s) \/ CloseModerated(s) PROVE \A x \in Socket : IsTold(x)
  <2>1. {s} \in SUBSET Socket /\ RemoveUsers({s}, wire) /\ UNCHANGED grants
    BY <1>1 DEF Leave, CloseModerated
  <2> QED BY <2>1, RemoveUsersTold
<1>2. ASSUME NEW t \in Tab, SetUrlName(t) PROVE \A x \in Socket : IsTold(x)
  <2>1. /\ Attached(t) \in Socket /\ tab[t].wanted \in Name \union {None}
        /\ Rename(Attached(t), tab[t].wanted) /\ UNCHANGED grants
    BY <1>2, ReceivedType DEF SetUrlName, TypeOK, TabRecord
  <2> QED BY <2>1, RenameTold
<1>3. ASSUME Moderation PROVE \A s \in Socket : IsTold(s)
  <2>1. PICK x \in Socket :
          \/ \E s \in Socket : ReportModerator(s, x) \/ ReportByPeer(s, x)
          \/ \E d \in BanTime : ReportByModerator(x, d)
          \/ \E d \in GrantTime : SetTemporaryModerator(x, d)
          \/ \E n \in Name : SetUserName(x, n)
    BY <1>3 DEF Moderation
  <2> DEFINE ms == [y \in Socket |-> IF y = x THEN <<Notice>> ELSE << >>]
  <2>2. ms \in [Socket -> Seq(Message)] BY MessageTypes, EmptySeq
  <2>3. \A s \in Socket : ms[s] = IF s = x THEN <<Notice>> ELSE << >> OBVIOUS
  <2> HIDE DEF ms
  <2>4. \A s \in Socket : \A i \in DOMAIN ms[s] : ms[s][i].kind = "notice"
    <3> TAKE s \in Socket
    <3>1. CASE s = x BY <2>3, <3>1 DEF Notice
    <3>2. CASE s # x BY <2>3, <3>2
    <3> QED BY <3>1, <3>2
  <2>5. /\ Sent(ms) \in [Socket -> Seq(Message)]
        /\ \A s \in Socket : Sent(ms)[s] = IF Hears(s) THEN wire[s] \o ms[s] ELSE wire[s]
    BY <2>2, SentType
  <2>6. ASSUME NEW s \in Socket, ReportModerator(s, x) PROVE \A y \in Socket : IsTold(y)
    <3>1. {s} \in SUBSET Socket /\ RemoveUsers({s}, wire) /\ UNCHANGED grants
      BY <2>6 DEF ReportModerator
    <3> QED BY <3>1, RemoveUsersTold
  <2>7. ASSUME NEW s \in Socket, ReportByPeer(s, x) PROVE \A y \in Socket : IsTold(y)
    <3>1. wire' = Removed({s}, Sent(ms)) /\ UNCHANGED grants BY <2>7 DEF ReportByPeer, ms
    <3>2. \A y \in Socket : users'[y] = IF y \in {s} THEN None ELSE users[y]
      BY <2>7 DEF ReportByPeer, TypeOK, Users
    <3>3. {s} \in SUBSET Socket OBVIOUS
    <3> QED BY <2>2, <2>4, <2>5, <3>1, <3>2, <3>3, RemovedTold
  <2>8. ASSUME NEW d \in BanTime, ReportByModerator(x, d) PROVE \A y \in Socket : IsTold(y)
    <3>1. wire' = Sent(ms) /\ UNCHANGED <<users, grants>> BY <2>8 DEF ReportByModerator, ms
    <3> TAKE y \in Socket
    <3>2. CASE Hears(y)
      <4>1. HasNoBootstrap(ms[y]) /\ \A z \in Socket : HasNone(ms[y], About(z))
        BY <2>4 DEF HasNoBootstrap, HasNone, About
      <4>3. Informs(ms[y], y) BY <2>4, <3>1 DEF Informs
      <4>2. Tells(ms[y], users') BY <3>1, <4>1 DEF Tells
      <4> QED BY <2>2, <2>5, <3>1, <3>2, <4>1, <4>2, <4>3 DEF IsTold
    <3>3. CASE ~Hears(y) BY <2>5, <3>1, <3>3, NothingSent
    <3> QED BY <3>2, <3>3
  <2>9. ASSUME NEW d \in GrantTime, SetTemporaryModerator(x, d) PROVE \A y \in Socket : IsTold(y)
    <3>1. grants' \in [Secret -> 0..MaxTime] BY <1>3, <2>9, RequestTypes DEF TypeOK
    <3>2. /\ RefreshAccess(grants', Identity(x))
          /\ \A y \in Secret : y # Identity(x) => grants'[y] = grants[y]
      BY <2>9 DEF SetTemporaryModerator, TypeOK
    <3> QED BY <3>1, <3>2, RefreshAccessTold
  <2>10. ASSUME NEW n \in Name, SetUserName(x, n) PROVE \A y \in Socket : IsTold(y)
    BY <2>10, RenameTold DEF SetUserName
  <2> QED BY <2>1, <2>6, <2>7, <2>8, <2>9, <2>10
<1> QED BY <1>1, <1>2, <1>3

\* Only Join makes records.
LEMMA NobodyAppears ==
  ASSUME TypeOK,
         \/ Moderation \/ (\E s \in Socket : Leave(s) \/ CloseModerated(s))
         \/ \E t \in Tab : SetUrlName(t)
  PROVE  \A s \in Socket : users'[s] # None => IsOn(s)
<1>1. ASSUME NEW s \in Socket, Leave(s) \/ CloseModerated(s)
      PROVE  \A x \in Socket : users'[x] # None => IsOn(x)
  BY <1>1 DEF Leave, CloseModerated, RemoveUsers, IsOn
<1>2. ASSUME NEW x, NEW n, Rename(x, n)
      PROVE  \A s \in Socket : users'[s] # None => IsOn(s)
  BY <1>2 DEF Rename, Renamed, IsOn
<1>3. ASSUME NEW t \in Tab, SetUrlName(t)
      PROVE  \A x \in Socket : users'[x] # None => IsOn(x)
  BY <1>2, <1>3 DEF SetUrlName
<1>4. ASSUME Moderation PROVE \A s \in Socket : users'[s] # None => IsOn(s)
  <2>1. PICK x \in Socket :
          \/ \E s \in Socket : ReportModerator(s, x) \/ ReportByPeer(s, x)
          \/ \E d \in BanTime : ReportByModerator(x, d)
          \/ \E d \in GrantTime : SetTemporaryModerator(x, d)
          \/ \E n \in Name : SetUserName(x, n)
    BY <1>4 DEF Moderation
  <2>2. ASSUME NEW s \in Socket, ReportModerator(s, x)
        PROVE  \A y \in Socket : users'[y] # None => IsOn(y)
    BY <2>2 DEF ReportModerator, RemoveUsers, IsOn
  <2>3. ASSUME NEW s \in Socket, ReportByPeer(s, x)
        PROVE  \A y \in Socket : users'[y] # None => IsOn(y)
    BY <2>3 DEF ReportByPeer, TypeOK, Users, IsOn
  <2>4. ASSUME NEW d \in BanTime, ReportByModerator(x, d)
        PROVE  \A y \in Socket : users'[y] # None => IsOn(y)
    BY <2>4 DEF ReportByModerator, IsOn
  <2>5. ASSUME NEW d \in GrantTime, SetTemporaryModerator(x, d)
        PROVE  \A y \in Socket : users'[y] # None => IsOn(y)
    BY <2>5 DEF SetTemporaryModerator, RefreshAccess, IsOn
  <2>6. ASSUME NEW n \in Name, SetUserName(x, n)
        PROVE  \A y \in Socket : users'[y] # None => IsOn(y)
    BY <1>2, <2>6 DEF SetUserName
  <2> QED BY <2>1, <2>2, <2>3, <2>4, <2>5, <2>6
<1> QED BY <1>1, <1>3, <1>4

\* What a joining tab t sends over its new socket s to itself and to the others.
JoinTold(t, k, s) ==
  /\ s \in Socket /\ Owner(s) = t /\ s[2] = k
  /\ users'[s] \in UserRecord
  /\ \A x \in Socket : x # s => users'[x] = users[x]
  /\ Access(grants, t) \in AccessRecord /\ UNCHANGED grants
  /\ wire'[s] = <<Bootstrap(users', Access(grants, t))>>
  /\ \A x \in Socket : x # s => IsTold(x)
  /\ \A x \in Tab : tab'[x] = IF x = t
       THEN [tab[t] EXCEPT !.state = "connected", !.conn = k] ELSE tab[x]

LEMMA JoinTells ==
  ASSUME TypeOK, NEW t \in Tab, NEW k \in 1..MaxConn[t], Join(t, k)
  PROVE  JoinTold(t, k, <<t, k>>)
<1> DEFINE s  == <<t, k>>
           u  == User(t, JoinName(t))
           q  == <<Joined(s, u)>>
           ms == [x \in Socket |-> q]
<1>1. s \in Socket /\ Owner(s) = t /\ s[2] = k BY Sockets DEF Owner
<1>2. u \in UserRecord BY JoinNameType, UserType
<1>3. users' = [users EXCEPT ![s] = u] BY DEF Join
<1>4. Access(grants, t) \in AccessRecord BY AccessOf DEF TypeOK
<1>5. wire' = [Sent(ms) EXCEPT ![s] = <<Bootstrap(users', Access(grants, t))>>] BY DEF Join
<1>6. q \in Seq(Message) /\ DOMAIN q = {1} /\ q[1] = Joined(s, u) BY <1>1, <1>2, MessageTypes
<1> HIDE DEF s, u, q
<1>7. ms \in [Socket -> Seq(Message)] /\ \A x \in Socket : ms[x] = q BY <1>6
<1> HIDE DEF ms
<1>8. /\ Sent(ms) \in [Socket -> Seq(Message)]
      /\ \A x \in Socket : Sent(ms)[x] = IF Hears(x) THEN wire[x] \o q ELSE wire[x]
  BY <1>7, SentType
<1>9. \A x \in Socket : users'[x] = IF x = s THEN u ELSE users[x]
  BY <1>1, <1>3 DEF TypeOK, Users
<1>10. HasNoBootstrap(q) /\ Tells(q, users')
  <2>1. HasNoBootstrap(q) BY <1>1, <1>2, <1>6, AboutMessages DEF HasNoBootstrap
  <2>2. \A x \in Socket : x # s => HasNone(q, About(x))
    BY <1>1, <1>2, <1>6, AboutMessages DEF HasNone
  <2>3. q[1] \in About(s) /\ Says(q[1], s) = users'[s]
    BY <1>1, <1>2, <1>6, <1>9, AboutMessages
  <2> QED BY <1>6, <1>9, <2>1, <2>2, <2>3 DEF Tells
<1>11. UNCHANGED grants /\ \A x \in Socket : Informs(q, x)
  BY <1>1, <1>2, <1>6, AboutMessages DEF Join, Informs
<1>12. \A x \in Socket : x # s => IsTold(x)
  <2> TAKE x \in Socket
  <2> HAVE x # s
  <2>1. wire'[x] = IF Hears(x) THEN wire[x] \o q ELSE wire[x] BY <1>1, <1>5, <1>8
  <2>2. CASE Hears(x) BY <1>6, <1>10, <1>11, <2>1, <2>2 DEF IsTold
  <2>3. CASE ~Hears(x) BY <2>1, <2>3, NothingSent
  <2> QED BY <2>2, <2>3
<1>13. wire'[s] = <<Bootstrap(users', Access(grants, t))>> BY <1>1, <1>5, <1>8
<1>14. \A x \in Tab : tab'[x] = IF x = t
         THEN [tab[t] EXCEPT !.state = "connected", !.conn = k] ELSE tab[x]
  BY DEF Join, TypeOK
<1>15. /\ s \in Socket /\ Owner(s) = t /\ s[2] = k
       /\ users'[s] \in UserRecord
       /\ \A x \in Socket : x # s => users'[x] = users[x]
       /\ Access(grants, t) \in AccessRecord /\ UNCHANGED grants
       /\ wire'[s] = <<Bootstrap(users', Access(grants, t))>>
       /\ \A x \in Socket : x # s => IsTold(x)
  BY <1>1, <1>2, <1>4, <1>9, <1>12, <1>13, <1>11
<1> QED BY <1>14, <1>15 DEF s, JoinTold

\* A tab that starts a connection or loses one has no socket.
LEMMA Closes ==
  ASSUME TypeOK, NEW t \in Tab, Reconnect(t) \/ AccessRefresh(t) \/ Disconnect(t)
  PROVE  tab'[t].conn = 0
<1>1. tab[t] \in TabRecord /\ DOMAIN tab = Tab BY DEF TypeOK
<1>2. ASSUME NEW r \in TabRecord, Start(t, r) PROVE tab'[t].conn = 0
  <2> DEFINE n == [r EXCEPT !.state = "connecting", !.conn = 0, !.wanted = None,
                            !.view = [s \in Socket |-> None]]
  <2>1. tab' = [tab EXCEPT ![t] = n] BY <1>2 DEF Start
  <2>2. n.conn = 0 BY DEF TabRecord
  <2> HIDE DEF n
  <2> QED BY <1>1, <2>1, <2>2
<1>3. CASE Reconnect(t)
  <2>1. [tab[t] EXCEPT !.retry = FALSE] \in TabRecord BY <1>1 DEF TabRecord
  <2> QED BY <1>1, <1>2, <1>3, <2>1 DEF Reconnect
<1>4. CASE AccessRefresh(t)
  <2> DEFINE r == [tab[t] EXCEPT !.timer = None, !.retry = @ \/ tab[t].state = "due"]
  <2>1. r \in TabRecord BY <1>1 DEF TabRecord
  <2>2. Start(t, r) BY <1>4 DEF AccessRefresh
  <2> HIDE DEF r
  <2> QED BY <1>2, <2>1, <2>2
<1>5. CASE Disconnect(t)
  <2> DEFINE d == Disconnected(tab[t])
             r == [d EXCEPT !.conn = 0, !.wanted = None]
  <2>1. d \in TabRecord BY <1>1 DEF Disconnected, TabRecord
  <2>2. r.conn = 0
    <3> HIDE DEF d
    <3> QED BY <2>1 DEF TabRecord
  <2>3. tab' = [tab EXCEPT ![t] = r] BY <1>5 DEF Disconnect
  <2> HIDE DEF r
  <2> QED BY <1>1, <2>2, <2>3
<1> QED BY <1>3, <1>4, <1>5

\* What a tab does to the wires: it takes the first message, or nothing is on
\* its way to it any more.
LEMMA TabWires ==
  ASSUME TypeOK, NEW t \in Tab,
         Receive(t) \/ Reconnect(t) \/ AccessRefresh(t) \/ Disconnect(t) \/ Acknowledge(t)
  PROVE  /\ UNCHANGED server
         /\ \A s \in Socket : Owner(s) # t => wire'[s] = wire[s]
         /\ \A s \in Socket : wire'[s] \in {wire[s], << >>} \/
              (wire[s] # << >> /\ wire'[s] = Tail(wire[s]))
         /\ \A x \in Tab : x # t => tab'[x] = tab[x]
         /\ Receive(t) \/ Acknowledge(t) \/ tab'[t].conn = 0
<1>1. wire \in [Socket -> Seq(Message)] BY DEF TypeOK
<1>2. CASE Receive(t)
  <2>1. /\ tab[t].conn # 0 /\ wire[Attached(t)] # << >>
        /\ wire' = Taken(t) /\ UNCHANGED <<server, events>>
    BY <1>2 DEF Receive, OnBootstrap, OnUserJoined, OnUserLeft, OnBoardState,
                OnModerationDisconnect, IsNextKind
  <2>2. \A s \in Socket : wire'[s] = IF s = Attached(t) THEN Tail(wire[Attached(t)]) ELSE wire[s]
    BY <2>1, ReceivedType
  <2>3. Owner(Attached(t)) = t BY <2>1, ReceivedType
  <2>4. \A x \in Tab : x # t => tab'[x] = tab[x]
    BY <1>2 DEF Receive, OnBootstrap, OnUserJoined, OnUserLeft, OnBoardState,
                OnModerationDisconnect, NameReceived, TypeOK
  <2> QED BY <1>2, <2>1, <2>2, <2>3, <2>4
<1>3. ASSUME NEW r, Start(t, r), r.conn = tab[t].conn
      PROVE  /\ UNCHANGED server
             /\ \A s \in Socket : Owner(s) # t => wire'[s] = wire[s]
             /\ \A s \in Socket : wire'[s] \in {wire[s], << >>}
             /\ \A x \in Tab : x # t => tab'[x] = tab[x]
  <2>1. wire' = wire \/ (tab[t].conn # 0 /\ wire' = [wire EXCEPT ![Attached(t)] = << >>])
    BY <1>3 DEF Start
  <2>2. tab[t].conn # 0 => Attached(t) \in Socket /\ Owner(Attached(t)) = t
    BY ReceivedType
  <2>3. UNCHANGED server BY <1>3 DEF Start
  <2>4. \A x \in Tab : x # t => tab'[x] = tab[x] BY <1>3 DEF Start, TypeOK
  <2> QED BY <1>1, <2>1, <2>2, <2>3, <2>4
<1>4. tab[t] \in TabRecord BY DEF TypeOK
<1>5. CASE Reconnect(t)
  <2>1. [tab[t] EXCEPT !.retry = FALSE].conn = tab[t].conn BY <1>4 DEF TabRecord
  <2> QED BY <1>3, <1>5, <2>1, Closes DEF Reconnect
<1>6. CASE AccessRefresh(t)
  <2> DEFINE r == [tab[t] EXCEPT !.timer = None, !.retry = @ \/ tab[t].state = "due"]
  <2>1. r.conn = tab[t].conn BY <1>4 DEF TabRecord
  <2>2. Start(t, r) BY <1>6 DEF AccessRefresh
  <2> HIDE DEF r
  <2> QED BY <1>3, <1>6, <2>1, <2>2, Closes
<1>7. CASE Disconnect(t)
  <2>1. Attached(t) \in Socket /\ Owner(Attached(t)) = t BY <1>7, ReceivedType DEF Disconnect
  <2>2. wire' = [wire EXCEPT ![Attached(t)] = << >>] /\ UNCHANGED server BY <1>7 DEF Disconnect
  <2>3. \A x \in Tab : x # t => tab'[x] = tab[x] BY <1>7 DEF Disconnect, TypeOK
  <2> QED BY <1>1, <1>7, <2>1, <2>2, <2>3, Closes
<1>8. CASE Acknowledge(t)
  <2>1. UNCHANGED <<server, wire>> /\ \A x \in Tab : x # t => tab'[x] = tab[x]
    BY <1>8 DEF Acknowledge, TypeOK
  <2> QED BY <1>8, <2>1
<1> QED BY <1>2, <1>5, <1>6, <1>7, <1>8

-----------------------------------------------------------------------------
(* The type theorem *)

TypeInv == TypeOK /\ OwnRecordSent

\* A step of the server or of a tab, grouped by what it does to the wires.
LEMMA Steps ==
  ASSUME Next
  PROVE  \/ Tick \/ DropBoard
         \/ (\/ Moderation \/ (\E s \in Socket : Leave(s) \/ CloseModerated(s))
             \/ \E t \in Tab : SetUrlName(t))
         \/ \E t \in Tab : \E k \in 1..MaxConn[t] : Join(t, k)
         \/ \E t \in Tab : Receive(t) \/ Reconnect(t) \/ AccessRefresh(t)
                            \/ Disconnect(t) \/ Acknowledge(t)
  BY DEF Next, Connecting

LEMMA OwnRecordKept ==
  ASSUME TypeInv, Next
  PROVE  OwnRecordSent'
<1>1. wire \in [Socket -> Seq(Message)] BY DEF TypeInv, TypeOK
<1>2. \A s \in Socket : /\ Len(wire[s]) \in Nat /\ DOMAIN wire[s] = 1..Len(wire[s])
  BY <1>1, LenProperties
<1>3. ASSUME NEW s \in Socket, IsTold(s)
      PROVE  \A i \in DOMAIN wire'[s] :
               wire'[s][i].kind = "bootstrap" => wire'[s][i].users[s] \in UserRecord
  <2>1. PICK q \in Seq(Message) : wire'[s] = wire[s] \o q /\ HasNoBootstrap(q)
    BY <1>3 DEF IsTold
  <2>2. Len(q) \in Nat /\ DOMAIN q = 1..Len(q) BY LenProperties
  <2> DEFINE r == wire[s] \o q
  <2>3. r \in Seq(Message) /\ Len(r) = Len(wire[s]) + Len(q) /\
        \A i \in 1..Len(wire[s]) + Len(q) :
          r[i] = IF i <= Len(wire[s]) THEN wire[s][i] ELSE q[i - Len(wire[s])]
    BY <1>1, ConcatProperties
  <2>4. DOMAIN r = 1..Len(wire[s]) + Len(q) BY <2>3, LenProperties
  <2> HIDE DEF r
  <2>5. \A i \in DOMAIN r : \/ i \in DOMAIN wire[s] /\ r[i] = wire[s][i]
                            \/ i - Len(wire[s]) \in DOMAIN q /\ r[i] = q[i - Len(wire[s])]
    BY <1>2, <2>2, <2>3, <2>4
  <2>6. \A i \in DOMAIN r : r[i].kind = "bootstrap" => r[i].users[s] \in UserRecord
    BY <2>1, <2>5 DEF HasNoBootstrap, TypeInv, OwnRecordSent
  <2> QED BY <2>1, <2>6 DEF r
<1>4. ASSUME NEW s \in Socket, wire'[s] \in {wire[s], << >>}
                               \/ (wire[s] # << >> /\ wire'[s] = Tail(wire[s]))
      PROVE  \A i \in DOMAIN wire'[s] :
               wire'[s][i].kind = "bootstrap" => wire'[s][i].users[s] \in UserRecord
  <2>1. CASE wire'[s] = wire[s] BY <2>1 DEF TypeInv, OwnRecordSent
  <2>2. CASE wire'[s] = << >> BY <2>2
  <2>3. CASE wire[s] # << >> /\ wire'[s] = Tail(wire[s])
    <3>1. /\ Tail(wire[s]) \in Seq(Message) /\ Len(Tail(wire[s])) = Len(wire[s]) - 1
          /\ \A i \in 1..Len(Tail(wire[s])) : Tail(wire[s])[i] = wire[s][i + 1]
      BY <1>1, <2>3, HeadTailProperties
    <3>2. DOMAIN Tail(wire[s]) = 1..Len(Tail(wire[s])) BY <3>1, LenProperties
    <3>3. \A i \in DOMAIN wire'[s] : i + 1 \in DOMAIN wire[s] /\ wire'[s][i] = wire[s][i + 1]
      BY <1>2, <2>3, <3>1, <3>2
    <3> QED BY <3>3 DEF TypeInv, OwnRecordSent
  <2> QED BY <1>4, <2>1, <2>2, <2>3
<1>5. CASE Tick \/ DropBoard BY <1>5 DEF Tick, DropBoard, TypeInv, OwnRecordSent
<1>6. CASE \/ Moderation \/ (\E s \in Socket : Leave(s) \/ CloseModerated(s))
           \/ \E t \in Tab : SetUrlName(t)
  BY <1>3, <1>6, EveryoneIsTold DEF TypeInv, OwnRecordSent
<1>7. ASSUME NEW t \in Tab, NEW k \in 1..MaxConn[t], Join(t, k) PROVE OwnRecordSent'
  <2> DEFINE s == <<t, k>>
  <2>1. /\ s \in Socket /\ users'[s] \in UserRecord
        /\ Access(grants, t) \in AccessRecord /\ UNCHANGED grants
        /\ wire'[s] = <<Bootstrap(users', Access(grants, t))>>
        /\ \A x \in Socket : x # s => IsTold(x)
    <3>1. JoinTold(t, k, s) BY <1>7, JoinTells DEF TypeInv
    <3> QED BY <3>1 DEF JoinTold
  <2> HIDE DEF s
  <2>2. \A i \in DOMAIN wire'[s] : wire'[s][i].users = users' BY <2>1 DEF Bootstrap
  <2> QED BY <1>3, <2>1, <2>2 DEF OwnRecordSent
<1>8. ASSUME NEW t \in Tab, Receive(t) \/ Reconnect(t) \/ AccessRefresh(t)
                            \/ Disconnect(t) \/ Acknowledge(t)
      PROVE  OwnRecordSent'
  BY <1>4, <1>8, TabWires DEF TypeInv, OwnRecordSent
<1> QED BY <1>5, <1>6, <1>7, <1>8, Steps

LEMMA TypeInvariant == Spec => []TypeInv
<1>1. Init => TypeInv
  <2> SUFFICES ASSUME Init PROVE TypeInv OBVIOUS
  <2>1. << >> \in Seq(Message) BY EmptySeq
  <2>2. 0 \in 0..MaxTime /\ 0 \in 0..MaxEvents /\ \A t \in Tab : 0 \in 0..MaxConn[t]
    BY UsersAssumption
  <2>3. \A t \in Tab : [NewTab EXCEPT !.urlName = UrlName[t]] \in TabRecord
    BY UsersAssumption DEF NewTab, TabRecord, Users
  <2>4. tab \in [Tab -> TabRecord] BY <2>3 DEF Init
  <2>5. \A t \in Tab : tab[t].conn = 0 /\ tab[t].state = "connecting" /\ tab[t].wanted = None
    BY DEF Init, NewTab
  <2>6. \A s \in Socket : wire[s] = << >> BY DEF Init
  <2>7. OwnRecordSent BY <2>6 DEF OwnRecordSent
  <2>8. users \in Users /\ closing \subseteq Socket /\ wire \in [Socket -> Seq(Message)]
    BY <2>1 DEF Init, Users
  <2>9. /\ now \in Nat /\ events \in 0..MaxEvents
        /\ bans \in [secrets: [Secret -> 0..MaxTime], ips: [Ip -> 0..MaxTime]]
        /\ grants \in [Secret -> 0..MaxTime]
        /\ cookie \in [Secret -> Name \union {None}]
    BY <2>2 DEF Init
  <2> QED BY <2>2, <2>4, <2>5, <2>6, <2>7, <2>8, <2>9 DEF TypeInv, TypeOK
<1>2. TypeInv /\ [Next]_vars => TypeInv'
  <2> SUFFICES ASSUME TypeInv, [Next]_vars PROVE TypeInv' OBVIOUS
  <2>1. CASE UNCHANGED vars BY <2>1 DEF vars, server, TypeInv, TypeOK, OwnRecordSent
  <2>2. CASE Next
    <3>1. OwnRecordSent' BY <2>2, OwnRecordKept
    <3>2. CASE Tick
      <4>1. now + 1 \in Nat BY DEF TypeInv, TypeOK
      <4> QED BY <3>1, <3>2, <4>1 DEF Tick, TypeInv, TypeOK
    <3>3. CASE DropBoard
      <4>1. events' \in 0..MaxEvents BY <3>3, EventType DEF DropBoard, TypeInv
      <4>2. users' \in Users /\ closing' \subseteq Socket BY <3>3 DEF DropBoard, Users
      <4> QED BY <3>1, <3>3, <4>1, <4>2 DEF DropBoard, TypeInv, TypeOK
    <3>4. CASE Moderation BY <3>1, <3>4, RequestTypes DEF TypeInv
    <3>5. ASSUME NEW s \in Socket, Leave(s) \/ CloseModerated(s) PROVE TypeInv'
      <4>1. {s} \in SUBSET Socket /\ RemoveUsers({s}, wire)
        BY <3>5 DEF Leave, CloseModerated
      <4>2. UNCHANGED <<now, bans, grants, tab, cookie>> /\ (Event \/ UNCHANGED events)
        BY <3>5 DEF Leave, CloseModerated
      <4> QED BY <3>1, <4>1, <4>2, RemoveUsersType DEF TypeInv
    <3>6. ASSUME NEW t \in Tab, SetUrlName(t) PROVE TypeInv'
      <4>1. /\ tab[t] \in TabRecord /\ tab[t].wanted # None /\ tab[t].conn # 0
            /\ Rename(Attached(t), tab[t].wanted)
        BY <3>6 DEF SetUrlName, TypeInv, TypeOK
      <4>2. Attached(t) \in Socket /\ tab[t].wanted \in Name \union {None}
        BY <4>1, ReceivedType DEF TypeInv, TabRecord
      <4>3. /\ users' \in Users /\ wire' \in [Socket -> Seq(Message)]
            /\ \A s \in Socket : wire'[s] # << >> => tab[Owner(s)].conn = s[2]
        BY <4>1, <4>2, RenameType DEF TypeInv
      <4> DEFINE r == [tab[t] EXCEPT !.wanted = None]
      <4>4. r \in TabRecord /\ r.conn = tab[t].conn /\ r.state = tab[t].state /\ r.wanted = None
        BY <4>1 DEF TabRecord
      <4>5. tab' = [tab EXCEPT ![t] = r] BY <3>6 DEF SetUrlName
      <4> HIDE DEF r
      <4>6. /\ tab' \in [Tab -> TabRecord]
            /\ \A x \in Tab : tab'[x] = IF x = t THEN r ELSE tab[x]
        BY <4>4, <4>5 DEF TypeInv, TypeOK
      <4>7. \A s \in Socket : wire'[s] # << >> => tab'[Owner(s)].conn = s[2]
        BY <4>3, <4>4, <4>6, Sockets
      <4>8. \A x \in Tab : /\ tab'[x].conn \in 0..MaxConn[x]
                           /\ tab'[x].state = "connected" <=> tab'[x].conn # 0
                           /\ tab'[x].wanted # None => tab'[x].conn # 0
        BY <4>4, <4>6 DEF TypeInv, TypeOK
      <4> QED BY <3>1, <3>6, <4>3, <4>6, <4>7, <4>8 DEF SetUrlName, TypeInv, TypeOK
    <3>7. ASSUME NEW t \in Tab, Receive(t) PROVE TypeInv'
      BY <3>1, <3>7, ReceiveTypes DEF TypeInv
    <3>8. ASSUME NEW t \in Tab, Connecting(t) \/ Disconnect(t) \/ Acknowledge(t) PROVE TypeInv'
      BY <3>1, <3>8, ConnectionTypes DEF TypeInv
    <3> QED BY <2>2, <3>2, <3>3, <3>4, <3>5, <3>6, <3>7, <3>8 DEF Next
  <2> QED BY <2>1, <2>2
<1> QED BY <1>1, <1>2, PTL DEF Spec

\* Type correctness, with who is connected and to whom something is on its way:
\* whatever users, moderators and the network do, a tab that waits for a rename
\* has a socket, and nothing is sent to a socket that nobody reads (Next).
THEOREM TypeCorrect == Spec => []TypeOK
<1>1. TypeInv => TypeOK BY DEF TypeInv
<1> QED BY <1>1, TypeInvariant, PTL

-----------------------------------------------------------------------------
(* What the tabs show *)

\* Messages that tell of every change are sent to a tab.
LEMMA FollowsWhenTold ==
  ASSUME TypeOK, NEW t \in Tab, OnBoard(t), ViewFollows(t),
         tab'[t].conn = tab[t].conn, tab'[t].view = tab[t].view,
         IsTold(Attached(t)), users'[Attached(t)] # None
  PROVE  ViewFollows(t)'
<1> DEFINE a == Attached(t)
           w == wire[a]
<1>1. a \in Socket /\ w \in Seq(Message) BY ReceivedType DEF OnBoard, TypeOK
<1>2. Attached(t)' = a BY DEF Attached
<1>3. Hears(a) BY ReceivedType DEF Hears, OnBoard
<1>4. PICK q \in Seq(Message) : wire'[a] = w \o q /\ Tells(q, users') BY <1>3 DEF IsTold
<1>5. ViewFollows(t)' <=> LET v == wire'[a] IN \A x \in Socket :
          /\ \A i \in DOMAIN v : IsLast(v, About(x), i) => Says(v[i], x) = users'[x]
          /\ HasNone(v, About(x)) => tab'[t].view[x] = users'[x]
  BY <1>2 DEF ViewFollows
<1> HIDE DEF a, w
<1>6. ASSUME NEW x \in Socket
      PROVE  /\ \A i \in DOMAIN (w \o q) :
                  IsLast(w \o q, About(x), i) => Says((w \o q)[i], x) = users'[x]
             /\ HasNone(w \o q, About(x)) => tab'[t].view[x] = users'[x]
  <2>1. /\ \A i : IsLast(w \o q, About(x), i) =>
             \/ IsLast(w, About(x), i) /\ HasNone(q, About(x)) /\ (w \o q)[i] = w[i]
             \/ \E j \in DOMAIN q : q[j] \in About(x) /\ (w \o q)[i] = q[j]
        /\ HasNone(w \o q, About(x)) => HasNone(w, About(x)) /\ HasNone(q, About(x))
    BY <1>1, LastOfConcat
  <2>2. /\ \A i \in DOMAIN w : IsLast(w, About(x), i) => Says(w[i], x) = users[x]
        /\ HasNone(w, About(x)) => tab[t].view[x] = users[x]
    BY DEF ViewFollows, a, w
  <2>3. \A i : IsLast(w, About(x), i) => i \in DOMAIN w BY DEF IsLast
  <2>4. CASE HasNone(q, About(x)) /\ users'[x] = users[x]
    BY <2>1, <2>2, <2>3, <2>4 DEF HasNone
  <2>5. CASE /\ \E i \in DOMAIN q : q[i] \in About(x)
             /\ \A i \in DOMAIN q : q[i] \in About(x) => Says(q[i], x) = users'[x]
    BY <2>1, <2>5 DEF HasNone
  <2> QED BY <1>4, <2>4, <2>5 DEF Tells
<1> QED BY <1>4, <1>5, <1>6

\* What a tab shows after a message.
LEMMA ReceiveShows ==
  ASSUME TypeOK, NEW t \in Tab, Receive(t)
  PROVE  /\ tab'[t].conn = tab[t].conn /\ tab'[t].state = tab[t].state
         /\ \A x \in Socket : tab'[t].view[x] =
              IF Received(t) \in About(x) THEN Says(Received(t), x) ELSE tab[t].view[x]
<1> DEFINE m == Received(t)
<1>1. tab[t].conn # 0 /\ wire[Attached(t)] # << >>
  BY DEF Receive, OnBootstrap, OnUserJoined, OnUserLeft, OnBoardState,
         OnModerationDisconnect, IsNextKind
<1>2. m \in Message BY <1>1, ReceivedType
<1>3. tab[t] \in TabRecord /\ tab[t].view \in Users /\ DOMAIN tab = Tab
  BY DEF TypeOK, TabRecord
<1>4. CASE OnBootstrap(t)
  <2>1. m.kind = "bootstrap" BY <1>4 DEF OnBootstrap, IsNextKind, Received
  <2> DEFINE q == Told(tab[t], m.access)
             r == [q EXCEPT !.view = m.users]
             n == [r EXCEPT !.urlName = None, !.wanted =
                     IF r.urlName # None /\ r.urlName # m.users[Attached(t)].name
                     THEN r.urlName ELSE r.wanted]
  <2>2. tab' = [tab EXCEPT ![t] = n] BY <1>4 DEF OnBootstrap, NameReceived
  <2>3. m.access \in AccessRecord BY <1>2, <2>1 DEF Message
  <2>4. q \in TabRecord /\ q.conn = tab[t].conn /\ q.state = tab[t].state
    BY <1>3, <2>3, ToldType
  <2>5. n.view = m.users /\ n.conn = tab[t].conn /\ n.state = tab[t].state
    <3> HIDE DEF q
    <3> QED BY <2>4 DEF TabRecord
  <2>6. tab'[t].view = m.users /\ tab'[t].conn = tab[t].conn
        /\ tab'[t].state = tab[t].state
    <3> HIDE DEF n
    <3> QED BY <1>3, <2>2, <2>5
  <2>7. \A x \in Socket : m \in About(x) /\ Says(m, x) = m.users[x]
    BY <1>2, <2>1 DEF About, Says
  <2> QED BY <2>6, <2>7
<1>5. CASE OnUserJoined(t)
  <2>1. m.kind = "joined" BY <1>5 DEF OnUserJoined, IsNextKind, Received
  <2>2. m.socket \in Socket /\ \A x \in Socket : (m \in About(x) <=> m.socket = x) /\ Says(m, x) = m.user
    BY <1>2, <2>1 DEF About, Says, Message
  <2> DEFINE r == [tab[t] EXCEPT !.view[m.socket] = m.user]
             n == [r EXCEPT !.urlName = None, !.wanted =
                     IF r.urlName # None /\ r.urlName # m.user.name
                     THEN r.urlName ELSE r.wanted]
  <2>3. tab' = [tab EXCEPT ![t] = n] \/ tab' = [tab EXCEPT ![t] = r]
    BY <1>5 DEF OnUserJoined, NameReceived
  <2>4. r.view = [tab[t].view EXCEPT ![m.socket] = m.user] /\ r.conn = tab[t].conn
        /\ n.view = r.view /\ n.conn = r.conn /\ r.state = tab[t].state /\ n.state = r.state
    BY <1>3 DEF TabRecord
  <2>5. tab'[t].view = [tab[t].view EXCEPT ![m.socket] = m.user] /\ tab'[t].conn = tab[t].conn
        /\ tab'[t].state = tab[t].state
    <3> HIDE DEF n, r
    <3> QED BY <1>3, <2>3, <2>4
  <2> QED BY <1>3, <2>2, <2>5 DEF Users
<1>6. CASE OnUserLeft(t)
  <2>1. m.kind = "left" BY <1>6 DEF OnUserLeft, IsNextKind, Received
  <2>2. m.socket \in Socket /\ \A x \in Socket : (m \in About(x) <=> m.socket = x) /\ Says(m, x) = None
    BY <1>2, <2>1 DEF About, Says, Message
  <2> DEFINE r == [tab[t] EXCEPT !.view[m.socket] = None]
  <2>3. tab' = [tab EXCEPT ![t] = r] BY <1>6 DEF OnUserLeft
  <2>4. r.view = [tab[t].view EXCEPT ![m.socket] = None] /\ r.conn = tab[t].conn
        /\ r.state = tab[t].state
    BY <1>3 DEF TabRecord
  <2>5. tab'[t].view = [tab[t].view EXCEPT ![m.socket] = None] /\ tab'[t].conn = tab[t].conn
        /\ tab'[t].state = tab[t].state
    <3> HIDE DEF r
    <3> QED BY <1>3, <2>3, <2>4
  <2> QED BY <1>3, <2>2, <2>5 DEF Users
<1>7. CASE OnBoardState(t) \/ OnModerationDisconnect(t)
  <2>1. m.kind \in {"state", "notice"}
    BY <1>7 DEF OnBoardState, OnModerationDisconnect, IsNextKind, Received
  <2>2. \A x \in Socket : m \notin About(x) BY <2>1 DEF About
  <2>3. CASE OnBoardState(t)
    <3>1. m.access \in AccessRecord
      BY <1>2, <2>3 DEF Message, OnBoardState, IsNextKind, Received
    <3> DEFINE r == Told(tab[t], m.access)
    <3>2. tab' = [tab EXCEPT ![t] = r] BY <1>3, <2>3 DEF OnBoardState
    <3>3. r.view = tab[t].view /\ r.conn = tab[t].conn /\ r.state = tab[t].state
      BY <1>3 DEF Told, TabRecord
    <3> HIDE DEF r
    <3> QED BY <1>3, <2>2, <3>2, <3>3
  <2>4. CASE OnModerationDisconnect(t)
    <3> DEFINE r == [tab[t] EXCEPT !.notice = [acknowledged |-> FALSE, disconnected |-> FALSE]]
    <3>1. tab' = [tab EXCEPT ![t] = r] BY <1>3, <2>4 DEF OnModerationDisconnect
    <3>2. r.view = tab[t].view /\ r.conn = tab[t].conn /\ r.state = tab[t].state
      BY <1>3 DEF TabRecord
    <3> HIDE DEF r
    <3> QED BY <1>3, <2>2, <3>1, <3>2
  <2> QED BY <1>7, <2>3, <2>4
<1> QED BY <1>4, <1>5, <1>6, <1>7 DEF Receive

\* A tab takes a message.
LEMMA FollowsWhenReceived ==
  ASSUME TypeOK, NEW t \in Tab, OnBoard(t), ViewFollows(t), Receive(t)
  PROVE  ViewFollows(t)'
<1> DEFINE a == Attached(t)
           w == wire[a]
           m == Received(t)
<1>1. /\ tab[t].conn # 0 /\ w # << >> /\ wire' = Taken(t) /\ UNCHANGED users
  BY DEF Receive, OnBootstrap, OnUserJoined, OnUserLeft, OnBoardState,
         OnModerationDisconnect, IsNextKind, server
<1>2. a \in Socket /\ w \in Seq(Message) /\ m \in Message /\ m = Head(w)
  BY <1>1, ReceivedType DEF TypeOK, Received
<1>3. wire'[a] = Tail(w) BY <1>1, <1>2, ReceivedType
<1>4. tab'[t].conn = tab[t].conn /\ \A x \in Socket :
        tab'[t].view[x] = IF m \in About(x) THEN Says(m, x) ELSE tab[t].view[x]
  BY ReceiveShows
<1>5. Attached(t)' = a BY <1>4 DEF Attached
<1>6. ViewFollows(t)' <=> LET v == wire'[a] IN \A x \in Socket :
          /\ \A i \in DOMAIN v : IsLast(v, About(x), i) => Says(v[i], x) = users'[x]
          /\ HasNone(v, About(x)) => tab'[t].view[x] = users'[x]
  BY <1>5 DEF ViewFollows
<1> HIDE DEF a, w, m
<1>7. ASSUME NEW x \in Socket
      PROVE  /\ \A i \in DOMAIN Tail(w) :
                  IsLast(Tail(w), About(x), i) => Says(Tail(w)[i], x) = users[x]
             /\ HasNone(Tail(w), About(x)) => tab'[t].view[x] = users[x]
  <2>1. /\ \A i : IsLast(Tail(w), About(x), i) =>
                    IsLast(w, About(x), i + 1) /\ Tail(w)[i] = w[i + 1]
        /\ HasNone(Tail(w), About(x)) =>
             IF Head(w) \in About(x) THEN IsLast(w, About(x), 1) /\ w[1] = Head(w)
             ELSE HasNone(w, About(x))
    BY <1>1, <1>2, LastOfTail
  <2>2. /\ \A i \in DOMAIN w : IsLast(w, About(x), i) => Says(w[i], x) = users[x]
        /\ HasNone(w, About(x)) => tab[t].view[x] = users[x]
    BY DEF ViewFollows, a, w
  <2>3. \A i : IsLast(w, About(x), i) => i \in DOMAIN w BY DEF IsLast
  <2> QED BY <1>2, <1>4, <2>1, <2>2, <2>3
<1> QED BY <1>1, <1>3, <1>6, <1>7

\* Whoever joins, leaves, is renamed, promoted or thrown out meanwhile, what a
\* connected tab shows of the users, with what is on its way to it, is what the
\* board says (emitBoardUsersToSocket, emitUserJoinedToBoard, removeBoardUser).
THEOREM ViewsCorrect == Spec => []ViewsFollowTheBoard
<1>1. Init => ViewsFollowTheBoard BY DEF Init, NewTab, ViewsFollowTheBoard, OnBoard
<1>2. TypeInv /\ ViewsFollowTheBoard /\ [Next]_vars => ViewsFollowTheBoard'
  <2> SUFFICES ASSUME TypeInv, ViewsFollowTheBoard, [Next]_vars
               PROVE  ViewsFollowTheBoard' OBVIOUS
  <2>1. TypeOK BY DEF TypeInv
  <2>2. ASSUME NEW t \in Tab, UNCHANGED users, tab'[t].conn = tab[t].conn,
               tab'[t].view = tab[t].view, tab[t].conn # 0 => wire'[Attached(t)] = wire[Attached(t)]
        PROVE  (OnBoard(t) => ViewFollows(t))'
    BY <2>2 DEF ViewsFollowTheBoard, OnBoard, ViewFollows, Attached, IsOn
  <2>3. ASSUME NEW t \in Tab, \A s \in Socket : IsTold(s),
               \A s \in Socket : users'[s] # None => IsOn(s),
               tab'[t].conn = tab[t].conn, tab'[t].view = tab[t].view
        PROVE  (OnBoard(t) => ViewFollows(t))'
    <3> SUFFICES ASSUME OnBoard(t)' PROVE ViewFollows(t)' OBVIOUS
    <3>1. tab[t].conn # 0 /\ users'[Attached(t)] # None BY <2>3 DEF OnBoard, IsOn, Attached
    <3>2. Attached(t) \in Socket BY <2>1, <3>1, ReceivedType
    <3>3. OnBoard(t) BY <2>3, <3>1, <3>2 DEF OnBoard
    <3> QED BY <2>1, <2>3, <3>1, <3>2, <3>3, FollowsWhenTold DEF ViewsFollowTheBoard
  <2>4. CASE UNCHANGED vars
    BY <2>2, <2>4 DEF vars, server, ViewsFollowTheBoard
  <2>5. CASE Tick BY <2>2, <2>5 DEF Tick, ViewsFollowTheBoard
  <2>6. CASE DropBoard
    <3>1. \A t \in Tab : tab[t].conn # 0 => Attached(t) \in Socket BY <2>1, ReceivedType
    <3>2. \A t \in Tab : ~OnBoard(t)' BY <2>6, <3>1 DEF DropBoard, OnBoard, IsOn, Attached
    <3> QED BY <3>2 DEF ViewsFollowTheBoard
  <2>7. CASE \/ Moderation \/ (\E s \in Socket : Leave(s) \/ CloseModerated(s))
             \/ \E t \in Tab : SetUrlName(t)
    <3>1. \A s \in Socket : IsTold(s) BY <2>1, <2>7, EveryoneIsTold
    <3>2. \A s \in Socket : users'[s] # None => IsOn(s) BY <2>1, <2>7, NobodyAppears
    <3>3. \A t \in Tab : tab'[t].conn = tab[t].conn /\ tab'[t].view = tab[t].view
      <4>1. CASE Moderation \/ \E s \in Socket : Leave(s) \/ CloseModerated(s)
        BY <4>1 DEF Moderation, ReportModerator, ReportByPeer, ReportByModerator,
             SetTemporaryModerator, SetUserName, Leave, CloseModerated
      <4>2. ASSUME NEW t \in Tab, SetUrlName(t)
            PROVE \A x \in Tab : tab'[x].conn = tab[x].conn /\ tab'[x].view = tab[x].view
        BY <2>1, <4>2 DEF SetUrlName, TypeOK, TabRecord
      <4> QED BY <2>7, <4>1, <4>2
    <3> QED BY <2>3, <3>1, <3>2, <3>3 DEF ViewsFollowTheBoard
  <2>8. ASSUME NEW t \in Tab, NEW k \in 1..MaxConn[t], Join(t, k) PROVE ViewsFollowTheBoard'
    <3> DEFINE s == <<t, k>>
    <3>1. /\ s \in Socket /\ Owner(s) = t /\ s[2] = k
          /\ users'[s] \in UserRecord
          /\ \A x \in Socket : x # s => users'[x] = users[x]
          /\ Access(grants, t) \in AccessRecord /\ UNCHANGED grants
          /\ wire'[s] = <<Bootstrap(users', Access(grants, t))>>
          /\ \A x \in Socket : x # s => IsTold(x)
          /\ \A x \in Tab : tab'[x] = IF x = t
              THEN [tab[t] EXCEPT !.state = "connected", !.conn = k] ELSE tab[x]
      <4>1. JoinTold(t, k, s) BY <2>1, <2>8, JoinTells
      <4> QED BY <4>1 DEF JoinTold
    <3>2. users' \in Users BY <2>1, <2>8, JoinType DEF TypeOK
    <3>3. ViewFollows(t)'
      <4>1. Attached(t)' = s BY <3>1 DEF Attached, TypeOK, TabRecord, TypeInv
      <4>2. PICK a \in AccessRecord : wire'[s] = <<Bootstrap(users', a)>> BY <3>1
      <4>3. DOMAIN wire'[s] = {1} /\ wire'[s][1] = Bootstrap(users', a) BY <4>2
      <4>4. \A x \in Socket : wire'[s][1] \in About(x) /\ Says(wire'[s][1], x) = users'[x]
        BY <3>2, <4>3, AboutMessages
      <4>5. ViewFollows(t)' <=> LET v == wire'[s] IN \A x \in Socket :
              /\ \A i \in DOMAIN v : IsLast(v, About(x), i) => Says(v[i], x) = users'[x]
              /\ HasNone(v, About(x)) => tab'[t].view[x] = users'[x]
        BY <4>1 DEF ViewFollows
      <4> QED BY <4>3, <4>4, <4>5 DEF HasNone
    <3>4. ASSUME NEW x \in Tab, x # t, OnBoard(x)' PROVE ViewFollows(x)'
      <4>1. tab'[x] = tab[x] BY <3>1, <3>4
      <4>2. tab[x].conn # 0 /\ Attached(x)' = Attached(x) BY <3>4, <4>1 DEF OnBoard, Attached
      <4>3. Attached(x) \in Socket /\ Owner(Attached(x)) = x BY <2>1, <4>2, ReceivedType
      <4>4. Attached(x) # s BY <3>1, <3>4, <4>3
      <4>5. users'[Attached(x)] # None BY <3>4, <4>2 DEF OnBoard, IsOn
      <4>6. OnBoard(x) BY <3>1, <4>2, <4>3, <4>4, <4>5 DEF OnBoard, IsOn
      <4> QED BY <2>1, <3>1, <4>1, <4>3, <4>4, <4>5, <4>6, FollowsWhenTold DEF ViewsFollowTheBoard
    <3> QED BY <3>3, <3>4 DEF ViewsFollowTheBoard
  <2>9. ASSUME NEW t \in Tab, Receive(t) \/ Reconnect(t) \/ AccessRefresh(t)
                              \/ Disconnect(t) \/ Acknowledge(t)
        PROVE  ViewsFollowTheBoard'
    <3>1. /\ UNCHANGED users
          /\ \A s \in Socket : Owner(s) # t => wire'[s] = wire[s]
          /\ \A x \in Tab : x # t => tab'[x] = tab[x]
          /\ Receive(t) \/ Acknowledge(t) \/ tab'[t].conn = 0
      BY <2>1, <2>9, TabWires DEF server
    <3>2. ASSUME NEW x \in Tab, x # t PROVE (OnBoard(x) => ViewFollows(x))'
      <4>1. tab[x].conn # 0 => Attached(x) \in Socket /\ Owner(Attached(x)) = x
        BY <2>1, ReceivedType
      <4> QED BY <2>2, <3>1, <3>2, <4>1
    <3>3. (OnBoard(t) => ViewFollows(t))'
      <4>1. CASE Receive(t)
        <5> SUFFICES ASSUME OnBoard(t)' PROVE ViewFollows(t)' OBVIOUS
        <5>1. tab'[t].conn = tab[t].conn BY <2>1, <4>1, ReceiveShows
        <5>2. OnBoard(t) BY <3>1, <5>1 DEF OnBoard, IsOn, Attached
        <5> QED BY <2>1, <4>1, <5>2, FollowsWhenReceived DEF ViewsFollowTheBoard
      <4>2. CASE Acknowledge(t)
        <5>1. tab'[t].conn = tab[t].conn /\ tab'[t].view = tab[t].view /\ UNCHANGED wire
          BY <2>1, <4>2 DEF Acknowledge, TypeOK, TabRecord
        <5> QED BY <2>2, <3>1, <5>1
      <4>3. CASE tab'[t].conn = 0 BY <4>3 DEF OnBoard
      <4> QED BY <3>1, <4>1, <4>2, <4>3
    <3> QED BY <3>2, <3>3 DEF ViewsFollowTheBoard
  <2> QED BY <2>4, <2>5, <2>6, <2>7, <2>8, <2>9, Steps
<1> QED BY <1>1, <1>2, TypeInvariant, PTL DEF Spec

-----------------------------------------------------------------------------
(* Names *)

\* A request or a timer of the server keeps the names of the users who stay, or
\* gives the tabs of one identity a name.
LEMMA NamesKept ==
  ASSUME TypeOK,
         \/ Moderation \/ (\E s \in Socket : Leave(s) \/ CloseModerated(s))
         \/ \E t \in Tab : SetUrlName(t)
  PROVE  \/ /\ UNCHANGED <<tab, cookie>>
            /\ \A s \in Socket : users'[s] # None => IsOn(s) /\ users'[s].name = users[s].name
         \/ \E x \in Socket : \E n \in Name :
              /\ Rename(x, n) /\ UNCHANGED <<grants, cookie>>
              /\ \/ UNCHANGED tab
                 \/ \E t \in Tab : SetUrlName(t) /\ x = Attached(t) /\ n = tab[t].wanted
<1> DEFINE Kept == \A s \in Socket : users'[s] # None => IsOn(s) /\ users'[s].name = users[s].name
<1>1. ASSUME NEW s \in Socket, Leave(s) \/ CloseModerated(s)
      PROVE  Kept /\ UNCHANGED <<tab, cookie>>
  BY <1>1 DEF Leave, CloseModerated, RemoveUsers, IsOn
<1>2. ASSUME NEW t \in Tab, SetUrlName(t)
      PROVE  /\ Attached(t) \in Socket /\ tab[t].wanted \in Name
             /\ Rename(Attached(t), tab[t].wanted) /\ UNCHANGED <<grants, cookie>>
  BY <1>2, ReceivedType DEF SetUrlName, TypeOK, TabRecord
<1>3. ASSUME Moderation
      PROVE  \/ Kept /\ UNCHANGED <<tab, cookie>>
             \/ \E x \in Socket : \E n \in Name : Rename(x, n) /\ UNCHANGED <<grants, tab, cookie>>
  <2>1. PICK x \in Socket :
          \/ \E s \in Socket : ReportModerator(s, x) \/ ReportByPeer(s, x)
          \/ \E d \in BanTime : ReportByModerator(x, d)
          \/ \E d \in GrantTime : SetTemporaryModerator(x, d)
          \/ \E n \in Name : SetUserName(x, n)
    BY <1>3 DEF Moderation
  <2>2. ASSUME NEW s \in Socket, ReportModerator(s, x) PROVE Kept /\ UNCHANGED <<tab, cookie>>
    BY <2>2 DEF ReportModerator, RemoveUsers, IsOn
  <2>3. ASSUME NEW s \in Socket, ReportByPeer(s, x) PROVE Kept /\ UNCHANGED <<tab, cookie>>
    BY <2>3 DEF ReportByPeer, TypeOK, Users, IsOn
  <2>4. ASSUME NEW d \in BanTime, ReportByModerator(x, d) PROVE Kept /\ UNCHANGED <<tab, cookie>>
    BY <2>4 DEF ReportByModerator, IsOn
  <2>5. ASSUME NEW d \in GrantTime, SetTemporaryModerator(x, d)
        PROVE Kept /\ UNCHANGED <<tab, cookie>>
    <3>1. \A s \in Socket : users'[s] = IF IsOn(s) /\ Identity(s) = Identity(x)
            THEN [users[s] EXCEPT !.edit = Access(grants', Owner(s)).edit,
                                  !.moderate = Access(grants', Owner(s)).moderate]
            ELSE users[s]
      BY <2>5 DEF SetTemporaryModerator, RefreshAccess
    <3>2. \A s \in Socket : IsOn(s) => users[s] \in UserRecord BY UsersType
    <3>3. \A s \in Socket : users'[s] # None => IsOn(s) BY <3>1 DEF IsOn
    <3>4. \A s \in Socket : IsOn(s) => users'[s].name = users[s].name
      BY <3>1, <3>2 DEF UserRecord
    <3> QED BY <2>5, <3>3, <3>4 DEF SetTemporaryModerator
  <2>6. ASSUME NEW n \in Name, SetUserName(x, n) PROVE Rename(x, n) /\ UNCHANGED <<grants, tab, cookie>>
    BY <2>6 DEF SetUserName
  <2> QED BY <2>1, <2>2, <2>3, <2>4, <2>5, <2>6
<1> QED BY <1>1, <1>2, <1>3

\* The name of a tab that joins is that of the tabs of its identity.
LEMMA JoinsWithTheName ==
  ASSUME NEW t \in Tab, OneNamePerIdentity, NEW s \in Socket, IsOn(s),
         Identity(s) = SecretOf[t], users[s].name # None
  PROVE  JoinName(t) = users[s].name
<1> DEFINE peers == {x \in Socket : IsOn(x) /\ Identity(x) = SecretOf[t]
                                    /\ users[x].name # None}
           c == CHOOSE x \in peers : TRUE
<1>1. s \in peers OBVIOUS
<1>2. c \in peers BY <1>1
<1>3. JoinName(t) = users[c].name BY <1>1 DEF JoinName
<1>4. c \in Socket /\ IsOn(c) /\ Identity(c) = SecretOf[t] /\ users[c].name # None BY <1>2
<1> HIDE DEF c, peers
<1> QED BY <1>3, <1>4 DEF OneNamePerIdentity

\* In whatever order the tabs of an identity join with names of their own and
\* are renamed, those that have a chosen name have the same one
\* (ensureBoardUser, setUserName).
THEOREM NamesAgree == Spec => []OneNamePerIdentity
<1>1. Init => OneNamePerIdentity BY DEF Init, OneNamePerIdentity, IsOn
<1>2. TypeInv /\ OneNamePerIdentity /\ [Next]_vars => OneNamePerIdentity'
  <2> SUFFICES ASSUME TypeInv, OneNamePerIdentity, [Next]_vars
               PROVE  OneNamePerIdentity' OBVIOUS
  <2>1. TypeOK BY DEF TypeInv
  <2>2. ASSUME \A s \in Socket : users'[s] # None => IsOn(s) /\ users'[s].name = users[s].name
        PROVE  OneNamePerIdentity'
    BY <2>2 DEF OneNamePerIdentity, IsOn, Identity
  <2>3. CASE UNCHANGED vars BY <2>2, <2>3 DEF vars, server, IsOn
  <2>4. CASE Tick \/ DropBoard BY <2>2, <2>4 DEF Tick, DropBoard, IsOn
  <2>5. ASSUME NEW x \in Socket, NEW n \in Name, Rename(x, n) PROVE OneNamePerIdentity'
    <3>1. \A s \in Socket : users'[s] = IF IsOn(s) /\ Identity(s) = Identity(x)
                                        THEN [users[s] EXCEPT !.name = n] ELSE users[s]
      BY <2>5 DEF Rename, Renamed
    <3>2. \A s \in Socket : IsOn(s) => users[s] \in UserRecord BY <2>1, UsersType
    <3>3. \A s \in Socket : users'[s] # None => IsOn(s) BY <3>1 DEF IsOn
    <3>4. \A s \in Socket : IsOn(s) =>
            users'[s].name = IF Identity(s) = Identity(x) THEN n ELSE users[s].name
      BY <3>1, <3>2 DEF UserRecord
    <3> QED BY <3>3, <3>4 DEF OneNamePerIdentity, IsOn, Identity
  <2>6. CASE \/ Moderation \/ (\E s \in Socket : Leave(s) \/ CloseModerated(s))
             \/ \E t \in Tab : SetUrlName(t)
    BY <2>1, <2>2, <2>5, <2>6, NamesKept
  <2>7. ASSUME NEW t \in Tab, NEW k \in 1..MaxConn[t], Join(t, k) PROVE OneNamePerIdentity'
    <3> DEFINE s == <<t, k>>
               u == User(t, JoinName(t))
    <3>1. s \in Socket /\ Identity(s) = SecretOf[t] BY Sockets
    <3>2. users' = [users EXCEPT ![s] = u] BY <2>7 DEF Join
    <3>3. u.name = JoinName(t) BY DEF User
    <3> HIDE DEF s, u
    <3>4. \A x \in Socket : users'[x] = IF x = s THEN u ELSE users[x]
      BY <2>1, <3>1, <3>2 DEF TypeOK, Users
    <3>5. \A x \in Socket : x # s /\ IsOn(x) /\ Identity(x) = Identity(s) /\ users[x].name # None
            => users[x].name = users'[s].name
      BY <3>1, <3>3, <3>4, JoinsWithTheName
    <3> QED BY <3>4, <3>5 DEF OneNamePerIdentity, IsOn, Identity
  <2>8. ASSUME NEW t \in Tab, Receive(t) \/ Reconnect(t) \/ AccessRefresh(t)
                              \/ Disconnect(t) \/ Acknowledge(t)
        PROVE  OneNamePerIdentity'
    BY <2>1, <2>2, <2>8, TabWires DEF server, IsOn
  <2> QED BY <2>3, <2>4, <2>6, <2>7, <2>8, Steps
<1> QED BY <1>1, <1>2, TypeInvariant, PTL DEF Spec

\* The records with a chosen name that are on their way to socket a as its own.
NamedOf(a) == {m \in About(a) : /\ m.kind # "left" /\ Says(m, a) \in UserRecord
                                /\ Says(m, a).name # None}

\* Tab t will store a name, or waits for the one it has asked for, or is not
\* on the board.
Pending(t) == \/ ~OnBoard(t)
              \/ tab[t].wanted # None
              \/ ~HasNone(wire[Attached(t)], NamedOf(Attached(t)))

\* The last name that is on its way to a tab is the one it has.
NameFollows(t) ==
  LET w == wire[Attached(t)]
      K == NamedOf(Attached(t)) IN
  \A i : IsLast(w, K, i) => Says(w[i], Attached(t)).name = users[Attached(t)].name

Saved(t) ==
  users[Attached(t)].name # None =>
    \/ cookie[SecretOf[t]] = users[Attached(t)].name
    \/ \E p \in Tab : SecretOf[p] = SecretOf[t] /\ Pending(p)

NamesInv == \A t \in Tab : OnBoard(t) => NameFollows(t) /\ Saved(t)

LEMMA NameFollowsWhenTold ==
  ASSUME TypeOK, TypeOK', NEW t \in Tab, OnBoard(t), NameFollows(t),
         tab'[t].conn = tab[t].conn, IsTold(Attached(t)), users'[Attached(t)] # None,
         users[Attached(t)].name # None => users'[Attached(t)].name # None
  PROVE  NameFollows(t)'
<1> DEFINE a == Attached(t)
           w == wire[a]
           K == NamedOf(a)
<1>1. a \in Socket /\ w \in Seq(Message) BY ReceivedType DEF OnBoard, TypeOK
<1>2. Attached(t)' = a BY DEF Attached
<1>3. Hears(a) BY ReceivedType DEF Hears, OnBoard
<1>4. PICK q \in Seq(Message) : wire'[a] = w \o q /\ Tells(q, users') BY <1>3 DEF IsTold
<1>5. users'[a] \in UserRecord BY <1>1 DEF TypeOK, Users
<1>6. NameFollows(t)' <=> \A i : IsLast(wire'[a], K, i) => Says(wire'[a][i], a).name = users'[a].name
  BY <1>2 DEF NameFollows
<1>7. \A i : IsLast(w, K, i) => i \in DOMAIN w /\ w[i] \in K /\ Says(w[i], a).name = users[a].name
  BY DEF NameFollows, IsLast
<1>8. /\ \A m \in K : m \in About(a) /\ Says(m, a).name # None
      /\ \A m \in About(a) : m \notin K /\ Says(m, a) = users'[a] => users'[a].name = None
  BY <1>5 DEF NamedOf, About, Says
<1> HIDE DEF a, w, K
<1>9. ASSUME NEW i, IsLast(w \o q, K, i) PROVE Says((w \o q)[i], a).name = users'[a].name
  <2>1. \/ IsLast(w, K, i) /\ HasNone(q, K) /\ (w \o q)[i] = w[i]
        \/ \E j \in DOMAIN q : q[j] \in K /\ (w \o q)[i] = q[j]
    <3>1. /\ \A h : IsLast(w \o q, K, h) =>
               \/ IsLast(w, K, h) /\ HasNone(q, K) /\ (w \o q)[h] = w[h]
               \/ \E j \in DOMAIN q : q[j] \in K /\ (w \o q)[h] = q[j]
          /\ HasNone(w \o q, K) => HasNone(w, K) /\ HasNone(q, K)
      BY <1>1, LastOfConcat
    <3> QED BY <1>9, <3>1
  <2>2. \/ HasNone(q, About(a)) /\ users'[a] = users[a]
        \/ /\ \E j \in DOMAIN q : q[j] \in About(a)
           /\ \A j \in DOMAIN q : q[j] \in About(a) => Says(q[j], a) = users'[a]
    BY <1>1, <1>4 DEF Tells
  <2>3. CASE \E j \in DOMAIN q : q[j] \in K /\ (w \o q)[i] = q[j]
    BY <1>8, <2>2, <2>3 DEF HasNone
  <2>4. CASE IsLast(w, K, i) /\ HasNone(q, K) /\ (w \o q)[i] = w[i]
    <3>1. users[a].name # None BY <1>7, <1>8, <2>4
    <3>2. users'[a].name # None BY <3>1 DEF a
    <3>3. users'[a] = users[a] BY <1>8, <2>2, <2>4, <3>2 DEF HasNone
    <3> QED BY <1>7, <2>4, <3>3
  <2> QED BY <2>1, <2>3, <2>4
<1> QED BY <1>4, <1>6, <1>9

LEMMA PendingWhenTold ==
  ASSUME TypeOK, NEW t \in Tab, Pending(t), tab'[t].conn = tab[t].conn,
         tab'[t].wanted = tab[t].wanted, \A s \in Socket : IsTold(s),
         \A s \in Socket : users'[s] # None => IsOn(s)
  PROVE  Pending(t)'
<1> DEFINE a == Attached(t)
           w == wire[a]
           K == NamedOf(a)
<1>1. Attached(t)' = a BY DEF Attached
<1>2. CASE ~OnBoard(t)
  <2>1. CASE tab[t].conn = 0 BY <2>1 DEF Pending, OnBoard
  <2>2. CASE tab[t].conn # 0
    <3>1. a \in Socket /\ ~IsOn(a) BY <1>2, <2>2, ReceivedType DEF OnBoard
    <3>2. users'[a] = None BY <3>1
    <3> QED BY <1>1, <3>2 DEF Pending, OnBoard, IsOn
  <2> QED BY <2>1, <2>2
<1>3. CASE tab[t].wanted # None BY <1>3 DEF Pending
<1>4. CASE OnBoard(t) /\ ~HasNone(w, K)
  <2>1. a \in Socket /\ w \in Seq(Message) BY <1>4, ReceivedType DEF OnBoard, TypeOK
  <2>2. PICK q \in Seq(Message) : wire'[a] = w \o q BY <2>1 DEF IsTold
  <2> HIDE DEF w, K
  <2>3. ~HasNone(w \o q, K) BY <1>4, <2>1, LastOfConcat
  <2>4. ~HasNone(wire'[a], K) BY <2>2, <2>3
  <2> QED BY <1>1, <2>4 DEF Pending, K
<1> QED BY <1>2, <1>3, <1>4 DEF Pending

\* A renamed tab is sent its new name.
LEMMA RenamePends ==
  ASSUME TypeOK, NEW x \in Socket, NEW n \in Name, Rename(x, n), NEW t \in Tab, OnBoard(t),
         SecretOf[t] = Identity(x), tab'[t].conn = tab[t].conn
  PROVE  Pending(t)'
<1> DEFINE new     == Renamed(x, n)
           changed == {y \in Socket : IsOn(y) /\ Identity(y) = Identity(x)}
           q       == JoinedOf(changed, new)
           ms      == [s \in Socket |-> q]
           a       == Attached(t)
<1>1. a \in Socket /\ Owner(a) = t /\ wire[a] \in Seq(Message) BY ReceivedType DEF OnBoard, TypeOK
<1>2. a \in changed /\ Hears(a)
  BY <1>1, Sockets, ReceivedType DEF OnBoard, Hears, Owner
<1>3. \A s \in changed : new[s] \in UserRecord /\ new[s].name = n
  BY UsersType DEF UserRecord, Renamed
<1>4. wire' = Sent(ms) BY DEF Rename, JoinedOf
<1>5. changed \in SUBSET Socket OBVIOUS
<1> HIDE DEF changed, new
<1>6. q \in Seq(Message) /\ \E i \in DOMAIN q : q[i] = Joined(a, new[a])
  BY <1>2, <1>3, <1>5, JoinedNews
<1> HIDE DEF q
<1>7. ms \in [Socket -> Seq(Message)] BY <1>6
<1>8. wire'[a] = wire[a] \o q
  <2>1. ms[a] = q BY <1>1
  <2> HIDE DEF ms
  <2> QED BY <1>1, <1>2, <1>4, <1>7, <2>1, SentType
<1>9. Joined(a, new[a]) \in NamedOf(a)
  <2>1. n # None BY UsersAssumption
  <2> QED BY <1>1, <1>2, <1>3, <2>1, AboutMessages DEF NamedOf
<1>10. ~HasNone(wire'[a], NamedOf(a))
  <2>1. ~HasNone(q, NamedOf(a)) BY <1>6, <1>9 DEF HasNone
  <2>2. \A v, w \in Seq(Message) : HasNone(v \o w, NamedOf(a)) => HasNone(w, NamedOf(a))
    BY LastOfConcat
  <2> HIDE DEF a
  <2> QED BY <1>1, <1>6, <1>8, <2>1, <2>2
<1>11. Attached(t)' = a BY DEF Attached
<1> HIDE DEF a
<1> QED BY <1>10, <1>11 DEF Pending

\* What names.receive makes of a message: the tab's own name is stored, or the
\* tab asks for the one of its URL.
LEMMA ReceiveNames ==
  ASSUME TypeInv, NEW t \in Tab, Receive(t)
  PROVE  LET m == Received(t)
             a == Attached(t) IN
         /\ m \in Message
         /\ tab[t].wanted # None => tab'[t].wanted # None
         /\ \A x \in Secret : x # SecretOf[t] => cookie'[x] = cookie[x]
         /\ \/ tab'[t].wanted # None
            \/ cookie'[SecretOf[t]] = IF m \in NamedOf(a) THEN Says(m, a).name
                                      ELSE cookie[SecretOf[t]]
<1> DEFINE m == Received(t)
           a == Attached(t)
<1>1. tab[t].conn # 0 /\ wire[a] # << >>
  BY DEF Receive, OnBootstrap, OnUserJoined, OnUserLeft, OnBoardState,
         OnModerationDisconnect, IsNextKind
<1>2. m \in Message /\ a \in Socket /\ wire[a] \in Seq(Message)
  BY <1>1, ReceivedType DEF TypeInv, TypeOK
<1>3. tab[t] \in TabRecord /\ DOMAIN tab = Tab /\ SecretOf[t] \in Secret
      /\ cookie \in [Secret -> Name \union {None}]
  BY UsersAssumption DEF TypeInv, TypeOK
<1>4. ASSUME NEW u \in UserRecord, NEW r \in TabRecord, r.wanted = tab[t].wanted,
             NameReceived(t, u, r),
             m \in NamedOf(a) => Says(m, a) = u, m \notin NamedOf(a) => u.name = None
      PROVE  /\ tab[t].wanted # None => tab'[t].wanted # None
             /\ \A x \in Secret : x # SecretOf[t] => cookie'[x] = cookie[x]
             /\ \/ tab'[t].wanted # None
                \/ cookie'[SecretOf[t]] = IF m \in NamedOf(a) THEN Says(m, a).name
                                          ELSE cookie[SecretOf[t]]
  <2> DEFINE asks == r.urlName # None /\ r.urlName # u.name
             n == [r EXCEPT !.urlName = None, !.wanted = IF asks THEN r.urlName ELSE r.wanted]
  <2>1. tab' = [tab EXCEPT ![t] = n] BY <1>4 DEF NameReceived
  <2>2. n.wanted = IF asks THEN r.urlName ELSE tab[t].wanted BY <1>4 DEF TabRecord
  <2>3. tab'[t].wanted = IF asks THEN r.urlName ELSE tab[t].wanted
    <3> HIDE DEF n
    <3> QED BY <1>3, <2>1, <2>2
  <2>4. cookie' = [cookie EXCEPT ![SecretOf[t]] =
          IF asks \/ u.name = None THEN cookie[SecretOf[t]] ELSE u.name]
    BY <1>4 DEF NameReceived
  <2>5. m \in NamedOf(a) => u.name # None BY <1>4 DEF NamedOf
  <2> HIDE DEF m, a, n
  <2>6. asks => tab'[t].wanted # None BY <2>3
  <2>7. ~asks => cookie'[SecretOf[t]] = IF m \in NamedOf(a) THEN Says(m, a).name
                                        ELSE cookie[SecretOf[t]]
    BY <1>3, <1>4, <2>4, <2>5
  <2> QED BY <1>3, <2>3, <2>4, <2>6, <2>7
<1>5. ASSUME m \notin NamedOf(a), tab'[t].wanted = tab[t].wanted, UNCHANGED cookie
      PROVE  /\ tab[t].wanted # None => tab'[t].wanted # None
             /\ \A x \in Secret : x # SecretOf[t] => cookie'[x] = cookie[x]
             /\ \/ tab'[t].wanted # None
                \/ cookie'[SecretOf[t]] = IF m \in NamedOf(a) THEN Says(m, a).name
                                          ELSE cookie[SecretOf[t]]
  BY <1>5
<1>6. CASE OnBootstrap(t)
  <2>1. m.kind = "bootstrap" /\ m = wire[a][1] BY <1>6 DEF OnBootstrap, IsNextKind, Received
  <2>2. 1 \in DOMAIN wire[a]
    <3> HIDE DEF a
    <3> QED BY <1>1, <1>2, LenProperties, EmptySeq
  <2>3. m.users[a] \in UserRecord /\ m.access \in AccessRecord
    BY <1>2, <2>1, <2>2 DEF TypeInv, OwnRecordSent, Message
  <2>4. m \in About(a) /\ Says(m, a) = m.users[a] BY <1>2, <2>1 DEF About, Says
  <2> DEFINE q == Told(tab[t], m.access)
             r == [q EXCEPT !.view = m.users]
  <2>5. q \in TabRecord /\ q.wanted = tab[t].wanted
    <3>1. q \in TabRecord BY <1>3, <2>3, ToldType DEF TypeInv
    <3>2. q.wanted = tab[t].wanted BY <1>3 DEF Told, TabRecord
    <3> QED BY <3>1, <3>2
  <2>6. m.users \in Users BY <1>2, <2>1 DEF Message
  <2>7. NameReceived(t, m.users[a], r) BY <1>6 DEF OnBootstrap
  <2>8. r \in TabRecord /\ r.wanted = tab[t].wanted
    <3> HIDE DEF q, m
    <3> QED BY <2>5, <2>6 DEF TabRecord
  <2>9. m \in NamedOf(a) <=> m.users[a].name # None BY <2>1, <2>3, <2>4 DEF NamedOf
  <2> HIDE DEF m, a, r
  <2> QED BY <1>2, <1>4, <2>3, <2>4, <2>7, <2>8, <2>9 DEF m, a
<1>7. CASE OnUserJoined(t)
  <2>1. m.kind = "joined" BY <1>7 DEF OnUserJoined, IsNextKind, Received
  <2>2. m.socket \in Socket /\ m.user \in UserRecord BY <1>2, <2>1 DEF Message
  <2> DEFINE r == [tab[t] EXCEPT !.view[m.socket] = m.user]
  <2>3. r \in TabRecord /\ r.wanted = tab[t].wanted
    <3>1. [tab[t].view EXCEPT ![m.socket] = m.user] \in Users
      BY <1>3, <2>2 DEF TabRecord, Users
    <3> HIDE DEF m
    <3> QED BY <1>3, <3>1 DEF TabRecord
  <2>4. m \in About(a) <=> m.socket = a BY <1>2, <2>1 DEF About
  <2>5. Says(m, a) = m.user BY <2>1 DEF Says
  <2>6. CASE m.socket = a
    <3>1. NameReceived(t, m.user, r) BY <1>7, <2>6 DEF OnUserJoined
    <3>2. m \in NamedOf(a) <=> m.user.name # None BY <2>1, <2>2, <2>4, <2>5, <2>6 DEF NamedOf
    <3> HIDE DEF m, a, r
    <3> QED BY <1>2, <1>4, <2>2, <2>3, <2>5, <3>1, <3>2 DEF m, a
  <2>7. CASE m.socket # a
    <3>1. tab' = [tab EXCEPT ![t] = r] /\ UNCHANGED cookie BY <1>7, <2>7 DEF OnUserJoined
    <3>2. m \notin NamedOf(a) BY <2>4, <2>7 DEF NamedOf
    <3>3. tab'[t].wanted = tab[t].wanted
      <4> HIDE DEF r
      <4> QED BY <1>3, <2>3, <3>1
    <3> HIDE DEF m, a, r
    <3> QED BY <1>2, <1>5, <3>1, <3>2, <3>3 DEF m, a
  <2> QED BY <2>6, <2>7
<1>8. CASE OnUserLeft(t) \/ OnBoardState(t) \/ OnModerationDisconnect(t)
  <2>1. m.kind \in {"left", "state", "notice"}
    BY <1>8 DEF OnUserLeft, OnBoardState, OnModerationDisconnect, IsNextKind, Received
  <2>2. m \notin NamedOf(a) BY <2>1 DEF NamedOf, About
  <2>3. UNCHANGED cookie BY <1>8 DEF OnUserLeft, OnBoardState, OnModerationDisconnect
  <2>4. tab'[t].wanted = tab[t].wanted
    <3>1. CASE OnUserLeft(t) BY <1>3, <3>1 DEF OnUserLeft, TabRecord
    <3>2. CASE OnBoardState(t) BY <1>3, <3>2 DEF OnBoardState, Told, TabRecord
    <3>3. CASE OnModerationDisconnect(t) BY <1>3, <3>3 DEF OnModerationDisconnect, TabRecord
    <3> QED BY <1>8, <3>1, <3>2, <3>3
  <2> HIDE DEF m, a
  <2> QED BY <1>2, <1>5, <2>2, <2>3, <2>4 DEF m, a
<1> QED BY <1>6, <1>7, <1>8 DEF Receive

LEMMA NamesWhenKept ==
  ASSUME TypeOK, TypeOK', NamesInv, UNCHANGED <<tab, cookie>>, \A s \in Socket : IsTold(s),
         \A s \in Socket : users'[s] # None => IsOn(s) /\ users'[s].name = users[s].name
  PROVE  NamesInv'
<1> SUFFICES ASSUME NEW t \in Tab, OnBoard(t)' PROVE NameFollows(t)' /\ Saved(t)'
  BY DEF NamesInv
<1>1. tab[t].conn # 0 /\ users'[Attached(t)] # None BY DEF OnBoard, IsOn, Attached
<1>2. Attached(t) \in Socket /\ Attached(t)' = Attached(t) BY <1>1, ReceivedType DEF Attached
<1>3. OnBoard(t) /\ users'[Attached(t)].name = users[Attached(t)].name BY <1>1, <1>2 DEF OnBoard
<1>4. NameFollows(t) /\ Saved(t) BY <1>3 DEF NamesInv
<1>5. NameFollows(t)' BY <1>1, <1>2, <1>3, <1>4, NameFollowsWhenTold
<1>6. \A p \in Tab : Pending(p) => Pending(p)' BY PendingWhenTold
<1>7. Saved(t)' BY <1>2, <1>3, <1>4, <1>6 DEF Saved
<1> QED BY <1>5, <1>7

LEMMA NamesWhenRenamed ==
  ASSUME TypeOK, TypeOK', NamesInv, NEW x \in Socket, NEW n \in Name, Rename(x, n),
         UNCHANGED <<grants, cookie>>, \A t \in Tab : tab'[t].conn = tab[t].conn,
         \A t \in Tab : tab'[t].wanted = tab[t].wanted \/ (OnBoard(t) /\ SecretOf[t] = Identity(x))
  PROVE  NamesInv'
<1> SUFFICES ASSUME NEW t \in Tab, OnBoard(t)' PROVE NameFollows(t)' /\ Saved(t)'
  BY DEF NamesInv
<1>1. tab[t].conn # 0 /\ users'[Attached(t)] # None BY DEF OnBoard, IsOn, Attached
<1>2. Attached(t) \in Socket /\ Owner(Attached(t)) = t /\ Attached(t)' = Attached(t)
  BY <1>1, ReceivedType DEF Attached
<1>3. \A s \in Socket : users'[s] = IF IsOn(s) /\ Identity(s) = Identity(x)
                                    THEN [users[s] EXCEPT !.name = n] ELSE users[s]
  BY DEF Rename, Renamed
<1>4. \A s \in Socket : IsOn(s) => users[s] \in UserRecord BY UsersType
<1>5. \A s \in Socket : users'[s] # None => IsOn(s) BY <1>3 DEF IsOn
<1>6. OnBoard(t) BY <1>1, <1>2, <1>5 DEF OnBoard
<1>7. users'[Attached(t)].name = IF SecretOf[t] = Identity(x) THEN n ELSE users[Attached(t)].name
  <2>1. Identity(Attached(t)) = SecretOf[t] BY <1>2, Sockets DEF Owner
  <2>2. IsOn(Attached(t)) /\ users[Attached(t)] \in UserRecord
    BY <1>2, <1>4, <1>6 DEF OnBoard
  <2> QED BY <1>2, <1>3, <2>1, <2>2 DEF UserRecord
<1>8. \A s \in Socket : IsTold(s) BY RenameTold
<1>9. NameFollows(t) /\ Saved(t) BY <1>6 DEF NamesInv
<1>10. n # None BY UsersAssumption
<1>11. NameFollows(t)'
  BY <1>1, <1>2, <1>6, <1>7, <1>8, <1>9, <1>10, NameFollowsWhenTold
<1>12. CASE SecretOf[t] = Identity(x)
  <2>1. Pending(t)' BY <1>6, <1>12, RenamePends
  <2> QED BY <1>11, <2>1 DEF Saved
<1>13. CASE SecretOf[t] # Identity(x)
  <2>1. \A p \in Tab : SecretOf[p] = SecretOf[t] => tab'[p].wanted = tab[p].wanted BY <1>13
  <2>2. \A p \in Tab : SecretOf[p] = SecretOf[t] /\ Pending(p) => Pending(p)'
    BY <1>5, <1>8, <2>1, PendingWhenTold
  <2>3. Saved(t)' BY <1>2, <1>7, <1>9, <1>13, <2>2 DEF Saved
  <2> QED BY <1>11, <2>3
<1> QED BY <1>12, <1>13

LEMMA NamesWhenJoined ==
  ASSUME TypeOK, TypeOK', OneNamePerIdentity, NamesInv,
         NEW t \in Tab, NEW k \in 1..MaxConn[t], Join(t, k)
  PROVE  NamesInv'
<1> DEFINE s == <<t, k>>
<1>1. /\ s \in Socket /\ Owner(s) = t /\ s[2] = k
      /\ users'[s] \in UserRecord
      /\ \A x \in Socket : x # s => users'[x] = users[x]
      /\ Access(grants, t) \in AccessRecord /\ UNCHANGED grants
          /\ wire'[s] = <<Bootstrap(users', Access(grants, t))>>
      /\ \A x \in Socket : x # s => IsTold(x)
      /\ \A x \in Tab : tab'[x] = IF x = t
           THEN [tab[t] EXCEPT !.state = "connected", !.conn = k] ELSE tab[x]
  <2>1. JoinTold(t, k, s) BY JoinTells
  <2> QED BY <2>1 DEF JoinTold
<1>2. users'[s].name = JoinName(t)
  <2>1. users' = [users EXCEPT ![s] = User(t, JoinName(t))] BY DEF Join
  <2>2. User(t, JoinName(t)).name = JoinName(t) BY DEF User
  <2> QED BY <1>1, <2>1, <2>2 DEF TypeOK, Users
<1>3. Attached(t)' = s BY <1>1 DEF Attached, TypeOK, TabRecord
<1>4. UNCHANGED cookie BY DEF Join
<1>5. users' \in Users BY DEF TypeOK
<1> HIDE DEF s
<1>6. PICK a \in AccessRecord : wire'[s] = <<Bootstrap(users', a)>> BY <1>1
<1>7. DOMAIN wire'[s] = {1} /\ wire'[s][1] = Bootstrap(users', a) BY <1>6
<1>8. /\ Bootstrap(users', a) \in About(s) /\ Says(Bootstrap(users', a), s) = users'[s]
      /\ Bootstrap(users', a).kind = "bootstrap"
  BY <1>1, <1>5, AboutMessages
<1>9. NameFollows(t)'
  <2>1. NameFollows(t)' <=> \A i : IsLast(wire'[s], NamedOf(s), i) =>
          Says(wire'[s][i], s).name = users'[s].name
    BY <1>3 DEF NameFollows
  <2> QED BY <1>7, <1>8, <2>1 DEF IsLast
<1>10. users'[s].name # None => Pending(t)'
  <2>1. users'[s].name # None => Bootstrap(users', a) \in NamedOf(s)
    BY <1>1, <1>8 DEF NamedOf
  <2>2. users'[s].name # None => ~HasNone(wire'[s], NamedOf(s)) BY <1>7, <2>1 DEF HasNone
  <2> QED BY <1>3, <2>2 DEF Pending
<1>11. Saved(t)' BY <1>3, <1>10 DEF Saved
<1>12. ASSUME NEW x \in Tab, x # t, OnBoard(x)' PROVE NameFollows(x)' /\ Saved(x)'
  <2>1. tab'[x] = tab[x] BY <1>1, <1>12
  <2>2. tab[x].conn # 0 /\ Attached(x)' = Attached(x) BY <1>12, <2>1 DEF OnBoard, Attached
  <2>3. Attached(x) \in Socket /\ Owner(Attached(x)) = x BY <2>2, ReceivedType
  <2>4. Attached(x) # s BY <1>1, <1>12, <2>3
  <2>5. users'[Attached(x)] # None /\ users'[Attached(x)] = users[Attached(x)]
    BY <1>1, <1>12, <2>2, <2>3, <2>4 DEF OnBoard, IsOn
  <2>6. OnBoard(x) BY <2>2, <2>5 DEF OnBoard, IsOn
  <2>7. NameFollows(x) /\ Saved(x) BY <2>6 DEF NamesInv
  <2>8. NameFollows(x)'
    BY <1>1, <2>1, <2>3, <2>4, <2>5, <2>6, <2>7, NameFollowsWhenTold
  <2>9. CASE SecretOf[x] = SecretOf[t]
    <3>1. Identity(Attached(x)) = SecretOf[t] BY <2>3, <2>9, Sockets DEF Owner
    <3>2. users[Attached(x)].name # None => JoinName(t) # None
      BY <2>3, <2>6, <3>1, JoinsWithTheName DEF OnBoard
    <3> QED BY <1>2, <1>10, <2>2, <2>5, <2>8, <2>9, <3>2 DEF Saved
  <2>10. CASE SecretOf[x] # SecretOf[t]
    <3>1. ASSUME NEW p \in Tab, SecretOf[p] = SecretOf[x], Pending(p) PROVE Pending(p)'
      <4>1. p # t /\ tab'[p] = tab[p] BY <1>1, <2>10, <3>1
      <4>2. Attached(p)' = Attached(p) BY <4>1 DEF Attached
      <4>3. CASE tab[p].conn = 0 BY <4>1, <4>3 DEF Pending, OnBoard
      <4>4. CASE tab[p].conn # 0
        <5>1. Attached(p) \in Socket /\ Owner(Attached(p)) = p BY <4>4, ReceivedType
        <5>2. Attached(p) # s BY <1>1, <4>1, <5>1
        <5>3. users'[Attached(p)] = users[Attached(p)] /\ IsTold(Attached(p)) BY <1>1, <5>1, <5>2
        <5>4. PICK q \in Seq(Message) : wire'[Attached(p)] = wire[Attached(p)] \o q
          BY <5>3 DEF IsTold
        <5>5. wire[Attached(p)] \in Seq(Message) BY <5>1 DEF TypeOK
        <5>6. \A v, w \in Seq(Message) :
                HasNone(v \o w, NamedOf(Attached(p))) => HasNone(v, NamedOf(Attached(p)))
          BY LastOfConcat
        <5>7. HasNone(wire'[Attached(p)], NamedOf(Attached(p)))
                => HasNone(wire[Attached(p)], NamedOf(Attached(p)))
          BY <5>4, <5>5, <5>6
        <5> QED BY <3>1, <4>1, <4>2, <5>3, <5>7 DEF Pending, OnBoard, IsOn
      <4> QED BY <4>3, <4>4
    <3>2. Saved(x)' BY <1>4, <2>2, <2>5, <2>7, <3>1 DEF Saved
    <3> QED BY <2>8, <3>2
  <2> QED BY <2>9, <2>10
<1> QED BY <1>9, <1>11, <1>12 DEF NamesInv

LEMMA NamesWhenReceived ==
  ASSUME TypeInv, OneNamePerIdentity, NamesInv, NEW t \in Tab, Receive(t)
  PROVE  NamesInv'
<1> DEFINE m == Received(t)
           a == Attached(t)
           w == wire[a]
           K == NamedOf(a)
           x == SecretOf[t]
<1>1. tab[t].conn # 0 /\ w # << >> /\ wire' = Taken(t) /\ UNCHANGED users
  BY DEF Receive, OnBootstrap, OnUserJoined, OnUserLeft, OnBoardState,
         OnModerationDisconnect, IsNextKind, server
<1>2. /\ a \in Socket /\ Owner(a) = t /\ w \in Seq(Message) /\ m = Head(w)
      /\ \A s \in Socket : wire'[s] = IF s = a THEN Tail(w) ELSE wire[s]
  BY <1>1, ReceivedType DEF TypeInv, TypeOK, Received
<1>3. /\ tab[t].wanted # None => tab'[t].wanted # None
      /\ \A y \in Secret : y # x => cookie'[y] = cookie[y]
      /\ \/ tab'[t].wanted # None
         \/ cookie'[x] = IF m \in K THEN Says(m, a).name ELSE cookie[x]
  BY ReceiveNames
<1>4. tab'[t].conn = tab[t].conn BY ReceiveShows DEF TypeInv
<1>5. \A p \in Tab : p # t => tab'[p] = tab[p] BY TabWires DEF TypeInv
<1>6. \A p \in Tab : Attached(p)' = Attached(p) /\ (OnBoard(p)' <=> OnBoard(p))
  BY <1>1, <1>4, <1>5 DEF Attached, OnBoard, IsOn
<1>7. \A p \in Tab : tab[p].conn # 0 => Attached(p) \in Socket /\ Owner(Attached(p)) = p
  BY ReceivedType DEF TypeInv
<1>8. \A p \in Tab : p # t /\ tab[p].conn # 0 => wire'[Attached(p)] = wire[Attached(p)]
  BY <1>2, <1>7
<1>9. /\ \A i : IsLast(Tail(w), K, i) => IsLast(w, K, i + 1) /\ Tail(w)[i] = w[i + 1]
      /\ HasNone(Tail(w), K) => IF Head(w) \in K THEN IsLast(w, K, 1) /\ w[1] = Head(w)
                                ELSE HasNone(w, K)
  <2> HIDE DEF K, w
  <2> QED BY <1>1, <1>2, LastOfTail
<1>10. OnBoard(t) => NameFollows(t)'
  <2> SUFFICES ASSUME OnBoard(t) PROVE NameFollows(t)' OBVIOUS
  <2>1. NameFollows(t)' <=> \A i : IsLast(wire'[a], K, i) => Says(wire'[a][i], a).name = users'[a].name
    BY <1>6 DEF NameFollows
  <2>2. \A i : IsLast(w, K, i) => Says(w[i], a).name = users[a].name
    BY DEF NamesInv, NameFollows
  <2>3. wire'[a] = Tail(w) /\ users'[a] = users[a] BY <1>1, <1>2
  <2> HIDE DEF a, w, K
  <2>4. ASSUME NEW i, IsLast(Tail(w), K, i) PROVE Says(Tail(w)[i], a).name = users[a].name
    <3>1. IsLast(w, K, i + 1) /\ Tail(w)[i] = w[i + 1] BY <1>9, <2>4
    <3>2. Says(w[i + 1], a).name = users[a].name BY <2>2, <3>1
    <3> QED BY <3>1, <3>2
  <2> QED BY <2>1, <2>3, <2>4
<1>11. \A p \in Tab : p # t /\ OnBoard(p) => NameFollows(p)'
  BY <1>1, <1>6, <1>8 DEF NamesInv, NameFollows, OnBoard
<1>12. \A p \in Tab : p # t /\ Pending(p) => Pending(p)'
  BY <1>5, <1>6, <1>8 DEF Pending, OnBoard
<1>13. \/ Pending(t)'
       \/ OnBoard(t) /\ m \notin K /\ HasNone(w, K) /\ tab[t].wanted = None /\ cookie'[x] = cookie[x]
       \/ OnBoard(t) /\ users[a].name # None /\ cookie'[x] = users[a].name
  <2>1. Pending(t)' <=> \/ ~OnBoard(t) \/ tab'[t].wanted # None \/ ~HasNone(Tail(w), K)
    BY <1>2, <1>6 DEF Pending
  <2>2. m \in K => Says(m, a).name # None BY DEF NamedOf
  <2>3. OnBoard(t) => \A i : IsLast(w, K, i) => Says(w[i], a).name = users[a].name
    BY DEF NamesInv, NameFollows
  <2> HIDE DEF a, w, K, m, x
  <2>4. CASE m \in K BY <1>2, <1>3, <1>9, <2>1, <2>2, <2>3, <2>4
  <2>5. CASE m \notin K BY <1>2, <1>3, <1>9, <2>1, <2>5
  <2> QED BY <2>4, <2>5
<1>14. ASSUME NEW p \in Tab, OnBoard(p) PROVE Saved(p)'
  <2> SUFFICES ASSUME users[Attached(p)].name # None
               PROVE  \/ cookie'[SecretOf[p]] = users[Attached(p)].name
                      \/ \E q \in Tab : SecretOf[q] = SecretOf[p] /\ Pending(q)'
    BY <1>1, <1>6 DEF Saved
  <2>1. \/ cookie[SecretOf[p]] = users[Attached(p)].name
        \/ \E q \in Tab : SecretOf[q] = SecretOf[p] /\ Pending(q)
    BY <1>14 DEF NamesInv, Saved
  <2>2. SecretOf[p] \in Secret BY UsersAssumption
  <2>3. CASE SecretOf[p] # x
    <3>1. \A q \in Tab : SecretOf[q] = SecretOf[p] => q # t BY <2>3
    <3> HIDE DEF x
    <3> QED BY <1>3, <1>12, <2>1, <2>2, <2>3, <3>1
  <2>4. CASE SecretOf[p] = x
    <3>1. CASE Pending(t)' BY <2>4, <3>1
    <3>2. CASE OnBoard(t) /\ users[a].name # None /\ cookie'[x] = users[a].name
      <4>1. Attached(p) \in Socket /\ IsOn(Attached(p)) /\ Identity(Attached(p)) = SecretOf[p]
        BY <1>7, <1>14, Sockets DEF OnBoard, Owner
      <4>2. IsOn(a) /\ Identity(a) = x BY <1>2, <3>2, Sockets DEF OnBoard, Owner
      <4>3. users[Attached(p)].name = users[a].name
        BY <1>2, <2>4, <3>2, <4>1, <4>2 DEF OneNamePerIdentity
      <4> QED BY <2>4, <3>2, <4>3
    <3>3. CASE /\ OnBoard(t) /\ m \notin K /\ HasNone(w, K) /\ tab[t].wanted = None
               /\ cookie'[x] = cookie[x]
      <4>1. ~Pending(t) BY <3>3 DEF Pending
      <4> QED BY <1>12, <2>1, <2>4, <3>3, <4>1
    <3> QED BY <1>13, <3>1, <3>2, <3>3
  <2> QED BY <2>3, <2>4
<1> QED BY <1>6, <1>10, <1>11, <1>14 DEF NamesInv

\* "Renames update every connected tab sharing that authenticated identity on
\* the same board, including their saved cookies" (README.md): when the tabs of
\* a browser are connected and have received everything, its cookie holds the
\* name they have on the board (names.receive, setUserName, ensureBoardUser).
THEOREM CookiesFollow == Spec => []NamesAreSaved
<1>1. Init => NamesInv BY DEF Init, NewTab, NamesInv, OnBoard
<1>2. TypeInv /\ TypeInv' /\ OneNamePerIdentity /\ NamesInv /\ [Next]_vars => NamesInv'
  <2> SUFFICES ASSUME TypeInv, TypeInv', OneNamePerIdentity, NamesInv, [Next]_vars
               PROVE  NamesInv' OBVIOUS
  <2>1. TypeOK /\ TypeOK' BY DEF TypeInv
  <2>2. CASE UNCHANGED vars
    BY <2>2 DEF vars, server, NamesInv, OnBoard, IsOn, NameFollows, Saved, Pending, Attached
  <2>3. CASE Tick
    BY <2>3 DEF Tick, NamesInv, OnBoard, IsOn, NameFollows, Saved, Pending, Attached
  <2>4. CASE DropBoard
    <3>1. \A t \in Tab : tab[t].conn # 0 => Attached(t) \in Socket BY <2>1, ReceivedType
    <3>2. \A t \in Tab : ~OnBoard(t)' BY <2>4, <3>1 DEF DropBoard, OnBoard, IsOn, Attached
    <3> QED BY <3>2 DEF NamesInv
  <2>5. CASE \/ Moderation \/ (\E s \in Socket : Leave(s) \/ CloseModerated(s))
             \/ \E t \in Tab : SetUrlName(t)
    <3>1. \A s \in Socket : IsTold(s) BY <2>1, <2>5, EveryoneIsTold
    <3>2. CASE /\ UNCHANGED <<tab, cookie>>
               /\ \A s \in Socket : users'[s] # None => IsOn(s) /\ users'[s].name = users[s].name
      BY <2>1, <3>1, <3>2, NamesWhenKept
    <3>3. ASSUME NEW x \in Socket, NEW n \in Name, Rename(x, n), UNCHANGED <<grants, cookie>>,
                 \/ UNCHANGED tab
                 \/ \E t \in Tab : SetUrlName(t) /\ x = Attached(t) /\ n = tab[t].wanted
          PROVE  NamesInv'
      <4>1. CASE UNCHANGED tab BY <2>1, <3>3, <4>1, NamesWhenRenamed
      <4>2. ASSUME NEW t \in Tab, SetUrlName(t), x = Attached(t) PROVE NamesInv'
        <5>1. tab' = [tab EXCEPT ![t].wanted = None] /\ tab[t].wanted # None /\ IsOn(x)
          BY <4>2 DEF SetUrlName, Rename
        <5>2. tab[t].conn # 0 BY <2>1, <5>1 DEF TypeOK
        <5>3. SecretOf[t] = Identity(x) /\ OnBoard(t)
          BY <4>2, <5>1, <5>2 DEF Identity, Attached, OnBoard
        <5>4. \A p \in Tab : tab'[p].conn = tab[p].conn /\ (p # t => tab'[p] = tab[p])
          BY <2>1, <5>1 DEF TypeOK, TabRecord
        <5> QED BY <2>1, <3>3, <5>3, <5>4, NamesWhenRenamed
      <4> QED BY <3>3, <4>1, <4>2
    <3> QED BY <2>1, <2>5, <3>2, <3>3, NamesKept
  <2>6. ASSUME NEW t \in Tab, NEW k \in 1..MaxConn[t], Join(t, k) PROVE NamesInv'
    BY <2>1, <2>6, NamesWhenJoined
  <2>7. ASSUME NEW t \in Tab, Receive(t) PROVE NamesInv' BY <2>7, NamesWhenReceived
  <2>8. ASSUME NEW t \in Tab, Reconnect(t) \/ AccessRefresh(t) \/ Disconnect(t) \/ Acknowledge(t)
        PROVE  NamesInv'
    <3>1. UNCHANGED <<users, cookie>>
      BY <2>8 DEF Reconnect, AccessRefresh, Start, Disconnect, Acknowledge, server
    <3>2. /\ \A s \in Socket : Owner(s) # t => wire'[s] = wire[s]
          /\ \A p \in Tab : p # t => tab'[p] = tab[p]
      BY <2>1, <2>8, TabWires
    <3>3. \/ tab'[t].conn = 0
          \/ /\ UNCHANGED wire
             /\ tab'[t].conn = tab[t].conn /\ tab'[t].wanted = tab[t].wanted
      <4>1. CASE Acknowledge(t) BY <2>1, <4>1 DEF Acknowledge, TypeOK, TabRecord
      <4>2. CASE Reconnect(t) \/ AccessRefresh(t) \/ Disconnect(t) BY <2>1, <4>2, Closes
      <4> QED BY <2>8, <4>1, <4>2
    <3>4. \A p \in Tab : p # t => /\ Attached(p)' = Attached(p) /\ (OnBoard(p)' <=> OnBoard(p))
                                  /\ tab[p].conn # 0 => wire'[Attached(p)] = wire[Attached(p)]
      BY <2>1, <3>1, <3>2, ReceivedType DEF Attached, OnBoard, IsOn
    <3>5. \A p \in Tab : Pending(p) => Pending(p)'
      BY <3>1, <3>2, <3>3, <3>4 DEF Pending, OnBoard, Attached, IsOn
    <3>6. \A p \in Tab : OnBoard(p)' => /\ OnBoard(p) /\ Attached(p)' = Attached(p)
                                        /\ wire'[Attached(p)] = wire[Attached(p)]
      BY <3>1, <3>3, <3>4 DEF OnBoard, Attached, IsOn
    <3> QED BY <3>1, <3>5, <3>6 DEF NamesInv, NameFollows, Saved
  <2> QED BY <2>2, <2>3, <2>4, <2>5, <2>6, <2>7, <2>8, Steps
<1>3. NamesInv => NamesAreSaved
  BY DEF NamesInv, NamesAreSaved, Settled, Saved, Pending, HasNone
<1> QED BY <1>1, <1>2, <1>3, TypeInvariant, NamesAgree, PTL DEF Spec

-----------------------------------------------------------------------------
(* Access *)

\* The messages that tell a tab of its access.
AccessMessage == {m \in Message : m.kind \in {"state", "bootstrap"}}

\* Who is not told to ask again may edit, and moderates for good or not at all.
Sound(edit, moderate, t) == edit /\ (moderate => t \in Permanent)

AccessSound ==
  \A s \in Socket : \A i \in DOMAIN wire[s] :
    wire[s][i] \in AccessMessage /\ wire[s][i].access.left = None
      => Sound(wire[s][i].access.edit, wire[s][i].access.moderate, Owner(s))

\* A moderator knows of it, from the last message on its way or from an earlier
\* one; a tab that will not ask again has been told what stays true.
RightsFollow(t) ==
  LET w == wire[Attached(t)] IN
  /\ Moderates(grants, t) =>
       /\ \A i : IsLast(w, AccessMessage, i) => w[i].access.moderate
       /\ HasNone(w, AccessMessage) => tab[t].told.moderate
  /\ HasNone(w, AccessMessage) /\ tab[t].timer = None
       => Sound(tab[t].told.edit, tab[t].told.moderate, t)

RightsInv == AccessSound /\ \A t \in Tab : OnBoard(t) => RightsFollow(t)

\* What the server says of a tab's access.
LEMMA AccessIsSound ==
  ASSUME TypeOK, NEW g \in [Secret -> 0..MaxTime], NEW t \in Tab
  PROVE  /\ Access(g, t).moderate = Moderates(g, t)
         /\ Access(g, t).left = None => Sound(Access(g, t).edit, Access(g, t).moderate, t)
  BY AccessType DEF TypeOK, Sound, Access

LEMMA AccessStaysSound ==
  ASSUME TypeInv, TypeOK', AccessSound, Next
  PROVE  AccessSound'
<1>1. wire \in [Socket -> Seq(Message)] /\ grants' \in [Secret -> 0..MaxTime] BY DEF TypeInv, TypeOK
<1>2. \A s \in Socket : /\ Len(wire[s]) \in Nat /\ DOMAIN wire[s] = 1..Len(wire[s])
  BY <1>1, LenProperties
<1> DEFINE SoundAt(s) ==
      \A i \in DOMAIN wire'[s] :
        wire'[s][i] \in AccessMessage /\ wire'[s][i].access.left = None
          => Sound(wire'[s][i].access.edit, wire'[s][i].access.moderate, Owner(s))
<1>3. ASSUME NEW s \in Socket, IsTold(s) PROVE SoundAt(s)
  <2>1. PICK q \in Seq(Message) : wire'[s] = wire[s] \o q /\ HasNoBootstrap(q) /\ Informs(q, s)
    BY <1>3 DEF IsTold
  <2>2. Len(q) \in Nat /\ DOMAIN q = 1..Len(q) BY LenProperties
  <2> DEFINE r == wire[s] \o q
  <2>3. r \in Seq(Message) /\ Len(r) = Len(wire[s]) + Len(q) /\
        \A i \in 1..Len(wire[s]) + Len(q) :
          r[i] = IF i <= Len(wire[s]) THEN wire[s][i] ELSE q[i - Len(wire[s])]
    BY <1>1, ConcatProperties
  <2>4. DOMAIN r = 1..Len(wire[s]) + Len(q) BY <2>3, LenProperties
  <2> HIDE DEF r
  <2>5. \A i \in DOMAIN r : \/ i \in DOMAIN wire[s] /\ r[i] = wire[s][i]
                            \/ i - Len(wire[s]) \in DOMAIN q /\ r[i] = q[i - Len(wire[s])]
    BY <1>2, <2>2, <2>3, <2>4, SMTT(20)
  <2>6. \A j \in DOMAIN q : q[j] \in AccessMessage => q[j].access = Access(grants', Owner(s))
    BY <2>1 DEF HasNoBootstrap, Informs, AccessMessage
  <2>7. Access(grants', Owner(s)).left = None =>
          Sound(Access(grants', Owner(s)).edit, Access(grants', Owner(s)).moderate, Owner(s))
    BY <1>1, Sockets, AccessIsSound DEF TypeInv
  <2>8. \A i \in DOMAIN r : r[i] \in AccessMessage /\ r[i].access.left = None
          => Sound(r[i].access.edit, r[i].access.moderate, Owner(s))
    BY <2>5, <2>6, <2>7 DEF AccessSound
  <2> QED BY <2>1, <2>8 DEF r
<1>4. ASSUME NEW s \in Socket, wire'[s] \in {wire[s], << >>}
                               \/ (wire[s] # << >> /\ wire'[s] = Tail(wire[s]))
      PROVE  SoundAt(s)
  <2>1. CASE wire'[s] = wire[s] BY <2>1 DEF AccessSound
  <2>2. CASE wire'[s] = << >> BY <2>2
  <2>3. CASE wire[s] # << >> /\ wire'[s] = Tail(wire[s])
    <3>1. /\ Tail(wire[s]) \in Seq(Message) /\ Len(Tail(wire[s])) = Len(wire[s]) - 1
          /\ \A i \in 1..Len(Tail(wire[s])) : Tail(wire[s])[i] = wire[s][i + 1]
      BY <1>1, <2>3, HeadTailProperties
    <3>2. DOMAIN Tail(wire[s]) = 1..Len(Tail(wire[s])) BY <3>1, LenProperties
    <3>3. \A i \in DOMAIN wire'[s] : i + 1 \in DOMAIN wire[s] /\ wire'[s][i] = wire[s][i + 1]
      BY <1>2, <2>3, <3>1, <3>2
    <3> QED BY <3>3 DEF AccessSound
  <2> QED BY <1>4, <2>1, <2>2, <2>3
<1>5. CASE Tick \/ DropBoard BY <1>5 DEF Tick, DropBoard, AccessSound
<1>6. CASE \/ Moderation \/ (\E s \in Socket : Leave(s) \/ CloseModerated(s))
           \/ \E t \in Tab : SetUrlName(t)
  BY <1>3, <1>6, EveryoneIsTold DEF TypeInv, AccessSound
<1>7. ASSUME NEW t \in Tab, NEW k \in 1..MaxConn[t], Join(t, k) PROVE AccessSound'
  <2> DEFINE s == <<t, k>>
  <2>1. /\ s \in Socket /\ Owner(s) = t
        /\ Access(grants, t) \in AccessRecord /\ UNCHANGED grants
        /\ wire'[s] = <<Bootstrap(users', Access(grants, t))>>
        /\ \A x \in Socket : x # s => IsTold(x)
    <3>1. JoinTold(t, k, s) BY <1>7, JoinTells DEF TypeInv
    <3> QED BY <3>1 DEF JoinTold
  <2>2. Access(grants, t).left = None =>
          Sound(Access(grants, t).edit, Access(grants, t).moderate, t)
    BY <1>1, <2>1, AccessIsSound DEF TypeInv
  <2> HIDE DEF s
  <2>3. \A i \in DOMAIN wire'[s] : wire'[s][i].access = Access(grants, t)
    BY <2>1 DEF Bootstrap
  <2>4. SoundAt(s) BY <2>1, <2>2, <2>3
  <2> QED BY <1>3, <2>1, <2>4 DEF AccessSound
<1>8. ASSUME NEW t \in Tab, Receive(t) \/ Reconnect(t) \/ AccessRefresh(t)
                            \/ Disconnect(t) \/ Acknowledge(t)
      PROVE  AccessSound'
  BY <1>4, <1>8, TabWires DEF TypeInv, AccessSound
<1> QED BY <1>5, <1>6, <1>7, <1>8, Steps

LEMMA RightsWhenTold ==
  ASSUME TypeOK, TypeOK', NEW t \in Tab, OnBoard(t), RightsFollow(t), UNCHANGED now,
         tab'[t].conn = tab[t].conn, tab'[t].told = tab[t].told, tab'[t].timer = tab[t].timer,
         IsTold(Attached(t))
  PROVE  RightsFollow(t)'
<1> DEFINE a == Attached(t)
           w == wire[a]
           K == AccessMessage
<1>1. a \in Socket /\ w \in Seq(Message) /\ Owner(a) = t BY ReceivedType DEF OnBoard, TypeOK
<1>2. Attached(t)' = a BY DEF Attached
<1>3. Hears(a) BY ReceivedType DEF Hears, OnBoard
<1>4. PICK q \in Seq(Message) : wire'[a] = w \o q /\ HasNoBootstrap(q) /\ Informs(q, a)
  BY DEF IsTold
<1>5. /\ \A j \in DOMAIN q : q[j] \in K <=> q[j].kind = "state"
      /\ \A j \in DOMAIN q : q[j] \in K => q[j].access = Access(grants', t)
      /\ Moderates(grants', t) => Moderates(grants, t) \/ \E j \in DOMAIN q : q[j].kind = "state"
  <2>1. \A j \in DOMAIN q : q[j] \in Message BY LenProperties
  <2> QED BY <1>1, <1>3, <1>4, <2>1 DEF HasNoBootstrap, Informs, AccessMessage
<1>6. Access(grants', t).moderate = Moderates(grants', t) BY DEF Access
<1>7. Moderates(grants, t)' <=> Moderates(grants', t) BY DEF Moderates, GrantEnd
<1>8. RightsFollow(t)' <=>
        /\ Moderates(grants', t) =>
             /\ \A i : IsLast(wire'[a], K, i) => wire'[a][i].access.moderate
             /\ HasNone(wire'[a], K) => tab'[t].told.moderate
        /\ HasNone(wire'[a], K) /\ tab'[t].timer = None
             => Sound(tab'[t].told.edit, tab'[t].told.moderate, t)
  BY <1>2, <1>7 DEF RightsFollow
<1>9. /\ \A i : IsLast(w \o q, K, i) =>
           \/ IsLast(w, K, i) /\ HasNone(q, K) /\ (w \o q)[i] = w[i]
           \/ \E j \in DOMAIN q : q[j] \in K /\ (w \o q)[i] = q[j]
      /\ HasNone(w \o q, K) => HasNone(w, K) /\ HasNone(q, K)
  <2> HIDE DEF w, K
  <2> QED BY <1>1, LastOfConcat
<1>10. /\ Moderates(grants, t) =>
            /\ \A i : IsLast(w, K, i) => w[i].access.moderate
            /\ HasNone(w, K) => tab[t].told.moderate
       /\ HasNone(w, K) /\ tab[t].timer = None
            => Sound(tab[t].told.edit, tab[t].told.moderate, t)
  BY DEF RightsFollow
<1>11. HasNone(q, K) /\ Moderates(grants', t) => Moderates(grants, t) BY <1>5 DEF HasNone
<1> HIDE DEF a, w, K
<1>12. ASSUME Moderates(grants', t), NEW i, IsLast(w \o q, K, i)
       PROVE  (w \o q)[i].access.moderate
  <2>1. CASE IsLast(w, K, i) /\ HasNone(q, K) /\ (w \o q)[i] = w[i]
    BY <1>10, <1>11, <1>12, <2>1
  <2>2. CASE \E j \in DOMAIN q : q[j] \in K /\ (w \o q)[i] = q[j]
    BY <1>5, <1>6, <1>12, <2>2
  <2> QED BY <1>9, <1>12, <2>1, <2>2
<1>13. Moderates(grants', t) /\ HasNone(w \o q, K) => tab[t].told.moderate BY <1>9, <1>10, <1>11
<1> QED BY <1>4, <1>8, <1>9, <1>10, <1>12, <1>13

\* What a tab knows of its access after a message.
LEMMA ReceiveTellsAccess ==
  ASSUME TypeOK, NEW t \in Tab, Receive(t)
  PROVE  LET m == Received(t) IN
         IF m \in AccessMessage
         THEN /\ tab'[t].told = [edit |-> m.access.edit, moderate |-> m.access.moderate]
              /\ tab'[t].timer = None => m.access.left = None
         ELSE tab'[t].told = tab[t].told /\ tab'[t].timer = tab[t].timer
<1> DEFINE m == Received(t)
<1>1. tab[t].conn # 0 /\ wire[Attached(t)] # << >>
  BY DEF Receive, OnBootstrap, OnUserJoined, OnUserLeft, OnBoardState,
         OnModerationDisconnect, IsNextKind
<1>2. m \in Message BY <1>1, ReceivedType
<1>3. tab[t] \in TabRecord /\ DOMAIN tab = Tab BY DEF TypeOK
<1>4. ASSUME NEW a \in AccessRecord
      PROVE  /\ Told(tab[t], a) \in TabRecord
             /\ Told(tab[t], a).told = [edit |-> a.edit, moderate |-> a.moderate]
             /\ Told(tab[t], a).timer = None => a.left = None
  <2>1. a.left # None => now + a.left \in Nat BY UsersAssumption DEF TypeOK, AccessRecord
  <2>2. None \notin Nat BY UsersAssumption
  <2>3. Told(tab[t], a) \in TabRecord BY <1>3, ToldType
  <2> QED BY <1>3, <2>1, <2>2, <2>3 DEF Told, TabRecord
<1>5. CASE OnBootstrap(t)
  <2>1. m.kind = "bootstrap" BY <1>5 DEF OnBootstrap, IsNextKind, Received
  <2>2. m.access \in AccessRecord BY <1>2, <2>1 DEF Message
  <2> DEFINE q == Told(tab[t], m.access)
             r == [q EXCEPT !.view = m.users]
             n == [r EXCEPT !.urlName = None, !.wanted =
                     IF r.urlName # None /\ r.urlName # m.users[Attached(t)].name
                     THEN r.urlName ELSE r.wanted]
  <2>3. tab' = [tab EXCEPT ![t] = n] BY <1>5 DEF OnBootstrap, NameReceived
  <2>4. n.told = q.told /\ n.timer = q.timer
    <3>1. q \in TabRecord BY <1>4, <2>2
    <3> HIDE DEF q
    <3> QED BY <3>1 DEF TabRecord
  <2>5. tab'[t].told = q.told /\ tab'[t].timer = q.timer
    <3> HIDE DEF n
    <3> QED BY <1>3, <2>3, <2>4
  <2>6. m \in AccessMessage BY <1>2, <2>1 DEF AccessMessage
  <2> HIDE DEF n, r, m
  <2> QED BY <1>4, <2>2, <2>5, <2>6 DEF m
<1>6. CASE OnBoardState(t)
  <2>1. m.kind = "state" BY <1>6 DEF OnBoardState, IsNextKind, Received
  <2>2. m.access \in AccessRecord BY <1>2, <2>1 DEF Message
  <2> DEFINE q == Told(tab[t], m.access)
  <2>3. tab' = [tab EXCEPT ![t] = q] BY <1>3, <1>6 DEF OnBoardState
  <2>4. tab'[t].told = q.told /\ tab'[t].timer = q.timer
    <3> HIDE DEF q
    <3> QED BY <1>3, <2>3
  <2>5. m \in AccessMessage BY <1>2, <2>1 DEF AccessMessage
  <2> HIDE DEF m
  <2> QED BY <1>4, <2>2, <2>4, <2>5 DEF m
<1>7. CASE OnUserJoined(t)
  <2>1. m.kind = "joined" BY <1>7 DEF OnUserJoined, IsNextKind, Received
  <2> DEFINE r == [tab[t] EXCEPT !.view[m.socket] = m.user]
             n == [r EXCEPT !.urlName = None, !.wanted =
                     IF r.urlName # None /\ r.urlName # m.user.name
                     THEN r.urlName ELSE r.wanted]
  <2>2. tab' = [tab EXCEPT ![t] = n] \/ tab' = [tab EXCEPT ![t] = r]
    BY <1>7 DEF OnUserJoined, NameReceived
  <2>3. /\ r.told = tab[t].told /\ r.timer = tab[t].timer
        /\ n.told = tab[t].told /\ n.timer = tab[t].timer
    BY <1>3 DEF TabRecord
  <2>4. tab'[t].told = tab[t].told /\ tab'[t].timer = tab[t].timer
    <3> HIDE DEF n, r
    <3> QED BY <1>3, <2>2, <2>3
  <2> QED BY <2>1, <2>4 DEF AccessMessage
<1>8. CASE OnUserLeft(t) \/ OnModerationDisconnect(t)
  <2>1. m.kind \in {"left", "notice"}
    BY <1>8 DEF OnUserLeft, OnModerationDisconnect, IsNextKind, Received
  <2>2. tab'[t].told = tab[t].told /\ tab'[t].timer = tab[t].timer
    BY <1>3, <1>8 DEF OnUserLeft, OnModerationDisconnect, TabRecord
  <2> QED BY <2>1, <2>2 DEF AccessMessage
<1> QED BY <1>5, <1>6, <1>7, <1>8 DEF Receive

LEMMA RightsWhenReceived ==
  ASSUME TypeInv, AccessSound, NEW t \in Tab, OnBoard(t), RightsFollow(t), Receive(t)
  PROVE  RightsFollow(t)'
<1> DEFINE a == Attached(t)
           w == wire[a]
           m == Received(t)
           K == AccessMessage
<1>1. /\ tab[t].conn # 0 /\ w # << >> /\ wire' = Taken(t) /\ UNCHANGED server
  BY DEF Receive, OnBootstrap, OnUserJoined, OnUserLeft, OnBoardState,
         OnModerationDisconnect, IsNextKind
<1>2. a \in Socket /\ Owner(a) = t /\ w \in Seq(Message) /\ m = Head(w)
  BY <1>1, ReceivedType DEF TypeInv, TypeOK, Received
<1>3. wire'[a] = Tail(w) BY <1>1, <1>2, ReceivedType DEF TypeInv
<1>4. IF m \in K
      THEN /\ tab'[t].told = [edit |-> m.access.edit, moderate |-> m.access.moderate]
           /\ tab'[t].timer = None => m.access.left = None
      ELSE tab'[t].told = tab[t].told /\ tab'[t].timer = tab[t].timer
  BY ReceiveTellsAccess DEF TypeInv
<1>5. tab'[t].conn = tab[t].conn BY ReceiveShows DEF TypeInv
<1>6. Attached(t)' = a BY <1>5 DEF Attached
<1>7. Moderates(grants, t)' <=> Moderates(grants, t) BY <1>1 DEF server, Moderates, GrantEnd
<1>8. RightsFollow(t)' <=>
        /\ Moderates(grants, t) =>
             /\ \A i : IsLast(wire'[a], K, i) => wire'[a][i].access.moderate
             /\ HasNone(wire'[a], K) => tab'[t].told.moderate
        /\ HasNone(wire'[a], K) /\ tab'[t].timer = None
             => Sound(tab'[t].told.edit, tab'[t].told.moderate, t)
  BY <1>6, <1>7 DEF RightsFollow
<1>9. /\ \A i : IsLast(Tail(w), K, i) => IsLast(w, K, i + 1) /\ Tail(w)[i] = w[i + 1]
      /\ HasNone(Tail(w), K) => IF Head(w) \in K THEN IsLast(w, K, 1) /\ w[1] = Head(w)
                                ELSE HasNone(w, K)
  <2> HIDE DEF K, w
  <2> QED BY <1>1, <1>2, LastOfTail
<1>10. /\ Moderates(grants, t) =>
            /\ \A i : IsLast(w, K, i) => w[i].access.moderate
            /\ HasNone(w, K) => tab[t].told.moderate
       /\ HasNone(w, K) /\ tab[t].timer = None
            => Sound(tab[t].told.edit, tab[t].told.moderate, t)
  BY DEF RightsFollow
<1>11. m \in K /\ m.access.left = None => Sound(m.access.edit, m.access.moderate, t)
  <2>1. 1 \in DOMAIN w /\ m = w[1]
    <3> HIDE DEF w
    <3> QED BY <1>1, <1>2, LenProperties, EmptySeq
  <2> QED BY <1>2, <2>1 DEF AccessSound
<1> HIDE DEF a, w, m, K
<1>12. ASSUME Moderates(grants, t), NEW i, IsLast(Tail(w), K, i) PROVE Tail(w)[i].access.moderate
  <2>1. IsLast(w, K, i + 1) /\ Tail(w)[i] = w[i + 1] BY <1>9, <1>12
  <2>2. w[i + 1].access.moderate BY <1>10, <1>12, <2>1
  <2> QED BY <2>1, <2>2
<1>13. CASE m \in K
  <2>1. HasNone(Tail(w), K) => IsLast(w, K, 1) /\ w[1] = m BY <1>2, <1>9, <1>13
  <2>2. Moderates(grants, t) /\ HasNone(Tail(w), K) => tab'[t].told.moderate
    BY <1>4, <1>10, <1>13, <2>1
  <2>3. tab'[t].timer = None => Sound(tab'[t].told.edit, tab'[t].told.moderate, t)
    BY <1>4, <1>11, <1>13
  <2> QED BY <1>3, <1>8, <1>12, <2>2, <2>3
<1>14. CASE m \notin K
  <2>1. HasNone(Tail(w), K) => HasNone(w, K) BY <1>2, <1>9, <1>14
  <2> QED BY <1>3, <1>4, <1>8, <1>10, <1>12, <1>14, <2>1
<1> QED BY <1>13, <1>14

LEMMA RightsWhenJoined ==
  ASSUME TypeOK, TypeOK', RightsInv, NEW t \in Tab, NEW k \in 1..MaxConn[t], Join(t, k),
         NEW x \in Tab, OnBoard(x)'
  PROVE  RightsFollow(x)'
<1> DEFINE s == <<t, k>>
           b == Bootstrap(users', Access(grants, t))
<1>1. /\ s \in Socket /\ Owner(s) = t /\ s[2] = k
      /\ users'[s] \in UserRecord
      /\ \A y \in Socket : y # s => users'[y] = users[y]
      /\ Access(grants, t) \in AccessRecord /\ UNCHANGED grants
      /\ wire'[s] = <<Bootstrap(users', Access(grants, t))>>
      /\ \A y \in Socket : y # s => IsTold(y)
      /\ \A y \in Tab : tab'[y] = IF y = t
           THEN [tab[t] EXCEPT !.state = "connected", !.conn = k] ELSE tab[y]
  <2>1. JoinTold(t, k, s) BY JoinTells
  <2> QED BY <2>1 DEF JoinTold
<1>2. UNCHANGED <<now, grants>> BY DEF Join
<1>3. CASE x = t
  <2>1. Attached(t)' = s BY <1>1 DEF Attached, TypeOK, TabRecord
  <2>2. DOMAIN wire'[s] = {1} /\ wire'[s][1] = b BY <1>1
  <2>3. users' \in Users BY DEF TypeOK
  <2>4. b \in AccessMessage /\ b.access = Access(grants, t)
    BY <1>1, <2>3, MessageTypes DEF Bootstrap, AccessMessage
  <2>5. Moderates(grants, t)' <=> Access(grants, t).moderate
    BY <1>2 DEF Moderates, GrantEnd, Access
  <2>6. RightsFollow(t)' <=>
          /\ Moderates(grants, t)' =>
               /\ \A i : IsLast(wire'[s], AccessMessage, i) => wire'[s][i].access.moderate
               /\ HasNone(wire'[s], AccessMessage) => tab'[t].told.moderate
          /\ HasNone(wire'[s], AccessMessage) /\ tab'[t].timer = None
               => Sound(tab'[t].told.edit, tab'[t].told.moderate, t)
    BY <2>1 DEF RightsFollow
  <2> HIDE DEF b, s
  <2> QED BY <1>3, <2>2, <2>4, <2>5, <2>6 DEF HasNone, IsLast
<1>4. CASE x # t
  <2>1. tab'[x] = tab[x] BY <1>1, <1>4
  <2>2. tab[x].conn # 0 /\ Attached(x)' = Attached(x) BY <2>1 DEF OnBoard, Attached
  <2>3. Attached(x) \in Socket /\ Owner(Attached(x)) = x BY <2>2, ReceivedType
  <2>4. Attached(x) # s BY <1>1, <1>4, <2>3
  <2>5. OnBoard(x) BY <1>1, <2>2, <2>3, <2>4 DEF OnBoard, IsOn
  <2> QED BY <1>1, <1>2, <2>1, <2>3, <2>4, <2>5, RightsWhenTold DEF RightsInv
<1> QED BY <1>3, <1>4

\* A connected tab that has been told of moderator rights it no longer has, or
\* of a restriction that has ended, has a refresh coming; nobody is left
\* without a right that was granted, however joins, bans, grants and their ends
\* interleave (scheduleAccessRefresh, refreshUserAccess).
THEOREM AccessIsRefreshed == Spec => []NoStaleRestriction
<1>1. Init => RightsInv BY DEF Init, NewTab, RightsInv, AccessSound, OnBoard
<1>2. TypeInv /\ TypeInv' /\ RightsInv /\ [Next]_vars => RightsInv'
  <2> SUFFICES ASSUME TypeInv, TypeInv', RightsInv, [Next]_vars
               PROVE  RightsInv' OBVIOUS
  <2>1. TypeOK /\ TypeOK' BY DEF TypeInv
  <2>2. CASE UNCHANGED vars
    <3>1. AccessSound' BY <2>2 DEF vars, RightsInv, AccessSound
    <3>2. \A t \in Tab : /\ OnBoard(t)' <=> OnBoard(t)
                         /\ RightsFollow(t)' <=> RightsFollow(t)
      BY <2>2 DEF vars, server, OnBoard, IsOn, Attached, RightsFollow, Moderates, GrantEnd
    <3> QED BY <3>1, <3>2 DEF RightsInv
  <2>3. CASE Next
    <3>1. AccessSound' BY <2>1, <2>3, AccessStaysSound DEF RightsInv
    <3> SUFFICES ASSUME NEW x \in Tab, OnBoard(x)' PROVE RightsFollow(x)'
      BY <3>1 DEF RightsInv
    <3>2. CASE Tick
      <4>1. now' = now + 1 /\ now \in Nat /\ UNCHANGED <<grants, users, wire, tab>>
        BY <2>1, <3>2 DEF Tick, TypeOK
      <4>2. OnBoard(x) /\ Attached(x)' = Attached(x) BY <4>1 DEF OnBoard, IsOn, Attached
      <4>3. GrantEnd(grants, x) \in Nat BY <2>1, UsersAssumption DEF TypeOK, GrantEnd
      <4>4. GrantEnd(grants, x)' = GrantEnd(grants, x) BY <4>1 DEF GrantEnd
      <4>5. Moderates(grants, x)' => Moderates(grants, x) BY <4>1, <4>3, <4>4 DEF Moderates
      <4>6. RightsFollow(x) BY <4>2 DEF RightsInv
      <4> QED BY <4>1, <4>2, <4>5, <4>6 DEF RightsFollow
    <3>3. CASE DropBoard
      <4>1. tab[x].conn # 0 => Attached(x) \in Socket BY <2>1, ReceivedType
      <4> QED BY <3>3, <4>1 DEF DropBoard, OnBoard, IsOn, Attached
    <3>4. CASE \/ Moderation \/ (\E s \in Socket : Leave(s) \/ CloseModerated(s))
               \/ \E t \in Tab : SetUrlName(t)
      <4>1. \A s \in Socket : IsTold(s) BY <2>1, <3>4, EveryoneIsTold
      <4>2. \A s \in Socket : users'[s] # None => IsOn(s) BY <2>1, <3>4, NobodyAppears
      <4>3. UNCHANGED now /\ tab'[x].conn = tab[x].conn /\ tab'[x].told = tab[x].told
            /\ tab'[x].timer = tab[x].timer
        <5>1. CASE Moderation \/ \E s \in Socket : Leave(s) \/ CloseModerated(s)
          BY <5>1 DEF Moderation, ReportModerator, ReportByPeer, ReportByModerator,
               SetTemporaryModerator, SetUserName, Leave, CloseModerated
        <5>2. ASSUME NEW t \in Tab, SetUrlName(t)
              PROVE  UNCHANGED now /\ tab'[x].conn = tab[x].conn /\ tab'[x].told = tab[x].told
                     /\ tab'[x].timer = tab[x].timer
          BY <2>1, <5>2 DEF SetUrlName, TypeOK, TabRecord
        <5> QED BY <3>4, <5>1, <5>2
      <4>4. tab[x].conn # 0 /\ users'[Attached(x)] # None BY <4>3 DEF OnBoard, IsOn, Attached
      <4>5. Attached(x) \in Socket BY <2>1, <4>4, ReceivedType
      <4>6. OnBoard(x) BY <4>2, <4>4, <4>5 DEF OnBoard
      <4>7. RightsFollow(x) BY <4>6 DEF RightsInv
      <4> QED BY <2>1, <4>1, <4>3, <4>5, <4>6, <4>7, RightsWhenTold
    <3>5. ASSUME NEW t \in Tab, NEW k \in 1..MaxConn[t], Join(t, k) PROVE RightsFollow(x)'
      BY <2>1, <3>5, RightsWhenJoined
    <3>6. ASSUME NEW t \in Tab, Receive(t) \/ Reconnect(t) \/ AccessRefresh(t)
                                \/ Disconnect(t) \/ Acknowledge(t)
          PROVE  RightsFollow(x)'
      <4>1. /\ UNCHANGED server
            /\ \A s \in Socket : Owner(s) # t => wire'[s] = wire[s]
            /\ \A y \in Tab : y # t => tab'[y] = tab[y]
        BY <2>1, <3>6, TabWires
      <4>2. Moderates(grants, x)' <=> Moderates(grants, x)
        BY <4>1 DEF server, Moderates, GrantEnd
      <4>3. ASSUME tab'[x].conn = tab[x].conn, tab'[x].told = tab[x].told,
                   tab'[x].timer = tab[x].timer,
                   tab[x].conn # 0 => wire'[Attached(x)] = wire[Attached(x)]
            PROVE  RightsFollow(x)'
        <5>1. Attached(x)' = Attached(x) /\ OnBoard(x)
          BY <4>1, <4>3 DEF server, OnBoard, IsOn, Attached
        <5>2. RightsFollow(x) /\ tab[x].conn # 0 BY <5>1 DEF RightsInv, OnBoard
        <5> QED BY <4>2, <4>3, <5>1, <5>2 DEF RightsFollow
      <4>4. CASE x # t
        <5>1. tab[x].conn # 0 => Owner(Attached(x)) = x /\ Attached(x) \in Socket
          BY <2>1, ReceivedType
        <5> QED BY <4>1, <4>3, <4>4, <5>1
      <4>5. CASE x = t /\ Receive(t)
        <5>1. tab'[t].conn = tab[t].conn BY <2>1, <4>5, ReceiveShows
        <5>2. OnBoard(t) BY <4>1, <4>5, <5>1 DEF server, OnBoard, IsOn, Attached
        <5> QED BY <4>5, <5>2, RightsWhenReceived DEF RightsInv
      <4>6. CASE x = t /\ Acknowledge(t)
        <5>1. tab'[t].conn = tab[t].conn /\ tab'[t].told = tab[t].told
              /\ tab'[t].timer = tab[t].timer /\ UNCHANGED wire
          BY <2>1, <4>6 DEF Acknowledge, TypeOK, TabRecord
        <5> QED BY <4>3, <4>6, <5>1
      <4>7. CASE x = t /\ (Reconnect(t) \/ AccessRefresh(t) \/ Disconnect(t))
        BY <2>1, <4>7, Closes DEF OnBoard
      <4> QED BY <3>6, <4>4, <4>5, <4>6, <4>7
    <3> QED BY <2>3, <3>2, <3>3, <3>4, <3>5, <3>6, Steps
  <2> QED BY <2>2, <2>3
<1>3. TypeInv /\ RightsInv => NoStaleRestriction
  <2> SUFFICES ASSUME TypeInv, RightsInv, NEW t \in Tab, Settled(t)
               PROVE  LET a == Access(grants, t) IN
                      /\ a.moderate => tab[t].told.moderate
                      /\ (tab[t].told.moderate /\ ~a.moderate) \/ (~tab[t].told.edit /\ a.edit)
                           => tab[t].timer # None
    BY DEF NoStaleRestriction
  <2>1. OnBoard(t) /\ wire[Attached(t)] = << >> BY DEF Settled
  <2>2. HasNone(wire[Attached(t)], AccessMessage) BY <2>1 DEF HasNone
  <2>3. /\ Moderates(grants, t) => tab[t].told.moderate
        /\ tab[t].timer = None => Sound(tab[t].told.edit, tab[t].told.moderate, t)
    BY <2>1, <2>2 DEF RightsInv, RightsFollow
  <2>4. Access(grants, t).moderate <=> Moderates(grants, t) BY DEF Access
  <2>5. t \in Permanent => Moderates(grants, t) BY DEF Moderates
  <2> QED BY <2>3, <2>4, <2>5 DEF Sound
<1> QED BY <1>1, <1>2, <1>3, TypeInvariant, PTL DEF Spec
=============================================================================
