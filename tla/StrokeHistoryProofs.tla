------------------------- MODULE StrokeHistoryProofs -------------------------
(***************************************************************************)
(* Proofs about StrokeHistory, for any number of connections, lines, points*)
(* and restarts: the journal always tells which strokes were open and what *)
(* their curves were, and it has one interval and one curve for each line  *)
(* that is finished, those of all of its points.                           *)
(***************************************************************************)
EXTENDS StrokeHistory, SequenceLemmas, FiniteSetTheorems

-----------------------------------------------------------------------------
(* The inductive invariant *)

Boards(V) == UNION {[L -> V] : L \in SUBSET Line}
Strokes   == [id : Line, start : Nat, end : Nat] \union {NoStroke}
Curves    == Seq(Point)
Mutations == {m \in [type : {"create", "append", "delete", "clear", "restore"}, id : Line,
                     point : Point \union {None}, items : Boards(Curves \union {Gone})] :
                m.type = "append" => m.point \in Point}
Entries   == [kind : {"mutation"}, at : Nat, seq : Nat, m : Mutations]
               \union [kind : {"stroke"}, at : Nat, id : Line, start : Nat, end : Nat,
                       curve : Curves \union {NoCurve}]
               \union [kind : {"active"}, at : Nat, socket : Socket, stroke : Strokes]
Recoveries == [strokes : [Socket -> Strokes], curves : Boards(Curves)]
Histories == [strokes : [Socket -> Strokes], curves : Boards(Curves), journal : Seq(Entries)]

Messages == {m \in MessageType : /\ m.type # "gone" => m.id \in Line
                                 /\ m.type = "append" => m.point \in Point}
Answers  == [type : {"answer"}, id : Line, kept : BOOLEAN,
             write : {m \in Messages : m.type \in Writes}, ok : BOOLEAN]
              \union [type : {"clear", "delete", "restore"}, id : Line, kept : BOOLEAN]
Tabs == [line : Line \union {None}, count : 0..MaxChildren - 1, finished : SUBSET Line,
         cleaned : SUBSET Line, queue : Seq(Messages), up : Seq(Messages), down : Seq(Answers)]

\* Message a may come before b: nothing follows the end of the connection, lines
\* begin in the order of their names and a line has ended after its last point.
Fits(a, b) ==
  /\ a.type # "gone"
  /\ a.type = "create" /\ b.type = "create" => a.id < b.id
  /\ a.type = "create" /\ b.type = "append" => a.id <= b.id
  /\ a.type = "end" /\ b.type = "append" => a.id # b.id
InOrder(ms)    == \A j, k \in DOMAIN ms : j < k => Fits(ms[j], ms[k])
Before(ms, ns) == \A a \in Range(ms), b \in Range(ns) : Fits(a, b)

\* What a tab has written of its lines and the server has not read, and may still
\* write of the line it draws.
Written(t) == Range(t.queue) \union Range(t.up)
Pending(t) ==
  {<<m.type, m.id>> : m \in {m \in Written(t) : m.type \in {"create", "append"}}}
    \union {<<"append", l>> : l \in {t.line} \ {None}}
Live(t) == \A m \in Range(t.up) : m.type # "gone"
TabOK(t, n) ==
  /\ t \in Tabs /\ (t.line = None => t.count = 0)
  /\ \A m \in Range(t.queue) : m.kept /\ m.type # "gone"
  /\ InOrder(t.up) /\ InOrder(t.queue) /\ Before(t.up, t.queue)
  /\ t.line # None => /\ t.line <= n /\ t.line \notin t.finished
                      /\ \A m \in Written(t) : Fits(m, Message("append", t.line, None))
  /\ t.finished \subseteq 1..n
  /\ \A m \in Written(t) : m.type \in {"create", "append", "end"} => m.id <= n

\* What the journal says of a line.
Creates(r, l)  == IsMutation(r) /\ r.m.type = "create" /\ r.m.id = l
IsStrokeOf(r, l) == r.kind = "stroke" /\ r.id = l
Recorded(j)    == {l \in Line : \E k \in DOMAIN j : Creates(j[k], l)}
StrokesOf(j, l) == {k \in DOMAIN j : IsStrokeOf(j[k], l)}
Whole(j, l, start, end, curve) ==
  /\ \A k \in DOMAIN j : Creates(j[k], l) => j[k].at = start
  /\ \A k \in DOMAIN j : IsPointOf(j[k], l) => j[k].at <= end
  /\ curve = PencilCurve(PointsOf(j, l))
Open(j, x, curve) ==
  x.id \in Recorded(j) /\ StrokesOf(j, x.id) = {} /\ Whole(j, x.id, x.start, x.end, curve)
Finished(j, l) ==
  \E k \in DOMAIN j : /\ StrokesOf(j, l) = {k} /\ Whole(j, l, j[k].start, j[k].end, j[k].curve)
                      /\ \A i \in DOMAIN j : IsPointOf(j[i], l) => i < k

\* The lines of a history, with these strokes open and these curves.
LinesOK(o, c, j) ==
  /\ o \in [Socket -> Strokes] /\ c \in Boards(Curves) /\ j \in Seq(Entries)
  /\ \A k \in DOMAIN j : j[k].at <= Last0(j)
  /\ \A s, u \in Socket : o[s].id # None /\ o[s].id = o[u].id => s = u
  /\ DOMAIN c = {o[s].id : s \in Socket} \ {None}
  /\ \A l \in Line, k \in DOMAIN j :
       IsPointOf(j[k], l) \/ IsStrokeOf(j[k], l) => l \in Recorded(j)
  /\ \A l \in Line, i, k \in DOMAIN j : Creates(j[i], l) /\ Creates(j[k], l) => i = k
  /\ \A s \in Socket : o[s].id # None => Open(j, o[s], c[o[s].id])
  /\ \A l \in Recorded(j) : (\A s \in Socket : o[s].id # l) => Finished(j, l)
Recovers(h) == Recovered(h.journal) = [strokes |-> h.strokes, curves |-> h.curves]
HistoryOK(h) == h \in Histories /\ LinesOK(h.strokes, h.curves, h.journal) /\ Recovers(h)

\* A tab and its socket: a line that is still to be created is not recorded; one
\* that is recorded and still to be drawn is the stroke the socket has open; and
\* different sockets draw different lines.
LinesFor(s) ==
  {w[2] : w \in Pending(Of(s))} \union ({strokes[s].id} \ {None})
SocketOK(s) ==
  /\ TabOK(Of(s), drawn)
  /\ link[s] # "closed" => Live(Of(s))
  /\ LinesFor(s) \subseteq 1..drawn
  /\ \A l \in Line : <<"create", l>> \in Pending(Of(s)) => l \notin Recorded(journal)
  /\ \A l \in Line : <<"create", l>> \in Pending(Of(s)) => strokes[s].id < l
  /\ \A l \in Recorded(journal) : <<"append", l>> \in Pending(Of(s)) => strokes[s].id = l
VarsOK ==
  /\ link \in [Socket -> {"new", "open", "closed"}]
  /\ line \in [Socket -> Line \union {None}] /\ count \in [Socket -> 0..MaxChildren - 1]
  /\ finished \in [Socket -> SUBSET Line] /\ cleaned \in [Socket -> SUBSET Line]
  /\ queue \in [Socket -> Seq(Messages)] /\ up \in [Socket -> Seq(Messages)]
  /\ down \in [Socket -> Seq(Answers)]
  /\ board \in Boards(Curves) /\ was \in Boards(Curves \union {Gone})
  /\ drawn \in 0..MaxLines
StrokeInv ==
  /\ VarsOK /\ HistoryOK(History)
  /\ \A s \in Socket : SocketOK(s)
  /\ \A s, u \in Socket : s # u => LinesFor(s) \intersect LinesFor(u) = {}
  /\ DOMAIN board \union DOMAIN was \subseteq Recorded(journal)
  /\ Recorded(journal) \subseteq 1..drawn

-----------------------------------------------------------------------------
(* Sequences of messages *)

LEMMA MessageFields ==
  ASSUME NEW m \in Messages
  PROVE  /\ m.type \in {"create", "append", "delete", "end", "gone"} /\ m.kept \in BOOLEAN
         /\ m.id \in Nat /\ m.id \in Line \union {None} /\ m.point \in Point \union {None}
         /\ m.type # "gone" => m.id \in Line
         /\ m.type = "append" => m.point \in Point
<1>1. MaxLines \in Nat BY StrokeAssumption
<1> QED BY <1>1 DEF Messages, MessageType, Line, None

LEMMA InOrderAppend ==
  ASSUME NEW ms \in Seq(Messages), InOrder(ms), NEW m \in Messages, \A a \in Range(ms) : Fits(a, m)
  PROVE  /\ Append(ms, m) \in Seq(Messages) /\ InOrder(Append(ms, m))
         /\ Range(Append(ms, m)) = Range(ms) \union {m}
<1> DEFINE q == Append(ms, m)
<1>1. Len(ms) \in Nat /\ DOMAIN ms = 1..Len(ms) BY LenProperties
<1>2. /\ q \in Seq(Messages) /\ Len(q) = Len(ms) + 1 /\ q[Len(ms) + 1] = m
      /\ \A k \in 1..Len(ms) : q[k] = ms[k]
  BY AppendProperties
<1> HIDE DEF q
<1>3. DOMAIN q = 1..Len(ms) + 1 BY <1>2, LenProperties
<1>4. \A k \in DOMAIN q : k = Len(ms) + 1 \/ k \in DOMAIN ms BY <1>1, <1>3
<1>5. DOMAIN ms \subseteq DOMAIN q /\ Len(ms) + 1 \in DOMAIN q BY <1>1, <1>3
<1>6. Range(q) = Range(ms) \union {m}
  <2>1. Range(q) \subseteq Range(ms) \union {m} BY <1>1, <1>2, <1>4 DEF Range
  <2>2. Range(ms) \subseteq Range(q) BY <1>1, <1>2, <1>5 DEF Range
  <2>3. m \in Range(q) BY <1>2, <1>5 DEF Range
  <2> QED BY <2>1, <2>2, <2>3
<1>7. ASSUME NEW j \in DOMAIN q, NEW k \in DOMAIN q, j < k PROVE Fits(q[j], q[k])
  <2>1. j \in DOMAIN ms /\ q[j] = ms[j] /\ ms[j] \in Range(ms)
    <3>1. j \in 1..Len(ms) BY <1>1, <1>3, <1>7
    <3> QED BY <1>1, <1>2, <3>1 DEF Range
  <2>2. CASE k = Len(ms) + 1 BY <1>2, <2>1, <2>2
  <2>3. CASE k \in DOMAIN ms BY <1>1, <1>2, <1>7, <2>1, <2>3 DEF InOrder
  <2> QED BY <1>4, <2>2, <2>3
<1> QED BY <1>2, <1>6, <1>7 DEF q, InOrder

LEMMA InOrderConcat ==
  ASSUME NEW ms \in Seq(Messages), InOrder(ms), NEW ns \in Seq(Messages), InOrder(ns),
         Before(ms, ns)
  PROVE  /\ ms \o ns \in Seq(Messages) /\ InOrder(ms \o ns)
         /\ Range(ms \o ns) = Range(ms) \union Range(ns)
<1> DEFINE q == ms \o ns
<1>1. Len(ms) \in Nat /\ DOMAIN ms = 1..Len(ms) /\ Len(ns) \in Nat /\ DOMAIN ns = 1..Len(ns)
  BY LenProperties
<1>2. /\ q \in Seq(Messages) /\ Len(q) = Len(ms) + Len(ns)
      /\ \A k \in 1..Len(ms) + Len(ns) : q[k] = IF k <= Len(ms) THEN ms[k] ELSE ns[k - Len(ms)]
  BY ConcatProperties
<1>3. Range(q) = Range(ms) \union Range(ns) BY RangeOfConcat
<1> HIDE DEF q
<1>4. DOMAIN q = 1..Len(ms) + Len(ns) BY <1>2, LenProperties
<1>5. ASSUME NEW j \in DOMAIN q, NEW k \in DOMAIN q, j < k PROVE Fits(q[j], q[k])
  <2>1. CASE j <= Len(ms) /\ k <= Len(ms)
    <3>1. j \in DOMAIN ms /\ k \in DOMAIN ms /\ q[j] = ms[j] /\ q[k] = ms[k]
      BY <1>1, <1>2, <1>4, <2>1
    <3> QED BY <1>5, <3>1 DEF InOrder
  <2>2. CASE j <= Len(ms) /\ k > Len(ms)
    <3>1. j \in DOMAIN ms /\ k - Len(ms) \in DOMAIN ns /\ q[j] = ms[j] /\ q[k] = ns[k - Len(ms)]
      BY <1>1, <1>2, <1>4, <2>2
    <3>2. ms[j] \in Range(ms) /\ ns[k - Len(ms)] \in Range(ns) BY <3>1 DEF Range
    <3> QED BY <3>1, <3>2 DEF Before
  <2>3. CASE j > Len(ms)
    <3>1. /\ j - Len(ms) \in DOMAIN ns /\ k - Len(ms) \in DOMAIN ns /\ j - Len(ms) < k - Len(ms)
          /\ q[j] = ns[j - Len(ms)] /\ q[k] = ns[k - Len(ms)]
      BY <1>1, <1>2, <1>4, <1>5, <2>3
    <3> QED BY <3>1 DEF InOrder
  <2>4. j \in Nat /\ k \in Nat BY <1>1, <1>4
  <2> QED BY <1>1, <2>1, <2>2, <2>3, <2>4
<1> QED BY <1>2, <1>3, <1>5 DEF q, InOrder

\* The first message is read.
LEMMA InOrderTail ==
  ASSUME NEW ms \in Seq(Messages), InOrder(ms), ms # <<>>
  PROVE  /\ Head(ms) \in Messages /\ Tail(ms) \in Seq(Messages) /\ InOrder(Tail(ms))
         /\ Range(ms) = {Head(ms)} \union Range(Tail(ms))
         /\ \A m \in Range(Tail(ms)) : Fits(Head(ms), m)
<1>1. /\ Head(ms) \in Messages /\ Tail(ms) \in Seq(Messages)
      /\ Range(ms) = {Head(ms)} \union Range(Tail(ms))
  BY RangeOfTail
<1>2. Len(Tail(ms)) = Len(ms) - 1 /\ \A k \in 1..Len(Tail(ms)) : Tail(ms)[k] = ms[k + 1]
  BY HeadTailProperties
<1>3. Len(ms) \in Nat \ {0} /\ DOMAIN ms = 1..Len(ms) BY LenProperties, EmptySeq
<1>4. DOMAIN Tail(ms) = 1..Len(ms) - 1 BY <1>1, <1>2, LenProperties
<1>5. Head(ms) = ms[1] /\ 1 \in DOMAIN ms BY <1>3
<1>6. \A k \in DOMAIN Tail(ms) :
        k \in Nat /\ k + 1 \in DOMAIN ms /\ 1 < k + 1 /\ Tail(ms)[k] = ms[k + 1]
  BY <1>2, <1>3, <1>4
<1>7. \A m \in Range(Tail(ms)) : Fits(Head(ms), m) BY <1>5, <1>6 DEF InOrder, Range
<1>8. ASSUME NEW j \in DOMAIN Tail(ms), NEW k \in DOMAIN Tail(ms), j < k
      PROVE  Fits(Tail(ms)[j], Tail(ms)[k])
  <2>1. j + 1 < k + 1 BY <1>6, <1>8
  <2> QED BY <1>6, <2>1 DEF InOrder
<1> QED BY <1>1, <1>7, <1>8 DEF InOrder

\* The server has read the first messages of a connection that ends.
LEMMA InOrderInitial ==
  ASSUME NEW ms \in Seq(Messages), InOrder(ms), NEW n \in 0..Len(ms)
  PROVE  /\ SubSeq(ms, 1, n) \in Seq(Messages) /\ InOrder(SubSeq(ms, 1, n))
         /\ Range(SubSeq(ms, 1, n)) \subseteq Range(ms)
<1> DEFINE q == SubSeq(ms, 1, n)
<1>1. Len(ms) \in Nat /\ DOMAIN ms = 1..Len(ms) BY LenProperties
<1>2. q \in Seq(Messages) /\ Len(q) = n /\ \A k \in 1..n : q[k] = ms[k] BY InitialPart
<1> HIDE DEF q
<1>3. DOMAIN q = 1..n BY <1>2, LenProperties
<1>4. \A k \in DOMAIN q : k \in DOMAIN ms /\ q[k] = ms[k] BY <1>1, <1>2, <1>3
<1>5. Range(q) \subseteq Range(ms) BY <1>4 DEF Range
<1>6. InOrder(q) BY <1>4 DEF InOrder
<1> QED BY <1>2, <1>5, <1>6 DEF q

\* Messages that are forgotten are still on their way.
LEMMA InOrderForgotten ==
  ASSUME NEW ms \in Seq(Messages), InOrder(ms), NEW ids
  PROVE  /\ Forgotten(ms, ids) \in Seq(Messages) /\ InOrder(Forgotten(ms, ids))
         /\ \A m \in Range(Forgotten(ms, ids)) :
              \E a \in Range(ms) : a.type = m.type /\ a.id = m.id
<1> DEFINE q == Forgotten(ms, ids)
<1>1. Len(ms) \in Nat /\ DOMAIN ms = 1..Len(ms) BY LenProperties
<1>2. \A m \in Messages : /\ [m EXCEPT !.kept = FALSE] \in Messages
                          /\ [m EXCEPT !.kept = FALSE].type = m.type
                          /\ [m EXCEPT !.kept = FALSE].id = m.id
  BY DEF Messages, MessageType
<1>3. \A k \in DOMAIN ms : ms[k] \in Messages BY <1>1, ElementOfSeq
<1>4. DOMAIN q = 1..Len(ms) BY <1>1 DEF Forgotten
<1>5. \A k \in DOMAIN ms : q[k] = IF ms[k].id \in ids THEN [ms[k] EXCEPT !.kept = FALSE] ELSE ms[k]
  BY DEF Forgotten
<1>6. \A k \in DOMAIN ms : q[k] \in Messages /\ q[k].type = ms[k].type /\ q[k].id = ms[k].id
  BY <1>2, <1>3, <1>5
<1>7. q \in [1..Len(ms) -> Messages] BY <1>1, <1>6 DEF Forgotten
<1>8. q \in Seq(Messages) BY <1>1, <1>7, FunctionIsSeq
<1> HIDE DEF q
<1>9. \A m \in Range(q) : \E a \in Range(ms) : a.type = m.type /\ a.id = m.id
  BY <1>1, <1>4, <1>6 DEF Range
<1>10. ASSUME NEW j \in DOMAIN q, NEW k \in DOMAIN q, j < k PROVE Fits(q[j], q[k])
  <2>1. Fits(ms[j], ms[k]) BY <1>1, <1>4, <1>10 DEF InOrder
  <2>2. q[j].type = ms[j].type /\ q[j].id = ms[j].id /\ q[k].type = ms[k].type /\ q[k].id = ms[k].id
    BY <1>1, <1>4, <1>6
  <2> QED BY <2>1, <2>2 DEF Fits
<1> QED BY <1>8, <1>9, <1>10 DEF q, InOrder

\* Of what is queued, some is dropped.
LEMMA InOrderOnly ==
  ASSUME NEW ms \in Seq(Messages), InOrder(ms), NEW S
  PROVE  /\ Only(ms, S) \in Seq(Messages) /\ InOrder(Only(ms, S))
         /\ Range(Only(ms, S)) \subseteq Range(ms) \intersect S
<1>1. Len(ms) \in Nat /\ DOMAIN ms = 1..Len(ms) BY LenProperties
<1>2. PICK f : /\ f[0] = <<>> /\ Only(ms, S) = f[Len(ms)]
               /\ \A k \in 1..Len(ms) :
                    f[k] = IF ms[k] \in S THEN Append(f[k - 1], ms[k]) ELSE f[k - 1]
  BY <1>1, OnlySteps
<1> DEFINE Good(n) == /\ f[n] \in Seq(Messages) /\ InOrder(f[n])
                      /\ \A m \in Range(f[n]) : m \in S /\ \E k \in 1..n : m = ms[k]
           T       == {n \in 0..Len(ms) : ~Good(n)}
<1>3. ASSUME T # {} PROVE FALSE
  <2>1. PICK n \in T : \A m \in T : n <= m
    <3>1. T \subseteq Nat BY <1>1
    <3> HIDE DEF T
    <3> QED BY <1>3, <3>1, Least
  <2>2. CASE n = 0
    <3>1. <<>> \in Seq(Messages) BY EmptySeq
    <3>2. DOMAIN <<>> = {} OBVIOUS
    <3>3. InOrder(<<>>) /\ Range(<<>>) = {} BY <3>2 DEF InOrder, Range
    <3> QED BY <1>2, <2>1, <2>2, <3>1, <3>3
  <2>3. CASE n # 0
    <3>1. n - 1 \in 0..Len(ms) /\ n \in 1..Len(ms) /\ n - 1 < n BY <1>1, <2>1, <2>3
    <3>2. Good(n - 1)
      <4>1. n - 1 \notin T
        <5>1. n - 1 \in T => n <= n - 1 BY <2>1, Zenon
        <5>2. n \in Nat BY <1>1, <2>1
        <5> QED BY <5>1, <5>2
      <4> QED BY <3>1, <4>1
    <3>3. f[n] = IF ms[n] \in S THEN Append(f[n - 1], ms[n]) ELSE f[n - 1] BY <1>2, <3>1
    <3>4. ms[n] \in Messages BY <1>1, <3>1, ElementOfSeq
    <3>5. \A a \in Range(f[n - 1]) : Fits(a, ms[n])
      <4> SUFFICES ASSUME NEW a \in Range(f[n - 1]) PROVE Fits(a, ms[n]) OBVIOUS
      <4>1. PICK k \in 1..n - 1 : a = ms[k] BY <3>2
      <4>2. k \in DOMAIN ms /\ n \in DOMAIN ms /\ k < n BY <1>1, <3>1, <4>1
      <4> QED BY <4>1, <4>2 DEF InOrder
    <3>6. \A k \in 1..n - 1 : k \in 1..n BY <3>1
    <3>7. n \in 1..n BY <3>1
    <3>8. Good(n)
      <4>1. CASE ms[n] \notin S BY <3>2, <3>3, <3>6, <4>1
      <4>2. CASE ms[n] \in S
        <5>1. f[n] = Append(f[n - 1], ms[n]) BY <3>3, <4>2
        <5>2. /\ f[n] \in Seq(Messages) /\ InOrder(f[n])
              /\ Range(f[n]) = Range(f[n - 1]) \union {ms[n]}
          BY <3>2, <3>4, <3>5, <5>1, InOrderAppend
        <5> QED BY <3>2, <3>6, <3>7, <4>2, <5>2
      <4> QED BY <4>1, <4>2
    <3> QED BY <2>1, <3>8
  <2> QED BY <2>2, <2>3
<1>4. Len(ms) \in 0..Len(ms) BY <1>1
<1>5. Good(Len(ms)) BY <1>3, <1>4
<1>6. \A k \in 1..Len(ms) : ms[k] \in Range(ms) BY <1>1 DEF Range
<1> QED BY <1>2, <1>5, <1>6

-----------------------------------------------------------------------------
(* The tab *)

\* The elements of a finite set, in some order.
LEMMA InSomeOrder ==
  ASSUME NEW S, IsFiniteSet(S)
  PROVE  /\ Cardinality(S) \in Nat /\ SetToSeq(S) \in [1..Cardinality(S) -> S]
         /\ \A x \in S : \E k \in 1..Cardinality(S) : SetToSeq(S)[k] = x
<1> DEFINE n == Cardinality(S)
<1>1. n \in Nat /\ ExistsBijection(1..n, S) BY FS_CardinalityType
<1>2. PICK f : f \in Bijection(1..n, S) BY <1>1 DEF ExistsBijection
<1>3. f \in [1..n -> S] /\ IsInjective(f)
  BY <1>2 DEF Bijection, Injection, IsInjective
<1> DEFINE g == SetToSeq(S)
<1>4. g \in [1..n -> S] /\ IsInjective(g) BY <1>3 DEF SetToSeq
<1> HIDE DEF g
<1>5. g \in Injection(1..n, S) BY <1>4 DEF Injection, IsInjective
<1>6. Cardinality(1..n) = n
  <2>1. 1 \in Int /\ n \in Int BY <1>1
  <2>2. Cardinality(1..n) = IF 1 > n THEN 0 ELSE n - 1 + 1 BY <2>1, FS_Interval
  <2> QED BY <1>1, <2>2
<1>7. g \in Surjection(1..n, S) BY <1>5, <1>6, FS_Injection
<1>8. \A x \in S : \E k \in 1..n : g[k] = x BY <1>7 DEF Surjection
<1> QED BY <1>1, <1>4, <1>8 DEF g

LEMMA LineIsFinite == IsFiniteSet(Line) /\ Line \subseteq Nat \ {0} /\ None \notin Line
<1>1. MaxLines \in Nat BY StrokeAssumption
<1>2. IsFiniteSet(1..MaxLines) BY <1>1, FS_Interval
<1> QED BY <1>1, <1>2 DEF Line, None

\* The ends of lines can be sent together.
LEMMA EndsInOrder ==
  ASSUME NEW lines \in SUBSET Line
  PROVE  /\ EndMessages(lines) \in Seq(Messages) /\ InOrder(EndMessages(lines))
         /\ \A m \in Range(EndMessages(lines)) : m.type = "end" /\ m.id \in lines
<1> DEFINE q == EndMessages(lines)
<1>1. IsFiniteSet(lines) BY LineIsFinite, FS_Subset
<1>2. Cardinality(lines) \in Nat /\ SetToSeq(lines) \in [1..Cardinality(lines) -> lines]
  BY <1>1, InSomeOrder
<1>3. /\ q = [k \in 1..Cardinality(lines) |-> Message("end", SetToSeq(lines)[k], None)]
      /\ DOMAIN q = 1..Cardinality(lines)
      /\ \A k \in 1..Cardinality(lines) : q[k] = Message("end", SetToSeq(lines)[k], None)
  BY DEF EndMessages
<1> HIDE DEF q
<1>4. \A l \in lines : Message("end", l, None) \in Messages
  BY LineIsFinite DEF Message, Messages, MessageType
<1>5. \A k \in 1..Cardinality(lines) :
        /\ SetToSeq(lines)[k] \in lines /\ q[k] = Message("end", SetToSeq(lines)[k], None)
        /\ q[k] \in Messages /\ q[k].type = "end" /\ q[k].id \in lines
  BY <1>2, <1>3, <1>4 DEF Message
<1>6. q \in [1..Cardinality(lines) -> Messages] BY <1>3, <1>5
<1>7. q \in Seq(Messages) BY <1>2, <1>6, FunctionIsSeq
<1>8. \A m \in Range(q) : m.type = "end" /\ m.id \in lines BY <1>3, <1>5 DEF Range
<1>9. InOrder(q) BY <1>3, <1>5 DEF InOrder, Fits
<1> QED BY <1>7, <1>8, <1>9 DEF q

LEMMA TabFields ==
  ASSUME NEW t \in Tabs
  PROVE  /\ t.line \in Line \union {None} /\ t.count \in 0..MaxChildren - 1
         /\ t.finished \subseteq Line /\ t.cleaned \subseteq Line
         /\ t.queue \in Seq(Messages) /\ t.up \in Seq(Messages) /\ t.down \in Seq(Answers)
         /\ Range(t.queue) \subseteq Messages /\ Range(t.up) \subseteq Messages
         /\ Range(t.down) \subseteq Answers /\ Written(t) \subseteq Messages
<1>1. /\ t.line \in Line \union {None} /\ t.count \in 0..MaxChildren - 1
      /\ t.finished \subseteq Line /\ t.cleaned \subseteq Line
      /\ t.queue \in Seq(Messages) /\ t.up \in Seq(Messages) /\ t.down \in Seq(Answers)
  BY DEF Tabs
<1>2. \A S : \A q \in Seq(S) : Range(q) \subseteq S BY RangeOfSeq
<1> QED BY <1>1, <1>2 DEF Written

\* A tab and what it becomes: no more is pending than was, and nothing is sent
\* that ends the connection.
Settles(t, u, n) == TabOK(u, n) /\ Pending(u) \subseteq Pending(t) /\ (Live(t) => Live(u))

LEMMA SettlesTwice ==
  ASSUME NEW t, NEW u, NEW v, NEW n, Settles(t, u, n), Settles(u, v, n) PROVE Settles(t, v, n)
  BY DEF Settles

LEMMA SettlesNot == ASSUME NEW t, NEW n, TabOK(t, n) PROVE Settles(t, t, n)
  BY DEF Settles

\* What is pending after a change, by the types and lines of what is written.
LEMMA PendingShrinks ==
  ASSUME NEW t, NEW u, u.line = t.line \/ u.line = None,
         \A m \in Written(u) : m.type \in {"create", "append"} =>
           <<m.type, m.id>> \in Pending(t)
  PROVE  Pending(u) \subseteq Pending(t)
<1>1. \A l \in {u.line} \ {None} : <<"append", l>> \in Pending(t) BY DEF Pending
<1> QED BY <1>1 DEF Pending

\* A deletion, or a point of the line that is drawn.
LEMMA SendSettles ==
  ASSUME NEW n \in Nat, NEW t, TabOK(t, n), Live(t), NEW m \in Messages, m.kept,
         m.type = "delete" \/ (m.type = "append" /\ t.line # None /\ m.id = t.line)
  PROVE  Settles(t, Send(t, m), n)
<1> DEFINE u == Send(t, m)
<1>1. t \in Tabs BY DEF TabOK
<1>2. /\ t.line \in Line \union {None} /\ t.queue \in Seq(Messages) /\ t.up \in Seq(Messages)
      /\ Range(t.queue) \subseteq Messages /\ Range(t.up) \subseteq Messages
  BY <1>1, TabFields
<1>3. \A a \in Range(t.queue) \union Range(t.up) : Fits(a, m)
  <2> SUFFICES ASSUME NEW a \in Range(t.queue) \union Range(t.up) PROVE Fits(a, m) OBVIOUS
  <2>1. a.type # "gone" BY DEF TabOK, Live
  <2>2. CASE m.type = "delete" BY <2>1, <2>2 DEF Fits
  <2>3. CASE m.type = "append" /\ t.line # None /\ m.id = t.line
    <3>1. Fits(a, Message("append", t.line, None)) BY <2>3 DEF TabOK, Written
    <3> QED BY <2>3, <3>1 DEF Fits, Message
  <2> QED BY <2>2, <2>3
<1>4. /\ Append(t.queue, m) \in Seq(Messages) /\ InOrder(Append(t.queue, m))
      /\ Range(Append(t.queue, m)) = Range(t.queue) \union {m}
  BY <1>2, <1>3, InOrderAppend DEF TabOK
<1>5. /\ u \in Tabs /\ u.line = t.line /\ u.count = t.count /\ u.finished = t.finished
      /\ u.queue = Append(t.queue, m) /\ u.up = t.up
  BY <1>1, <1>4 DEF Send, Tabs
<1> HIDE DEF u
<1>6. Written(u) = Written(t) \union {m} BY <1>4, <1>5 DEF Written
<1>7. Before(u.up, u.queue) BY <1>3, <1>4, <1>5 DEF TabOK, Before
<1>8. u.line # None => Fits(m, Message("append", u.line, None))
  BY <1>5 DEF Fits, Message
<1>9. m.type \in {"create", "append", "end"} => m.id <= n BY DEF TabOK
<1>10. TabOK(u, n) BY <1>4, <1>5, <1>6, <1>7, <1>8, <1>9 DEF TabOK
<1>11. Pending(u) \subseteq Pending(t)
  <2>1. ASSUME NEW a \in Written(u), a.type \in {"create", "append"}
        PROVE  <<a.type, a.id>> \in Pending(t)
    <3>1. CASE a \in Written(t) BY <2>1, <3>1 DEF Pending
    <3>2. CASE a = m /\ m.type = "append" BY <3>2 DEF Pending
    <3> QED BY <1>6, <2>1, <3>1, <3>2
  <2> QED BY <1>5, <2>1, PendingShrinks
<1>12. Live(u) BY <1>5 DEF Live
<1> QED BY <1>10, <1>11, <1>12 DEF Settles, u

LEMMA ClearActiveSettles ==
  ASSUME NEW n \in Nat, NEW t, TabOK(t, n) PROVE Settles(t, ClearActive(t), n)
<1> DEFINE u == ClearActive(t)
<1>1. t \in Tabs BY DEF TabOK
<1>2. 0 \in 0..MaxChildren - 1 BY StrokeAssumption
<1>3. /\ u \in Tabs /\ u.line = None /\ u.count = 0 /\ u.finished = t.finished
      /\ u.queue = t.queue /\ u.up = t.up
  BY <1>1, <1>2 DEF ClearActive, Tabs
<1> HIDE DEF u
<1>4. Written(u) = Written(t) BY <1>3 DEF Written
<1>5. TabOK(u, n) BY <1>3, <1>4 DEF TabOK
<1>6. Pending(u) \subseteq Pending(t) BY <1>3, <1>4 DEF Pending
<1>7. Live(t) => Live(u) BY <1>3 DEF Live
<1> QED BY <1>5, <1>6, <1>7 DEF Settles, u

\* The ends that are sent are those of lines no point of which is still queued.
LEMMA FlushSettles ==
  ASSUME NEW n \in Nat, NEW t, TabOK(t, n), Live(t) PROVE Settles(t, Flush(t), n)
<1> DEFINE u == Flush(t)
           ends == t.finished \ Unanswered(t, Writes)
           es == EndMessages(ends)
<1>1. t \in Tabs BY DEF TabOK
<1>2. /\ t.finished \subseteq Line /\ t.queue \in Seq(Messages) /\ t.up \in Seq(Messages)
      /\ Range(t.queue) \subseteq Messages /\ Range(t.up) \subseteq Messages
  BY <1>1, TabFields
<1>3. \A m \in Range(t.queue) : m.type = "append" => m.id \notin ends
  BY DEF TabOK, Unanswered, Writes
<1>4. /\ es \in Seq(Messages) /\ InOrder(es)
      /\ \A m \in Range(es) : m.type = "end" /\ m.id \in ends
  <2>1. ends \in SUBSET Line BY <1>2
  <2> HIDE DEF ends
  <2> QED BY <2>1, EndsInOrder
<1>5. ends \subseteq t.finished OBVIOUS
<1>6. u = [t EXCEPT !.finished = t.finished \ ends, !.up = t.up \o es]
  BY DEF Flush
<1> HIDE DEF ends, es, u
<1>7. Before(t.up, es) BY <1>4 DEF Live, Before, Fits
<1>8. Before(es, t.queue) BY <1>3, <1>4 DEF Before, Fits
<1>9. /\ t.up \o es \in Seq(Messages) /\ InOrder(t.up \o es)
      /\ Range(t.up \o es) = Range(t.up) \union Range(es)
  BY <1>2, <1>4, <1>7, InOrderConcat DEF TabOK
<1>10. /\ u \in Tabs /\ u.line = t.line /\ u.count = t.count /\ u.finished = t.finished \ ends
       /\ u.queue = t.queue /\ u.up = t.up \o es
  BY <1>1, <1>6, <1>9 DEF Tabs
<1>11. Written(u) = Written(t) \union Range(es) BY <1>9, <1>10 DEF Written
<1>12. Before(u.up, u.queue) BY <1>8, <1>9, <1>10 DEF TabOK, Before
<1>13. \A m \in Range(es) : u.line # None => Fits(m, Message("append", u.line, None))
  BY <1>4, <1>5, <1>10 DEF TabOK, Fits, Message
<1>14. \A m \in Range(es) : m.id <= n
  <2> SUFFICES ASSUME NEW m \in Range(es) PROVE m.id <= n OBVIOUS
  <2>1. m.id \in ends BY <1>4
  <2>2. ends \subseteq 1..n BY <1>5 DEF TabOK
  <2>3. m.id \in 1..n BY <2>1, <2>2
  <2> QED BY <2>3
<1>15. TabOK(u, n) BY <1>9, <1>10, <1>11, <1>12, <1>13, <1>14 DEF TabOK
<1>16. Pending(u) \subseteq Pending(t) BY <1>4, <1>10, <1>11 DEF Pending
<1>17. Live(u) BY <1>4, <1>9, <1>10 DEF Live
<1> QED BY <1>15, <1>16, <1>17 DEF Settles, u

LEMMA FlushReads ==
  ASSUME NEW t, NEW u \in Tabs, t.queue = u.queue, t.up = u.up, t.down = u.down
  PROVE  Unanswered(t, Writes) = Unanswered(u, Writes)
  BY DEF Unanswered

\* The line that is finished is no longer drawn, whatever the number of its points.
LEMMA FinishSettles ==
  ASSUME NEW n \in Nat, NEW t, TabOK(t, n), Live(t), t.line # None, NEW c
  PROVE  Settles(t, FinishActive([t EXCEPT !.count = c]), n)
<1> DEFINE a == [t EXCEPT !.count = c]
           b == [a EXCEPT !.finished = a.finished \union {a.line}]
           v == [t EXCEPT !.finished = t.finished \union {t.line}, !.line = None, !.count = 0]
<1>1. t \in Tabs BY DEF TabOK
<1>2. /\ t.line \in Line /\ t.finished \subseteq Line /\ t.line \in Nat
  BY <1>1, TabFields, LineIsFinite
<1>3. 0 \in 0..MaxChildren - 1 BY StrokeAssumption
<1>4. /\ v \in Tabs /\ v.line = None /\ v.count = 0 /\ v.finished = t.finished \union {t.line}
      /\ v.queue = t.queue /\ v.up = t.up /\ v.down = t.down
  BY <1>1, <1>2, <1>3 DEF Tabs
<1>5. b.queue = t.queue /\ b.up = t.up /\ b.down = t.down /\ b.finished = t.finished \union {t.line}
  BY <1>1 DEF Tabs
<1>6. FinishActive(a) = ClearActive(Flush(b))
  BY <1>1 DEF FinishActive, Tabs
<1>7. Unanswered(b, Writes) = Unanswered(v, Writes) BY <1>4, <1>5, FlushReads
<1>8. ClearActive(Flush(b)) = Flush(v)
  BY <1>1, <1>4, <1>5, <1>7 DEF Flush, ClearActive, Tabs
<1> HIDE DEF a, b, v
<1>9. Written(v) = Written(t) BY <1>4 DEF Written
<1>10. t.line \in 1..n BY <1>2, LineIsFinite DEF TabOK
<1>11. v.finished \subseteq 1..n BY <1>4, <1>10 DEF TabOK
<1>12. TabOK(v, n) BY <1>4, <1>9, <1>11 DEF TabOK
<1>13. Pending(v) \subseteq Pending(t) BY <1>4, <1>9 DEF Pending
<1>14. Live(v) BY <1>4 DEF Live
<1>15. Settles(t, v, n) BY <1>12, <1>13, <1>14 DEF Settles
<1>16. Settles(v, Flush(v), n) BY <1>12, <1>14, FlushSettles
<1>17. Settles(t, Flush(v), n) BY <1>15, <1>16, SettlesTwice
<1> QED BY <1>6, <1>8, <1>17 DEF a

LEMMA FinishActiveSettles ==
  ASSUME NEW n \in Nat, NEW t, TabOK(t, n), Live(t) PROVE Settles(t, FinishActive(t), n)
<1>1. CASE t.line = None BY <1>1, SettlesNot DEF FinishActive
<1>2. CASE t.line # None
  <2>1. [t EXCEPT !.count = t.count] = t BY DEF TabOK, Tabs
  <2>2. Settles(t, FinishActive([t EXCEPT !.count = t.count]), n) BY <1>2, FinishSettles
  <2> QED BY <2>1, <2>2
<1> QED BY <1>1, <1>2

LEMMA MoveToSettles ==
  ASSUME NEW n \in Nat, NEW t, TabOK(t, n), Live(t), NEW p \in Point
  PROVE  Settles(t, MoveTo(t, p), n)
<1> DEFINE m == Message("append", t.line, p)
           u == Send(t, m)
           w == [u EXCEPT !.count = t.count + 1]
<1>1. t \in Tabs BY DEF TabOK
<1>2. t.line \in Line \union {None} /\ t.count \in 0..MaxChildren - 1 BY <1>1, TabFields
<1>3. CASE t.line = None BY <1>3, SettlesNot DEF MoveTo
<1>4. CASE t.line # None
  <2>1. m \in Messages /\ m.kept /\ m.type = "append" /\ m.id = t.line
    BY <1>2, <1>4, LineIsFinite DEF Message, Messages, MessageType
  <2> HIDE DEF m
  <2>2. Settles(t, u, n) BY <1>4, <2>1, SendSettles
  <2>3. TabOK(u, n) /\ Live(u) /\ u.line = t.line /\ u.count = t.count
    <3>1. u.line = t.line /\ u.count = t.count BY <1>1 DEF Send, Tabs
    <3> QED BY <2>2, <3>1 DEF Settles
  <2>4. MoveTo(t, p) = IF t.count + 1 >= MaxChildren THEN FinishActive(w) ELSE w
    <3>1. [Send(t, m) EXCEPT !.count = @ + 1] = w
      BY <2>3
    <3> QED BY <1>4, <3>1 DEF MoveTo, m
  <2> HIDE DEF u
  <2>5. CASE t.count + 1 >= MaxChildren
    <3>1. Settles(u, FinishActive(w), n) BY <1>4, <2>3, FinishSettles
    <3> QED BY <2>2, <2>4, <2>5, <3>1, SettlesTwice
  <2>6. CASE ~(t.count + 1 >= MaxChildren)
    <3>1. t.count + 1 \in 0..MaxChildren - 1 BY <1>2, <2>6, StrokeAssumption
    <3>2. u \in Tabs BY <2>3 DEF TabOK
    <3>3. /\ w \in Tabs /\ w.line = u.line /\ w.finished = u.finished
          /\ w.queue = u.queue /\ w.up = u.up
      BY <3>1, <3>2 DEF Tabs
    <3> HIDE DEF w
    <3>4. Written(w) = Written(u) BY <3>3 DEF Written
    <3>5. TabOK(w, n) BY <1>4, <2>3, <3>3, <3>4 DEF TabOK
    <3>6. Pending(w) \subseteq Pending(u) BY <3>3, <3>4 DEF Pending
    <3>7. Live(w) BY <2>3, <3>3 DEF Live
    <3>8. Settles(u, w, n) BY <3>5, <3>6, <3>7 DEF Settles
    <3> QED BY <2>2, <2>4, <2>6, <3>8, SettlesTwice
  <2> QED BY <2>5, <2>6
<1> QED BY <1>3, <1>4

\* Answers that are forgotten stay answers.
LEMMA ForgottenAnswers ==
  ASSUME NEW as \in Seq(Answers), NEW ids PROVE Forgotten(as, ids) \in Seq(Answers)
<1> DEFINE q == Forgotten(as, ids)
<1>1. Len(as) \in Nat /\ DOMAIN as = 1..Len(as) BY LenProperties
<1>2. \A a \in Answers : [a EXCEPT !.kept = FALSE] \in Answers
  <2> DEFINE A == [type : {"answer"}, id : Line, kept : BOOLEAN,
                   write : {m \in Messages : m.type \in Writes}, ok : BOOLEAN]
             B == [type : {"clear", "delete", "restore"}, id : Line, kept : BOOLEAN]
  <2>1. \A a \in A : [a EXCEPT !.kept = FALSE] \in A OBVIOUS
  <2>2. \A a \in B : [a EXCEPT !.kept = FALSE] \in B OBVIOUS
  <2>3. Answers = A \union B BY DEF Answers
  <2> HIDE DEF A, B
  <2> QED BY <2>1, <2>2, <2>3
<1>3. \A k \in DOMAIN as : as[k] \in Answers BY <1>1, ElementOfSeq
<1>4. \A k \in DOMAIN as : q[k] \in Answers BY <1>2, <1>3 DEF Forgotten
<1>5. q \in [1..Len(as) -> Answers] BY <1>1, <1>4 DEF Forgotten
<1> QED BY <1>1, <1>5, FunctionIsSeq

LEMMA PruneSettles ==
  ASSUME NEW n \in Nat, NEW t, TabOK(t, n), NEW ids
  PROVE  /\ Settles(t, Prune(t, ids), n)
         /\ Prune(t, ids).line = t.line /\ Prune(t, ids).finished = t.finished
<1> DEFINE u == Prune(t, ids)
           S == {m \in Range(t.queue) : m.id \notin ids}
<1>1. t \in Tabs BY DEF TabOK
<1>2. /\ t.queue \in Seq(Messages) /\ t.up \in Seq(Messages) /\ t.down \in Seq(Answers)
      /\ Range(t.queue) \subseteq Messages /\ Range(t.up) \subseteq Messages
  BY <1>1, TabFields
<1>3. /\ Only(t.queue, S) \in Seq(Messages) /\ InOrder(Only(t.queue, S))
      /\ Range(Only(t.queue, S)) \subseteq Range(t.queue)
  BY <1>2, InOrderOnly DEF TabOK
<1>4. /\ Forgotten(t.up, ids) \in Seq(Messages) /\ InOrder(Forgotten(t.up, ids))
      /\ \A m \in Range(Forgotten(t.up, ids)) :
           \E a \in Range(t.up) : a.type = m.type /\ a.id = m.id
  BY <1>2, InOrderForgotten DEF TabOK
<1>5. Forgotten(t.down, ids) \in Seq(Answers) BY <1>2, ForgottenAnswers
<1>6. u = [t EXCEPT !.queue = Only(t.queue, S), !.up = Forgotten(t.up, ids),
                    !.down = Forgotten(t.down, ids)]
  BY DEF Prune
<1> HIDE DEF u, S
<1>7. /\ u \in Tabs /\ u.line = t.line /\ u.count = t.count /\ u.finished = t.finished
      /\ u.queue = Only(t.queue, S) /\ u.up = Forgotten(t.up, ids)
  BY <1>1, <1>3, <1>4, <1>5, <1>6 DEF Tabs
<1>8. \A m \in Written(u) : \E a \in Written(t) : a.type = m.type /\ a.id = m.id
  <2>1. \A m \in Range(u.queue) : m \in Range(t.queue) BY <1>3, <1>7
  <2>2. \A m \in Range(u.up) : \E a \in Range(t.up) : a.type = m.type /\ a.id = m.id
    BY <1>4, <1>7
  <2> QED BY <2>1, <2>2 DEF Written
<1>9. \A m \in Range(u.queue) : m.kept /\ m.type # "gone" BY <1>3, <1>7 DEF TabOK
<1>10. Before(u.up, u.queue)
  <2> SUFFICES ASSUME NEW a \in Range(u.up), NEW b \in Range(u.queue) PROVE Fits(a, b)
    BY DEF Before
  <2>1. PICK c \in Range(t.up) : c.type = a.type /\ c.id = a.id BY <1>4, <1>7
  <2>2. Fits(c, b) BY <1>3, <1>7 DEF TabOK, Before
  <2> QED BY <2>1, <2>2 DEF Fits
<1>11. ASSUME u.line # None, NEW m \in Written(u) PROVE Fits(m, Message("append", u.line, None))
  <2>1. PICK a \in Written(t) : a.type = m.type /\ a.id = m.id BY <1>8
  <2>2. Fits(a, Message("append", t.line, None)) BY <1>7, <1>11 DEF TabOK
  <2> QED BY <1>7, <2>1, <2>2 DEF Fits
<1>12. ASSUME NEW m \in Written(u), m.type \in {"create", "append", "end"} PROVE m.id <= n
  <2>1. PICK a \in Written(t) : a.type = m.type /\ a.id = m.id BY <1>8
  <2> QED BY <1>12, <2>1 DEF TabOK
<1>13. TabOK(u, n) BY <1>3, <1>4, <1>7, <1>9, <1>10, <1>11, <1>12 DEF TabOK
<1>14. Pending(u) \subseteq Pending(t)
  <2>1. ASSUME NEW m \in Written(u), m.type \in {"create", "append"}
        PROVE  <<m.type, m.id>> \in Pending(t)
    <3>1. PICK a \in Written(t) : a.type = m.type /\ a.id = m.id BY <1>8
    <3> QED BY <2>1, <3>1 DEF Pending
  <2> QED BY <1>7, <2>1, PendingShrinks
<1>15. Live(t) => Live(u) BY <1>4, <1>7 DEF Live
<1> QED BY <1>7, <1>13, <1>14, <1>15 DEF Settles, u

LEMMA ForgetFinished ==
  ASSUME NEW n \in Nat, NEW t, TabOK(t, n) PROVE Settles(t, [t EXCEPT !.finished = {}], n)
<1> DEFINE u == [t EXCEPT !.finished = {}]
<1>1. t \in Tabs BY DEF TabOK
<1>2. /\ u \in Tabs /\ u.line = t.line /\ u.count = t.count /\ u.finished = {}
      /\ u.queue = t.queue /\ u.up = t.up
  BY <1>1 DEF Tabs
<1> HIDE DEF u
<1>3. Written(u) = Written(t) BY <1>2 DEF Written
<1>4. TabOK(u, n) BY <1>2, <1>3 DEF TabOK
<1>5. Pending(u) \subseteq Pending(t) BY <1>2, <1>3 DEF Pending
<1>6. Live(t) => Live(u) BY <1>2 DEF Live
<1> QED BY <1>4, <1>5, <1>6 DEF Settles, u

LEMMA RemovedSettles ==
  ASSUME NEW n \in Nat, NEW t, TabOK(t, n), NEW m, m.type \in {"clear", "delete", "restore"}
  PROVE  Settles(t, Removed(t, m), n)
<1>1. CASE m.type = "clear"
  <2> DEFINE u == Prune(t, Line)
             v == [u EXCEPT !.finished = {}]
  <2>1. Settles(t, u, n) BY PruneSettles
  <2>2. TabOK(u, n) BY <2>1 DEF Settles
  <2> HIDE DEF u
  <2>3. Settles(u, v, n) BY <2>2, ForgetFinished
  <2> HIDE DEF v
  <2>4. Settles(t, v, n) BY <2>1, <2>3, SettlesTwice
  <2> DEFINE w == IF Unanswered(t, Writes) = {} THEN t ELSE v
  <2>5. Settles(t, w, n) BY <2>4, SettlesNot
  <2>6. Removed(t, m) = ClearActive(w) BY <1>1 DEF Removed, u, v
  <2> HIDE DEF w
  <2>7. Settles(w, ClearActive(w), n) BY <2>5, ClearActiveSettles DEF Settles
  <2> QED BY <2>5, <2>6, <2>7, SettlesTwice
<1>2. CASE m.type = "delete"
  <2> DEFINE u == Prune(t, {m.id})
  <2>1. Settles(t, u, n) BY PruneSettles
  <2>2. Removed(t, m) = IF u.line = m.id THEN ClearActive(u) ELSE u BY <1>2 DEF Removed
  <2> HIDE DEF u
  <2>3. Settles(u, ClearActive(u), n) BY <2>1, ClearActiveSettles DEF Settles
  <2> QED BY <2>1, <2>2, <2>3, SettlesTwice
<1>3. CASE m.type = "restore"
  <2>1. Removed(t, m) = Prune(t, {m.id}) BY <1>3 DEF Removed
  <2> QED BY <2>1, PruneSettles
<1> QED BY <1>1, <1>2, <1>3

LEMMA RejectedSettles ==
  ASSUME NEW n \in Nat, NEW t, TabOK(t, n), Live(t), NEW w \in Messages, w.id \in Line
  PROVE  Settles(t, Rejected(t, w), n)
<1> DEFINE u == IF t.line = w.id THEN ClearActive(t) ELSE t
           m == Message("delete", w.id, None)
           v == Send(u, m)
           x == [v EXCEPT !.cleaned = v.cleaned \union {w.id}]
<1>1. Settles(t, u, n) /\ Live(u) BY ClearActiveSettles, SettlesNot DEF Settles
<1>2. m \in Messages /\ m.kept /\ m.type = "delete"
  BY LineIsFinite DEF Message, Messages, MessageType
<1>3. Rejected(t, w) = x \/ Rejected(t, w) = u BY DEF Rejected
<1> HIDE DEF u, m
<1>4. Settles(u, v, n) BY <1>1, <1>2, SendSettles DEF Settles
<1>5. Settles(t, v, n) /\ TabOK(v, n) /\ Live(v) BY <1>1, <1>4, SettlesTwice DEF Settles
<1> HIDE DEF v
<1>6. Settles(v, x, n)
  <2>1. v \in Tabs BY <1>5 DEF TabOK
  <2>2. v.cleaned \union {w.id} \subseteq Line BY <2>1, TabFields
  <2>3. /\ x \in Tabs /\ x.line = v.line /\ x.count = v.count /\ x.finished = v.finished
        /\ x.queue = v.queue /\ x.up = v.up
    BY <2>1, <2>2 DEF Tabs
  <2> HIDE DEF x
  <2>4. Written(x) = Written(v) BY <2>3 DEF Written
  <2>5. TabOK(x, n) BY <1>5, <2>3, <2>4 DEF TabOK
  <2>6. Pending(x) \subseteq Pending(v) BY <2>3, <2>4 DEF Pending
  <2>7. Live(x) BY <1>5, <2>3 DEF Live
  <2> QED BY <2>5, <2>6, <2>7 DEF Settles
<1>7. Settles(t, x, n) BY <1>5, <1>6, SettlesTwice
<1> QED BY <1>1, <1>3, <1>7

\* A new line gets a name that no line has, and may be created whatever the tab
\* has written before.
LEMMA PressStarts ==
  ASSUME NEW n \in Nat, n + 1 \in Line, NEW t, TabOK(t, n), Live(t)
  PROVE  LET u == [Send(t, Message("create", n + 1, None)) EXCEPT !.line = n + 1, !.count = 0]
         IN  /\ TabOK(u, n + 1) /\ Live(u)
             /\ Pending(u) \subseteq Pending(t) \union {<<"create", n + 1>>, <<"append", n + 1>>}
<1> DEFINE m == Message("create", n + 1, None)
           u == [Send(t, m) EXCEPT !.line = n + 1, !.count = 0]
<1>1. t \in Tabs BY DEF TabOK
<1>2. /\ t.line \in Line \union {None} /\ t.queue \in Seq(Messages) /\ t.up \in Seq(Messages)
      /\ Range(t.queue) \subseteq Messages /\ Range(t.up) \subseteq Messages
      /\ Written(t) \subseteq Messages
  BY <1>1, TabFields
<1>3. /\ m \in Messages /\ m.kept /\ m.type = "create" /\ m.id = n + 1
      /\ Message("append", n + 1, None).type = "append" /\ Message("append", n + 1, None).id = n + 1
  BY LineIsFinite DEF Message, Messages, MessageType
<1>4. 0 \in 0..MaxChildren - 1 BY StrokeAssumption
<1> HIDE DEF m
<1>5. \A a \in Written(t) : a.type # "gone" /\ (a.type \in {"create", "append", "end"} => a.id < n + 1)
  <2> SUFFICES ASSUME NEW a \in Written(t)
               PROVE  a.type # "gone" /\ (a.type \in {"create", "append", "end"} => a.id < n + 1)
    OBVIOUS
  <2>1. a.type # "gone" BY DEF TabOK, Live, Written
  <2>2. a.id \in Nat BY <1>2, MessageFields
  <2>3. a.type \in {"create", "append", "end"} => a.id <= n BY DEF TabOK
  <2> QED BY <2>1, <2>2, <2>3
<1>6. \A a \in Written(t) : Fits(a, m) /\ Fits(a, Message("append", n + 1, None))
  <2> SUFFICES ASSUME NEW a \in Written(t)
               PROVE  Fits(a, m) /\ Fits(a, Message("append", n + 1, None))
    OBVIOUS
  <2>1. a.id \in Nat BY <1>2, MessageFields
  <2>2. a.type # "gone" /\ (a.type \in {"create", "append", "end"} => a.id < n + 1) BY <1>5
  <2> QED BY <1>3, <2>1, <2>2 DEF Fits
<1>7. Range(t.queue) \subseteq Written(t) /\ Range(t.up) \subseteq Written(t) BY DEF Written
<1>8. /\ Append(t.queue, m) \in Seq(Messages) /\ InOrder(Append(t.queue, m))
      /\ Range(Append(t.queue, m)) = Range(t.queue) \union {m}
  BY <1>2, <1>3, <1>6, <1>7, InOrderAppend DEF TabOK
<1>9. /\ u \in Tabs /\ u.line = n + 1 /\ u.count = 0 /\ u.finished = t.finished
      /\ u.queue = Append(t.queue, m) /\ u.up = t.up
  BY <1>1, <1>4, <1>8 DEF Send, Tabs
<1> HIDE DEF u
<1>10. Written(u) = Written(t) \union {m} BY <1>8, <1>9 DEF Written
<1>11. Before(u.up, u.queue) BY <1>6, <1>7, <1>8, <1>9 DEF TabOK, Before
<1>12. \A a \in Written(u) : Fits(a, Message("append", u.line, None))
  <2>1. Fits(m, Message("append", n + 1, None)) BY <1>3 DEF Fits
  <2> QED BY <1>6, <1>9, <1>10, <2>1
<1>13. u.finished \subseteq 1..n + 1 /\ u.line \notin u.finished /\ u.line <= n + 1 /\ u.line # None
  <2>1. t.finished \subseteq 1..n BY DEF TabOK
  <2> QED BY <1>9, <2>1, LineIsFinite
<1>14. \A a \in Written(u) : a.type \in {"create", "append", "end"} => a.id <= n + 1
  <2> SUFFICES ASSUME NEW a \in Written(u), a.type \in {"create", "append", "end"}
               PROVE  a.id <= n + 1
    OBVIOUS
  <2>1. CASE a = m BY <1>3, <2>1
  <2>2. CASE a \in Written(t)
    <3>1. a.id \in Nat BY <1>2, <2>2, MessageFields
    <3> QED BY <1>5, <2>2, <3>1
  <2> QED BY <1>10, <2>1, <2>2
<1>15. \A a \in Range(u.queue) : a.kept /\ a.type # "gone"
  BY <1>3, <1>8, <1>9 DEF TabOK
<1>16. InOrder(u.up) /\ InOrder(u.queue) BY <1>8, <1>9 DEF TabOK
<1>17. TabOK(u, n + 1)
  BY <1>9, <1>11, <1>12, <1>13, <1>14, <1>15, <1>16 DEF TabOK
<1>18. Live(u) BY <1>9 DEF Live
<1>19. Pending(u) \subseteq Pending(t) \union {<<"create", n + 1>>, <<"append", n + 1>>}
  BY <1>3, <1>9, <1>10 DEF Pending
<1> QED BY <1>17, <1>18, <1>19 DEF u, m

\* The server reads a message.
LEMMA ServedSettles ==
  ASSUME NEW n \in Nat, NEW t, TabOK(t, n), t.up # <<>>, NEW d \in Seq(Answers)
  PROVE  LET u == [t EXCEPT !.up = Tail(t.up), !.down = d]
         IN  /\ Settles(t, u, n)
             /\ \A m \in Written(u) : Fits(Head(t.up), m)
             /\ u.line # None => Fits(Head(t.up), Message("append", u.line, None))
<1> DEFINE u == [t EXCEPT !.up = Tail(t.up), !.down = d]
<1>1. t \in Tabs BY DEF TabOK
<1>2. t.up \in Seq(Messages) /\ InOrder(t.up) BY <1>1, TabFields DEF TabOK
<1>3. /\ Head(t.up) \in Messages /\ Tail(t.up) \in Seq(Messages) /\ InOrder(Tail(t.up))
      /\ Range(t.up) = {Head(t.up)} \union Range(Tail(t.up))
      /\ \A m \in Range(Tail(t.up)) : Fits(Head(t.up), m)
  BY <1>2, InOrderTail
<1>4. /\ u \in Tabs /\ u.line = t.line /\ u.count = t.count /\ u.finished = t.finished
      /\ u.queue = t.queue /\ u.up = Tail(t.up)
  BY <1>1, <1>3 DEF Tabs
<1> HIDE DEF u
<1>5. Written(u) \subseteq Written(t) /\ Head(t.up) \in Written(t) BY <1>3, <1>4 DEF Written
<1>6. Before(u.up, u.queue) BY <1>3, <1>4 DEF TabOK, Before
<1>7. TabOK(u, n) BY <1>3, <1>4, <1>5, <1>6 DEF TabOK
<1>8. Pending(u) \subseteq Pending(t) BY <1>4, <1>5 DEF Pending
<1>9. Live(t) => Live(u) BY <1>3, <1>4 DEF Live
<1>10. \A m \in Range(u.queue) : Fits(Head(t.up), m) BY <1>3, <1>4 DEF TabOK, Before
<1>11. \A m \in Written(u) : Fits(Head(t.up), m) BY <1>3, <1>4, <1>10 DEF Written
<1>12. u.line # None => Fits(Head(t.up), Message("append", u.line, None))
  BY <1>4, <1>5 DEF TabOK
<1> QED BY <1>7, <1>8, <1>9, <1>11, <1>12 DEF Settles, u

-----------------------------------------------------------------------------
(* Steps of a tab *)

\* A tab that has become t, all others as they were.
LEMMA OnlyBecomes ==
  ASSUME VarsOK, NEW s \in Socket, NEW t \in Tabs, Becomes(s, t)
  PROVE  /\ Of(s)' = t /\ \A u \in Socket : u # s => Of(u)' = Of(u)
         /\ line' \in [Socket -> Line \union {None}] /\ count' \in [Socket -> 0..MaxChildren - 1]
         /\ finished' \in [Socket -> SUBSET Line] /\ cleaned' \in [Socket -> SUBSET Line]
         /\ queue' \in [Socket -> Seq(Messages)] /\ up' \in [Socket -> Seq(Messages)]
         /\ down' \in [Socket -> Seq(Answers)]
<1>1. /\ t = [line |-> t.line, count |-> t.count, finished |-> t.finished, cleaned |-> t.cleaned,
              queue |-> t.queue, up |-> t.up, down |-> t.down]
      /\ t.line \in Line \union {None} /\ t.count \in 0..MaxChildren - 1
      /\ t.finished \in SUBSET Line /\ t.cleaned \in SUBSET Line
      /\ t.queue \in Seq(Messages) /\ t.up \in Seq(Messages) /\ t.down \in Seq(Answers)
  BY DEF Tabs
<1>2. /\ line' \in [Socket -> Line \union {None}] /\ count' \in [Socket -> 0..MaxChildren - 1]
      /\ finished' \in [Socket -> SUBSET Line] /\ cleaned' \in [Socket -> SUBSET Line]
      /\ queue' \in [Socket -> Seq(Messages)] /\ up' \in [Socket -> Seq(Messages)]
      /\ down' \in [Socket -> Seq(Answers)]
  BY <1>1 DEF VarsOK, Becomes
<1>3. /\ line'[s] = t.line /\ count'[s] = t.count /\ finished'[s] = t.finished
      /\ cleaned'[s] = t.cleaned /\ queue'[s] = t.queue /\ up'[s] = t.up /\ down'[s] = t.down
  BY DEF VarsOK, Becomes
<1>4. Of(s)' = t BY <1>1, <1>3 DEF Of
<1>5. ASSUME NEW u \in Socket, u # s PROVE Of(u)' = Of(u)
  <2>1. /\ line'[u] = line[u] /\ count'[u] = count[u] /\ finished'[u] = finished[u]
        /\ cleaned'[u] = cleaned[u] /\ queue'[u] = queue[u] /\ up'[u] = up[u] /\ down'[u] = down[u]
    BY <1>5 DEF VarsOK, Becomes
  <2> QED BY <2>1 DEF Of
<1> QED BY <1>2, <1>4, <1>5

\* The names of later lines do not matter to a tab.
LEMMA TabOKLater ==
  ASSUME NEW n \in Nat, NEW m \in Nat, n <= m, NEW t, TabOK(t, n) PROVE TabOK(t, m)
<1>1. t \in Tabs /\ Written(t) \subseteq Messages BY TabFields DEF TabOK
<1>2. t.line # None => t.line <= m
  <2>1. t.line # None => t.line \in Nat /\ t.line <= n
    BY <1>1, TabFields, LineIsFinite DEF TabOK
  <2> QED BY <2>1
<1>3. t.finished \subseteq 1..m
  <2>1. t.finished \subseteq 1..n /\ 1..n \subseteq 1..m BY DEF TabOK
  <2> QED BY <2>1
<1>4. ASSUME NEW a \in Written(t), a.type \in {"create", "append", "end"} PROVE a.id <= m
  <2>1. a.id \in Nat /\ a.id <= n BY <1>1, <1>4, MessageFields DEF TabOK
  <2> QED BY <2>1
<1> QED BY <1>2, <1>3, <1>4 DEF TabOK

LEMMA PendingLines ==
  ASSUME NEW t \in Tabs, NEW w \in Pending(t)
  PROVE  w[2] \in Line /\ (w = <<"create", w[2]>> \/ w = <<"append", w[2]>>)
<1>1. Written(t) \subseteq Messages /\ t.line \in Line \union {None} BY TabFields
<1>2. CASE w \in {<<m.type, m.id>> : m \in {m \in Written(t) : m.type \in {"create", "append"}}}
  <2>1. PICK m \in Written(t) : m.type \in {"create", "append"} /\ w = <<m.type, m.id>>
    BY <1>2
  <2>2. m.id \in Line BY <1>1, <2>1, MessageFields
  <2> QED BY <2>1, <2>2
<1>3. CASE w \in {<<"append", l>> : l \in {t.line} \ {None}} BY <1>1, <1>3
<1> QED BY <1>2, <1>3 DEF Pending

\* The state after a step of a tab, by which the server is not changed.
LEMMA TabStepKeeps ==
  ASSUME StrokeInv, NEW s \in Socket, NEW t, Becomes(s, t), UNCHANGED server,
         TabOK(t, drawn'), drawn' \in 0..MaxLines, drawn <= drawn',
         \A w \in Pending(t) : w \in Pending(Of(s)) \/ (w[2] = drawn' /\ drawn' > drawn),
         link' \in [Socket -> {"new", "open", "closed"}],
         \A u \in Socket : u # s => link'[u] = link[u],
         link'[s] # "closed" => Live(t)
  PROVE  StrokeInv'
<1>1. t \in Tabs BY DEF TabOK
<1>2. VarsOK /\ drawn \in Nat /\ drawn' \in Nat BY StrokeAssumption DEF StrokeInv, VarsOK
<1>3. Of(s)' = t /\ \A u \in Socket : u # s => Of(u)' = Of(u) BY <1>1, <1>2, OnlyBecomes
<1>4. VarsOK' BY <1>1, <1>2, OnlyBecomes DEF VarsOK, server
<1>5. /\ strokes' = strokes /\ journal' = journal /\ curves' = curves /\ board' = board /\ was' = was
  BY DEF server
<1>6. HistoryOK(History)'
  <2>1. History' = History BY <1>5 DEF History
  <2> QED BY <2>1 DEF StrokeInv
<1>7. Recorded(journal) \subseteq 1..drawn BY DEF StrokeInv
<1>8. \A u \in Socket : SocketOK(u) BY DEF StrokeInv
<1>9. \A w \in Pending(t) : w[2] \in Line /\ (w = <<"create", w[2]>> \/ w = <<"append", w[2]>>)
  BY <1>1, PendingLines
<1>10. SocketOK(s)'
  <2>1. /\ LinesFor(s) \subseteq 1..drawn
        /\ \A l \in Line : <<"create", l>> \in Pending(Of(s)) => l \notin Recorded(journal)
        /\ \A l \in Line : <<"create", l>> \in Pending(Of(s)) => strokes[s].id < l
        /\ \A l \in Recorded(journal) : <<"append", l>> \in Pending(Of(s)) => strokes[s].id = l
    BY <1>8 DEF SocketOK
  <2>2. LinesFor(s)' = {w[2] : w \in Pending(t)} \union ({strokes[s].id} \ {None})
    BY <1>3, <1>5 DEF LinesFor
  <2>3. strokes[s].id # None => strokes[s].id \in 1..drawn BY <2>1 DEF LinesFor
  <2>4. strokes[s].id \in Nat /\ strokes[s].id <= drawn BY <1>2, <2>3 DEF None
  <2>5. \A w \in Pending(Of(s)) : w[2] \in 1..drawn BY <2>1 DEF LinesFor
  <2>6. \A w \in Pending(t) : w[2] \in 1..drawn'
    <3> SUFFICES ASSUME NEW w \in Pending(t) PROVE w[2] \in 1..drawn' OBVIOUS
    <3>1. CASE w \in Pending(Of(s)) BY <1>2, <2>5, <3>1
    <3>2. CASE w[2] = drawn' /\ drawn' > drawn BY <1>2, <3>2
    <3> QED BY <3>1, <3>2
  <2>7. LinesFor(s)' \subseteq 1..drawn'
    <3>1. strokes[s].id # None => strokes[s].id \in 1..drawn' BY <1>2, <2>3
    <3> QED BY <2>2, <2>6, <3>1
  <2>8. \A l \in Line : <<"create", l>> \in Pending(t) => l \notin Recorded(journal)
    <3> SUFFICES ASSUME NEW l \in Line, <<"create", l>> \in Pending(t)
                 PROVE  l \notin Recorded(journal)
      OBVIOUS
    <3>1. CASE <<"create", l>> \in Pending(Of(s)) BY <2>1, <3>1
    <3>2. CASE l = drawn' /\ drawn' > drawn BY <1>2, <1>7, <3>2
    <3> QED BY <3>1, <3>2
  <2>9. \A l \in Line : <<"create", l>> \in Pending(t) => strokes[s].id < l
    <3> SUFFICES ASSUME NEW l \in Line, <<"create", l>> \in Pending(t) PROVE strokes[s].id < l
      OBVIOUS
    <3>1. CASE <<"create", l>> \in Pending(Of(s)) BY <2>1, <3>1
    <3>2. CASE l = drawn' /\ drawn' > drawn BY <1>2, <2>4, <3>2
    <3> QED BY <3>1, <3>2
  <2>10. \A l \in Recorded(journal) : <<"append", l>> \in Pending(t) => strokes[s].id = l
    <3> SUFFICES ASSUME NEW l \in Recorded(journal), <<"append", l>> \in Pending(t)
                 PROVE  strokes[s].id = l
      OBVIOUS
    <3>1. CASE <<"append", l>> \in Pending(Of(s)) BY <2>1, <3>1
    <3>2. CASE l = drawn' /\ drawn' > drawn BY <1>2, <1>7, <3>2
    <3> QED BY <3>1, <3>2
  <2> QED BY <1>3, <1>5, <2>7, <2>8, <2>9, <2>10 DEF SocketOK
<1>11. ASSUME NEW u \in Socket, u # s PROVE SocketOK(u)' /\ LinesFor(u)' = LinesFor(u)
  <2>1. Of(u)' = Of(u) /\ link'[u] = link[u] BY <1>3, <1>11
  <2>2. LinesFor(u)' = LinesFor(u) BY <1>5, <2>1 DEF LinesFor
  <2>3. TabOK(Of(u), drawn') BY <1>2, <1>8, TabOKLater DEF SocketOK
  <2>4. LinesFor(u) \subseteq 1..drawn'
    <3>1. LinesFor(u) \subseteq 1..drawn BY <1>8 DEF SocketOK
    <3> QED BY <1>2, <3>1
  <2> QED BY <1>5, <1>8, <2>1, <2>2, <2>3, <2>4 DEF SocketOK
<1>12. \A l \in LinesFor(s)' : l \in LinesFor(s) \/ (l = drawn' /\ drawn' > drawn)
  <2>1. LinesFor(s)' = {w[2] : w \in Pending(t)} \union ({strokes[s].id} \ {None})
    BY <1>3, <1>5 DEF LinesFor
  <2> QED BY <2>1 DEF LinesFor
<1>13. \A u, v \in Socket : u # v => LinesFor(u)' \intersect LinesFor(v)' = {}
  <2>1. ASSUME NEW u \in Socket, u # s PROVE LinesFor(u)' \intersect LinesFor(s)' = {}
    <3>1. LinesFor(u) \intersect LinesFor(s) = {} /\ LinesFor(u) \subseteq 1..drawn
      BY <1>8, <2>1 DEF StrokeInv, SocketOK
    <3>2. drawn' > drawn => drawn' \notin LinesFor(u) BY <1>2, <3>1
    <3> QED BY <1>11, <1>12, <2>1, <3>1, <3>2
  <2> SUFFICES ASSUME NEW u \in Socket, NEW v \in Socket, u # v
               PROVE  LinesFor(u)' \intersect LinesFor(v)' = {}
    OBVIOUS
  <2>2. CASE u = s BY <2>1, <2>2
  <2>3. CASE v = s BY <2>1, <2>3
  <2>4. CASE u # s /\ v # s BY <1>11, <2>4 DEF StrokeInv
  <2> QED BY <2>2, <2>3, <2>4
<1>14. /\ DOMAIN board' \union DOMAIN was' \subseteq Recorded(journal')
       /\ Recorded(journal') \subseteq 1..drawn'
  <2>1. Recorded(journal) \subseteq 1..drawn' BY <1>2, <1>7
  <2> QED BY <1>5, <2>1 DEF StrokeInv
<1>15. \A u \in Socket : SocketOK(u)' BY <1>10, <1>11
<1> QED BY <1>4, <1>6, <1>13, <1>14, <1>15 DEF StrokeInv

\* A step that settles what the tab has to do.
LEMMA SettlingKeeps ==
  ASSUME StrokeInv, NEW s \in Socket, NEW t, Becomes(s, t), UNCHANGED <<link, server, drawn>>,
         link[s] = "open", Settles(Of(s), t, drawn)
  PROVE  StrokeInv'
<1>1. Live(Of(s)) BY DEF StrokeInv, SocketOK
<1>2. drawn \in Nat /\ drawn' = drawn /\ link' = link /\ drawn <= drawn /\ drawn \in 0..MaxLines
  BY StrokeAssumption DEF StrokeInv, VarsOK
<1>3. link \in [Socket -> {"new", "open", "closed"}] BY DEF StrokeInv, VarsOK
<1> QED BY <1>1, <1>2, <1>3, TabStepKeeps DEF Settles

LEMMA TabNow ==
  ASSUME StrokeInv, NEW s \in Socket
  PROVE  /\ TabOK(Of(s), drawn) /\ drawn \in Nat /\ (link[s] # "closed" => Live(Of(s)))
         /\ Of(s) \in Tabs /\ Of(s).line = line[s] /\ Of(s).queue = queue[s] /\ Of(s).up = up[s]
         /\ Of(s).down = down[s]
<1>1. drawn \in Nat BY StrokeAssumption DEF StrokeInv, VarsOK
<1> QED BY <1>1 DEF StrokeInv, SocketOK, TabOK, Of

LEMMA PressKeeps == ASSUME StrokeInv, NEW s \in Socket, NEW p \in Point, Press(s, p) PROVE StrokeInv'
<1>1. TabOK(Of(s), drawn) /\ drawn \in Nat /\ Live(Of(s)) BY TabNow DEF Press
<1> DEFINE u == [Send(Of(s), Message("create", drawn + 1, None)) EXCEPT !.line = drawn + 1, !.count = 0]
           t == MoveTo(u, p)
<1>2. drawn' = drawn + 1 /\ drawn' \in 0..MaxLines /\ drawn + 1 \in Line /\ drawn <= drawn'
  BY <1>1, StrokeAssumption DEF Press, Line
<1>3. /\ TabOK(u, drawn + 1) /\ Live(u)
      /\ Pending(u) \subseteq Pending(Of(s)) \union {<<"create", drawn + 1>>, <<"append", drawn + 1>>}
  BY <1>1, <1>2, PressStarts
<1>4. Becomes(s, t) BY DEF Press
<1> HIDE DEF u
<1>5. Settles(u, t, drawn + 1) BY <1>1, <1>3, MoveToSettles
<1> HIDE DEF t
<1>6. TabOK(t, drawn') /\ Live(t) /\ Pending(t) \subseteq Pending(u) BY <1>2, <1>3, <1>5 DEF Settles
<1>7. \A w \in Pending(t) : w \in Pending(Of(s)) \/ (w[2] = drawn' /\ drawn' > drawn)
  BY <1>1, <1>2, <1>3, <1>6
<1>8. /\ link' \in [Socket -> {"new", "open", "closed"}]
      /\ \A v \in Socket : v # s => link'[v] = link[v]
  BY DEF Press, StrokeInv, VarsOK
<1>9. UNCHANGED server BY DEF Press
<1> QED BY <1>2, <1>4, <1>6, <1>7, <1>8, <1>9, TabStepKeeps

LEMMA MoveKeeps == ASSUME StrokeInv, NEW s \in Socket, NEW p \in Point, Move(s, p) PROVE StrokeInv'
<1>1. TabOK(Of(s), drawn) /\ drawn \in Nat /\ Live(Of(s)) BY TabNow DEF Move
<1>2. Settles(Of(s), MoveTo(Of(s), p), drawn) BY <1>1, MoveToSettles
<1> QED BY <1>2, SettlingKeeps DEF Move

LEMMA ReleaseKeeps == ASSUME StrokeInv, NEW s \in Socket, Release(s) PROVE StrokeInv'
<1>1. TabOK(Of(s), drawn) /\ drawn \in Nat /\ Live(Of(s)) BY TabNow DEF Release
<1>2. link[s] = "open" /\ UNCHANGED <<link, server, drawn>> BY DEF Release
<1>3. CASE Becomes(s, FinishActive(Of(s))) BY <1>1, <1>2, <1>3, FinishActiveSettles, SettlingKeeps
<1>4. ASSUME NEW p \in Point, Becomes(s, FinishActive(MoveTo(Of(s), p))) PROVE StrokeInv'
  <2> DEFINE u == MoveTo(Of(s), p)
  <2>1. Settles(Of(s), u, drawn) BY <1>1, MoveToSettles
  <2>2. TabOK(u, drawn) /\ Live(u) BY <1>1, <2>1 DEF Settles
  <2> HIDE DEF u
  <2>3. Settles(u, FinishActive(u), drawn) BY <1>1, <2>2, FinishActiveSettles
  <2>4. Settles(Of(s), FinishActive(u), drawn) BY <2>1, <2>3, SettlesTwice
  <2> QED BY <1>2, <1>4, <2>4, SettlingKeeps DEF u
<1> QED BY <1>3, <1>4 DEF Release

LEMMA CancelKeeps == ASSUME StrokeInv, NEW s \in Socket, Cancel(s) PROVE StrokeInv'
<1>1. /\ TabOK(Of(s), drawn) /\ drawn \in Nat /\ Live(Of(s)) /\ Of(s) \in Tabs
      /\ Of(s).line = line[s]
  BY TabNow DEF Cancel
<1>2. line[s] \in Line BY <1>1, TabFields DEF Cancel
<1> DEFINE m == Message("delete", line[s], None)
           u == ClearActive(Of(s))
<1>3. m \in Messages /\ m.kept /\ m.type = "delete"
  BY <1>2, LineIsFinite DEF Message, Messages, MessageType
<1>4. Settles(Of(s), u, drawn) BY <1>1, ClearActiveSettles
<1>5. TabOK(u, drawn) /\ Live(u) BY <1>1, <1>4 DEF Settles
<1>6. Becomes(s, Send(u, m)) /\ link[s] = "open" /\ UNCHANGED <<link, server, drawn>> BY DEF Cancel
<1> HIDE DEF m, u
<1>7. Settles(u, Send(u, m), drawn) BY <1>1, <1>3, <1>5, SendSettles
<1>8. Settles(Of(s), Send(u, m), drawn) BY <1>4, <1>7, SettlesTwice
<1> QED BY <1>6, <1>8, SettlingKeeps

LEMMA ReceiveKeeps == ASSUME StrokeInv, NEW s \in Socket, Receive(s) PROVE StrokeInv'
<1>1. /\ TabOK(Of(s), drawn) /\ drawn \in Nat /\ Live(Of(s)) /\ Of(s) \in Tabs
      /\ Of(s).down = down[s]
  BY TabNow DEF Receive
<1>2. down[s] \in Seq(Answers) /\ down[s] # <<>> BY <1>1, TabFields DEF Receive
<1> DEFINE m == Head(down[s])
           t == [Of(s) EXCEPT !.down = Tail(down[s])]
<1>3. m \in Answers /\ Tail(down[s]) \in Seq(Answers) BY <1>2, HeadTailProperties
<1>4. Settles(Of(s), t, drawn)
  <2>1. /\ t \in Tabs /\ t.line = Of(s).line /\ t.count = Of(s).count /\ t.finished = Of(s).finished
        /\ t.queue = Of(s).queue /\ t.up = Of(s).up
    BY <1>1, <1>3 DEF Tabs
  <2> HIDE DEF t
  <2>2. Written(t) = Written(Of(s)) BY <2>1 DEF Written
  <2>3. TabOK(t, drawn) BY <1>1, <2>1, <2>2 DEF TabOK
  <2>4. Pending(t) \subseteq Pending(Of(s)) BY <2>1, <2>2 DEF Pending
  <2>5. Live(t) BY <1>1, <2>1 DEF Live
  <2> QED BY <2>3, <2>4, <2>5 DEF Settles
<1>5. TabOK(t, drawn) /\ Live(t) BY <1>1, <1>4 DEF Settles
<1>6. Becomes(s, IF m.type # "answer" THEN Removed(t, m)
                 ELSE IF ~m.kept THEN t
                 ELSE IF m.ok THEN Flush(t)
                 ELSE Rejected(Flush(t), m.write))
  <2>1. [Of(s) EXCEPT !.down = Tail(@)] = t BY <1>1 DEF Tabs
  <2> QED BY <2>1 DEF Receive
<1>7. link[s] = "open" /\ UNCHANGED <<link, server, drawn>> BY DEF Receive
<1> HIDE DEF m, t
<1>8. CASE m.type # "answer"
  <2>1. m.type \in {"clear", "delete", "restore"} BY <1>3, <1>8 DEF Answers
  <2>2. Settles(t, Removed(t, m), drawn) BY <1>1, <1>5, <2>1, RemovedSettles
  <2>3. Settles(Of(s), Removed(t, m), drawn) BY <1>4, <2>2, SettlesTwice
  <2> QED BY <1>6, <1>7, <1>8, <2>3, SettlingKeeps
<1>9. CASE m.type = "answer"
  <2>1. m.write \in Messages /\ m.write.type \in Writes BY <1>3, <1>9 DEF Answers
  <2>2. m.write.id \in Line BY <2>1, MessageFields DEF Writes
  <2>3. Settles(t, Flush(t), drawn) BY <1>1, <1>5, FlushSettles
  <2>4. TabOK(Flush(t), drawn) /\ Live(Flush(t)) BY <1>5, <2>3 DEF Settles
  <2>5. Settles(Of(s), Flush(t), drawn) BY <1>4, <2>3, SettlesTwice
  <2>6. Settles(Flush(t), Rejected(Flush(t), m.write), drawn)
    BY <1>1, <2>1, <2>2, <2>4, RejectedSettles
  <2>7. Settles(Of(s), Rejected(Flush(t), m.write), drawn) BY <2>5, <2>6, SettlesTwice
  <2>8. CASE ~m.kept BY <1>4, <1>6, <1>7, <1>9, <2>8, SettlingKeeps
  <2>9. CASE m.kept /\ m.ok BY <1>6, <1>7, <1>9, <2>5, <2>9, SettlingKeeps
  <2>10. CASE m.kept /\ ~m.ok BY <1>6, <1>7, <1>9, <2>7, <2>10, SettlingKeeps
  <2> QED BY <2>8, <2>9, <2>10
<1> QED BY <1>8, <1>9

LEMMA PumpKeeps == ASSUME StrokeInv, NEW s \in Socket, Pump(s) PROVE StrokeInv'
<1>1. /\ TabOK(Of(s), drawn) /\ drawn \in Nat /\ Live(Of(s)) /\ Of(s) \in Tabs
      /\ Of(s).queue = queue[s] /\ Of(s).up = up[s]
  BY TabNow DEF Pump
<1> DEFINE t == [Of(s) EXCEPT !.queue = <<>>, !.up = up[s] \o queue[s]]
<1>2. queue[s] \in Seq(Messages) /\ up[s] \in Seq(Messages) BY <1>1, TabFields
<1>3. /\ up[s] \o queue[s] \in Seq(Messages) /\ InOrder(up[s] \o queue[s])
      /\ Range(up[s] \o queue[s]) = Range(up[s]) \union Range(queue[s])
  BY <1>1, <1>2, InOrderConcat DEF TabOK
<1>4. <<>> \in Seq(Messages) /\ DOMAIN <<>> = {} BY EmptySeq
<1>5. InOrder(<<>>) /\ Range(<<>>) = {} BY <1>4 DEF InOrder, Range
<1>6. /\ t \in Tabs /\ t.line = Of(s).line /\ t.count = Of(s).count /\ t.finished = Of(s).finished
      /\ t.cleaned = Of(s).cleaned /\ t.down = Of(s).down
      /\ t.queue = <<>> /\ t.up = up[s] \o queue[s]
  BY <1>1, <1>3, <1>4 DEF Tabs
<1>7. Becomes(s, t)
  <2>1. /\ Of(s).line = line[s] /\ Of(s).count = count[s] /\ Of(s).finished = finished[s]
        /\ Of(s).cleaned = cleaned[s] /\ Of(s).down = down[s]
    BY DEF Of
  <2>2. VarsOK BY DEF StrokeInv
  <2> HIDE DEF t
  <2> QED BY <1>6, <2>1, <2>2 DEF Pump, Becomes, VarsOK
<1>8. link[s] = "open" /\ UNCHANGED <<link, server, drawn>> BY DEF Pump
<1> HIDE DEF t
<1>9. Written(t) = Written(Of(s)) BY <1>1, <1>3, <1>5, <1>6 DEF Written
<1>10. Before(t.up, t.queue) BY <1>5, <1>6 DEF Before
<1>11. TabOK(t, drawn) BY <1>1, <1>3, <1>5, <1>6, <1>9, <1>10 DEF TabOK
<1>12. Pending(t) \subseteq Pending(Of(s)) BY <1>6, <1>9 DEF Pending
<1>13. Live(t) BY <1>1, <1>3, <1>6 DEF Live, TabOK
<1>14. Settles(Of(s), t, drawn) BY <1>11, <1>12, <1>13 DEF Settles
<1> QED BY <1>7, <1>8, <1>14, SettlingKeeps

\* The end of a connection is the last thing the server reads of it.
LEMMA CloseKeeps == ASSUME StrokeInv, NEW s \in Socket, Close(s) PROVE StrokeInv'
<1>1. /\ TabOK(Of(s), drawn) /\ drawn \in Nat /\ Live(Of(s)) /\ Of(s) \in Tabs
      /\ Of(s).queue = queue[s] /\ Of(s).up = up[s]
  BY TabNow DEF Close
<1>2. up[s] \in Seq(Messages) /\ InOrder(up[s]) BY <1>1, TabFields DEF TabOK
<1> DEFINE m == Message("gone", None, None)
<1>3. m \in Messages /\ m.type = "gone" /\ m.id = None
  BY DEF Message, Messages, MessageType
<1>4. PICK k \in 0..Len(up[s]) :
        Becomes(s, [ClearActive(Of(s)) EXCEPT
                      !.finished = {}, !.cleaned = {}, !.queue = <<>>, !.down = <<>>,
                      !.up = Append(SubSeq(@, 1, k), m)])
  BY DEF Close
<1> DEFINE first == SubSeq(up[s], 1, k)
           a == ClearActive(Of(s))
           t == [a EXCEPT !.finished = {}, !.cleaned = {}, !.queue = <<>>, !.down = <<>>,
                          !.up = Append(first, m)]
<1>5. first \in Seq(Messages) /\ InOrder(first) /\ Range(first) \subseteq Range(up[s])
  BY <1>2, InOrderInitial
<1> HIDE DEF m
<1>6. \A w \in Range(first) : Fits(w, m) BY <1>1, <1>3, <1>5 DEF Live, Fits
<1>7. /\ Append(first, m) \in Seq(Messages) /\ InOrder(Append(first, m))
      /\ Range(Append(first, m)) = Range(first) \union {m}
  BY <1>3, <1>5, <1>6, InOrderAppend
<1>8. a \in Tabs /\ a.line = None /\ a.count = 0 /\ a.up = up[s]
  <2>1. 0 \in 0..MaxChildren - 1 BY StrokeAssumption
  <2> QED BY <1>1, <2>1 DEF ClearActive, Tabs
<1>9. <<>> \in Seq(Messages) /\ <<>> \in Seq(Answers) /\ DOMAIN <<>> = {} BY EmptySeq
<1>10. InOrder(<<>>) /\ Range(<<>>) = {} BY <1>9 DEF InOrder, Range
<1> HIDE DEF first
<1>11. Becomes(s, t)
  <2>1. [a EXCEPT !.finished = {}, !.cleaned = {}, !.queue = <<>>, !.down = <<>>,
                  !.up = Append(SubSeq(@, 1, k), m)] = t
    BY <1>8 DEF Tabs, first
  <2> QED BY <1>4, <2>1
<1> HIDE DEF a
<1>12. /\ t \in Tabs /\ t.line = None /\ t.count = 0 /\ t.finished = {} /\ t.queue = <<>>
       /\ t.up = Append(first, m)
  BY <1>7, <1>8, <1>9 DEF Tabs
<1> HIDE DEF t
<1>13. Written(t) = Range(first) \union {m} BY <1>7, <1>10, <1>12 DEF Written
<1>14. \A w \in Written(t) : w \in Written(Of(s)) \/ w.type = "gone"
  BY <1>1, <1>3, <1>5, <1>13 DEF Written
<1>15. TabOK(t, drawn)
  <2>1. \A w \in Written(t) : w.type \in {"create", "append", "end"} => w.id <= drawn
    BY <1>1, <1>14 DEF TabOK
  <2> QED BY <1>7, <1>10, <1>12, <2>1 DEF TabOK, Before
<1>16. \A w \in Pending(t) : w \in Pending(Of(s)) BY <1>14, <1>12 DEF Pending
<1>17. /\ link' \in [Socket -> {"new", "open", "closed"}] /\ link'[s] = "closed"
       /\ \A v \in Socket : v # s => link'[v] = link[v]
  BY DEF Close, StrokeInv, VarsOK
<1>18. UNCHANGED server /\ drawn' = drawn /\ drawn <= drawn /\ drawn \in 0..MaxLines
  BY <1>1 DEF Close, StrokeInv, VarsOK
<1> QED BY <1>11, <1>15, <1>16, <1>17, <1>18, TabStepKeeps
-----------------------------------------------------------------------------
(* Boards, entries of the journal, and curves *)

LEMMA BoardIs ==
  ASSUME NEW V, NEW b
  PROVE  b \in Boards(V) <=> DOMAIN b \subseteq Line /\ b \in [DOMAIN b -> V]
  BY DEF Boards

LEMMA WithDomain ==
  ASSUME NEW b, NEW l, NEW v
  PROVE  /\ DOMAIN With(b, l, v) = {l} \union DOMAIN b /\ With(b, l, v)[l] = v
         /\ \A k \in DOMAIN b : k # l => With(b, l, v)[k] = b[k]
  BY DEF With

LEMMA WithoutDomain ==
  ASSUME NEW b, NEW ids
  PROVE  /\ DOMAIN Without(b, ids) = DOMAIN b \ ids
         /\ \A k \in DOMAIN b \ ids : Without(b, ids)[k] = b[k]
  BY DEF Without, Restrict

LEMMA WithIs ==
  ASSUME NEW V, NEW b \in Boards(V), NEW l \in Line, NEW v \in V PROVE With(b, l, v) \in Boards(V)
<1>1. DOMAIN b \subseteq Line /\ b \in [DOMAIN b -> V] /\ \A k \in DOMAIN b : b[k] \in V
  BY BoardIs
<1>2. With(b, l, v) \in [{l} \union DOMAIN b -> V] /\ {l} \union DOMAIN b \subseteq Line
  BY <1>1 DEF With
<1>3. DOMAIN With(b, l, v) = {l} \union DOMAIN b BY WithDomain
<1> QED BY <1>2, <1>3, BoardIs

LEMMA WithoutIs ==
  ASSUME NEW V, NEW b \in Boards(V), NEW ids PROVE Without(b, ids) \in Boards(V)
<1>1. DOMAIN b \subseteq Line /\ b \in [DOMAIN b -> V] /\ \A k \in DOMAIN b : b[k] \in V
  BY BoardIs
<1>2. Without(b, ids) \in [DOMAIN b \ ids -> V] /\ DOMAIN b \ ids \subseteq Line
  BY <1>1 DEF Without, Restrict
<1>3. DOMAIN Without(b, ids) = DOMAIN b \ ids BY WithoutDomain
<1> QED BY <1>2, <1>3, BoardIs

LEMMA EntryFields ==
  ASSUME NEW r \in Entries
  PROVE  /\ r.kind \in {"mutation", "stroke", "active"} /\ r.at \in Nat
         /\ r.kind = "mutation" => r.m \in Mutations
         /\ r.kind = "stroke" => /\ r.id \in Line /\ r.start \in Nat /\ r.end \in Nat
                                 /\ r.curve \in Curves \union {NoCurve}
         /\ r.kind = "active" => r.socket \in Socket /\ r.stroke \in Strokes
  BY DEF Entries

LEMMA MutationFields ==
  ASSUME NEW m \in Mutations
  PROVE  /\ m.type \in {"create", "append", "delete", "clear", "restore"} /\ m.id \in Line
         /\ m.point \in Point \union {None} /\ m.items \in Boards(Curves \union {Gone})
         /\ m.type = "append" => m.point \in Point
  BY DEF Mutations

LEMMA StrokeFields ==
  ASSUME NEW x \in Strokes
  PROVE  /\ x.id \in Nat /\ x.start \in Nat /\ x.end \in Nat
         /\ x # NoStroke <=> x.id \in Line
         /\ x = NoStroke <=> x.id = None
<1>1. NoStroke.id = 0 /\ NoStroke.start = 0 /\ NoStroke.end = 0 BY DEF NoStroke
<1>2. CASE x = NoStroke BY <1>1, <1>2, LineIsFinite DEF None
<1>3. CASE x # NoStroke
  <2>1. x.id \in Line /\ x.start \in Nat /\ x.end \in Nat BY <1>3 DEF Strokes
  <2> QED BY <1>3, <2>1, LineIsFinite
<1> QED BY <1>2, <1>3

LEMMA AddPointType ==
  ASSUME NEW curve \in Curves, NEW p \in Point PROVE AddPoint(curve, p) \in Curves
<1>1. Append(curve, p) \in Seq(Point) BY AppendProperties DEF Curves
<1>2. <<p, p>> \in Seq(Point) OBVIOUS
<1> QED BY <1>1, <1>2 DEF AddPoint, Curves

\* The function that PencilCurve goes along the points with.
CurveFunction(f, points) ==
  f = [k \in 0..Len(points) |-> IF k = 0 THEN <<>> ELSE AddPoint(f[k - 1], points[k])]

LEMMA PencilCurveSteps ==
  ASSUME NEW points \in Curves
  PROVE  \E f : /\ f \in [0..Len(points) -> Curves] /\ f[0] = <<>>
                /\ PencilCurve(points) = f[Len(points)]
                /\ \A k \in 1..Len(points) : f[k] = AddPoint(f[k - 1], points[k])
<1>1. Len(points) \in Nat /\ \A k \in 1..Len(points) : points[k] \in Point
  BY LenProperties, ElementOfSeq DEF Curves
<1>2. <<>> \in Curves BY EmptySeq DEF Curves
<1>3. \E f : CurveFunction(f, points)
  <2> DEFINE n    == Len(points)
             step == [w \in Curves \X (1..n) |-> AddPoint(w[1], points[w[2]])]
  <2>1. step \in [Curves \X (1..n) -> Curves] BY <1>1, AddPointType
  <2>2. \A c \in Curves, k \in 1..n : step[<<c, k>>] = AddPoint(c, points[k]) OBVIOUS
  <2>3. n \in Nat BY <1>1
  <2> HIDE DEF step, n
  <2>4. PICK f : Goes(f, Curves, <<>>, n, step) BY <1>2, <2>1, <2>3, StepByStep
  <2>5. \A k \in 1..n : f[k] = AddPoint(f[k - 1], points[k])
    <3> SUFFICES ASSUME NEW k \in 1..n PROVE f[k] = AddPoint(f[k - 1], points[k]) OBVIOUS
    <3>1. k - 1 \in 0..n BY <2>3
    <3>2. f[k - 1] \in Curves BY <2>4, <3>1 DEF Goes
    <3> QED BY <2>2, <2>4, <3>2 DEF Goes
  <2>6. f \in [0..n -> Curves] /\ f[0] = <<>> BY <2>4 DEF Goes
  <2>7. \A k \in 0..n : f[k] = IF k = 0 THEN <<>> ELSE AddPoint(f[k - 1], points[k])
    BY <2>3, <2>5, <2>6
  <2> QED BY <2>6, <2>7 DEF CurveFunction, n
<1> DEFINE f == CHOOSE f : CurveFunction(f, points)
<1>4. CurveFunction(f, points) BY <1>3
<1>5. PencilCurve(points) = f[Len(points)] BY DEF PencilCurve, CurveFunction
<1> HIDE DEF f
<1>6. \A k \in 0..Len(points) : f[k] = IF k = 0 THEN <<>> ELSE AddPoint(f[k - 1], points[k])
  BY <1>4, Zenon DEF CurveFunction
<1>7. f[0] = <<>> BY <1>1, <1>6
<1>8. \A k \in 1..Len(points) : f[k] = AddPoint(f[k - 1], points[k]) BY <1>1, <1>6
<1>9. f \in [0..Len(points) -> Curves]
  <2> DEFINE T == {k \in 0..Len(points) : f[k] \in Curves}
  <2>1. 0 \in T BY <1>1, <1>2, <1>7
  <2>2. ASSUME NEW k \in 1..Len(points), k - 1 \in T PROVE k \in T
    BY <1>1, <1>8, <2>2, AddPointType
  <2>3. 0..Len(points) \subseteq T
    <3> HIDE DEF T
    <3> QED BY <1>1, <2>1, <2>2, HoldsUpTo
  <2>4. f = [k \in 0..Len(points) |-> f[k]] BY <1>4 DEF CurveFunction
  <2> QED BY <2>3, <2>4
<1> QED BY <1>5, <1>7, <1>8, <1>9

\* The curve grows by each point.
LEMMA PencilCurveGrows ==
  /\ PencilCurve(<<>>) = <<>>
  /\ \A points \in Curves : PencilCurve(points) \in Curves
  /\ \A points \in Curves, p \in Point :
       PencilCurve(Append(points, p)) = AddPoint(PencilCurve(points), p)
<1>1. PencilCurve(<<>>) = <<>>
  <2>1. <<>> \in Curves /\ Len(<<>>) = 0 BY EmptySeq DEF Curves
  <2> QED BY <2>1, PencilCurveSteps
<1>2. ASSUME NEW points \in Curves PROVE PencilCurve(points) \in Curves
  <2>1. Len(points) \in Nat BY LenProperties DEF Curves
  <2>2. Len(points) \in 0..Len(points) BY <2>1
  <2> QED BY <2>2, PencilCurveSteps
<1>3. ASSUME NEW points \in Curves, NEW p \in Point
      PROVE  PencilCurve(Append(points, p)) = AddPoint(PencilCurve(points), p)
  <2> DEFINE q == Append(points, p)
             n == Len(points)
  <2>1. /\ q \in Curves /\ n \in Nat /\ Len(q) = n + 1 /\ q[n + 1] = p
        /\ \A k \in 1..n : q[k] = points[k]
    BY AppendProperties, LenProperties DEF Curves
  <2> HIDE DEF q
  <2>2. PICK f : /\ f[0] = <<>> /\ PencilCurve(points) = f[n]
                 /\ \A k \in 1..n : f[k] = AddPoint(f[k - 1], points[k])
    BY PencilCurveSteps
  <2>3. PICK g : /\ g[0] = <<>> /\ PencilCurve(q) = g[Len(q)]
                 /\ \A k \in 1..Len(q) : g[k] = AddPoint(g[k - 1], q[k])
    BY <2>1, PencilCurveSteps
  <2> HIDE DEF n
  <2> DEFINE T == {k \in 0..n : f[k] = g[k]}
  <2>4. 0 \in T BY <2>1, <2>2, <2>3
  <2>5. ASSUME NEW k \in 1..n, k - 1 \in T PROVE k \in T BY <2>1, <2>2, <2>3, <2>5
  <2>6. 0..n \subseteq T
    <3> HIDE DEF T
    <3> QED BY <2>1, <2>4, <2>5, HoldsUpTo
  <2>7. f[n] = g[n] /\ n + 1 \in 1..Len(q) /\ (n + 1) - 1 = n BY <2>1, <2>6
  <2>8. g[n + 1] = AddPoint(g[n], p) BY <2>1, <2>3, <2>7
  <2> QED BY <2>1, <2>2, <2>3, <2>7, <2>8 DEF q
<1> QED BY <1>1, <1>2, <1>3

-----------------------------------------------------------------------------
(* What is read from the journal, record by record *)

\* The function that PointsOf goes along the journal with.
PointsFunction(f, j, l) ==
  f = [k \in 0..Len(j) |->
         IF k = 0 THEN <<>>
         ELSE IF IsPointOf(j[k], l) THEN Append(f[k - 1], j[k].m.point) ELSE f[k - 1]]
OnePoint(points, r, l) == IF IsPointOf(r, l) THEN Append(points, r.m.point) ELSE points

LEMMA OnePointType ==
  ASSUME NEW points \in Curves, NEW r \in Entries, NEW l PROVE OnePoint(points, r, l) \in Curves
<1>1. CASE IsPointOf(r, l)
  <2>1. r.kind = "mutation" /\ r.m.type = "append" BY <1>1 DEF IsPointOf, IsMutation
  <2>2. r.m.point \in Point BY <2>1, EntryFields, MutationFields
  <2>3. Append(points, r.m.point) \in Curves BY <2>2, AppendProperties DEF Curves
  <2> QED BY <1>1, <2>3 DEF OnePoint
<1>2. CASE ~IsPointOf(r, l) BY <1>2 DEF OnePoint
<1> QED BY <1>1, <1>2

LEMMA PointsOfSteps ==
  ASSUME NEW j \in Seq(Entries), NEW l
  PROVE  \E f : /\ f \in [0..Len(j) -> Curves] /\ f[0] = <<>> /\ PointsOf(j, l) = f[Len(j)]
                /\ \A k \in 1..Len(j) : f[k] = OnePoint(f[k - 1], j[k], l)
<1>1. Len(j) \in Nat /\ \A k \in 1..Len(j) : j[k] \in Entries BY LenProperties, ElementOfSeq
<1>2. <<>> \in Curves BY EmptySeq DEF Curves
<1>3. \E f : PointsFunction(f, j, l)
  <2> DEFINE n    == Len(j)
             step == [w \in Curves \X (1..n) |-> OnePoint(w[1], j[w[2]], l)]
  <2>1. step \in [Curves \X (1..n) -> Curves] BY <1>1, OnePointType
  <2>2. \A c \in Curves, k \in 1..n : step[<<c, k>>] = OnePoint(c, j[k], l) OBVIOUS
  <2>3. n \in Nat BY <1>1
  <2> HIDE DEF step, n
  <2>4. PICK f : Goes(f, Curves, <<>>, n, step) BY <1>2, <2>1, <2>3, StepByStep
  <2>5. \A k \in 1..n : f[k] = OnePoint(f[k - 1], j[k], l)
    <3> SUFFICES ASSUME NEW k \in 1..n PROVE f[k] = OnePoint(f[k - 1], j[k], l) OBVIOUS
    <3>1. k - 1 \in 0..n BY <2>3
    <3>2. f[k - 1] \in Curves BY <2>4, <3>1 DEF Goes
    <3> QED BY <2>2, <2>4, <3>2 DEF Goes
  <2>6. f \in [0..n -> Curves] /\ f[0] = <<>> BY <2>4 DEF Goes
  <2>7. \A k \in 0..n : f[k] = IF k = 0 THEN <<>> ELSE OnePoint(f[k - 1], j[k], l)
    BY <2>3, <2>5, <2>6
  <2> QED BY <2>6, <2>7 DEF PointsFunction, OnePoint, n
<1> DEFINE f == CHOOSE f : PointsFunction(f, j, l)
<1>4. PointsFunction(f, j, l) BY <1>3
<1>5. PointsOf(j, l) = f[Len(j)] BY DEF PointsOf, PointsFunction
<1> HIDE DEF f
<1>6. \A k \in 0..Len(j) : f[k] = IF k = 0 THEN <<>> ELSE OnePoint(f[k - 1], j[k], l)
  <2>1. \A k \in 0..Len(j) :
          f[k] = IF k = 0 THEN <<>>
                 ELSE IF IsPointOf(j[k], l) THEN Append(f[k - 1], j[k].m.point) ELSE f[k - 1]
    BY <1>4, Zenon DEF PointsFunction
  <2> QED BY <2>1 DEF OnePoint
<1>7. f[0] = <<>> BY <1>1, <1>6
<1>8. \A k \in 1..Len(j) : f[k] = OnePoint(f[k - 1], j[k], l) BY <1>1, <1>6
<1>9. f \in [0..Len(j) -> Curves]
  <2> DEFINE T == {k \in 0..Len(j) : f[k] \in Curves}
  <2>1. 0 \in T BY <1>1, <1>2, <1>7
  <2>2. ASSUME NEW k \in 1..Len(j), k - 1 \in T PROVE k \in T
    BY <1>1, <1>8, <2>2, OnePointType
  <2>3. 0..Len(j) \subseteq T
    <3> HIDE DEF T
    <3> QED BY <1>1, <2>1, <2>2, HoldsUpTo
  <2>4. f = [k \in 0..Len(j) |-> f[k]] BY <1>4 DEF PointsFunction
  <2> QED BY <2>3, <2>4
<1> QED BY <1>5, <1>7, <1>8, <1>9

\* A record adds its point, if it is one of the line.
LEMMA PointsOfGrows ==
  ASSUME NEW j \in Seq(Entries), NEW l
  PROVE  /\ PointsOf(j, l) \in Curves
         /\ \A r \in Entries : PointsOf(Append(j, r), l) = OnePoint(PointsOf(j, l), r, l)
<1>1. Len(j) \in Nat BY LenProperties
<1>2. PICK f : /\ f \in [0..Len(j) -> Curves] /\ f[0] = <<>> /\ PointsOf(j, l) = f[Len(j)]
               /\ \A k \in 1..Len(j) : f[k] = OnePoint(f[k - 1], j[k], l)
  BY PointsOfSteps
<1>3. PointsOf(j, l) \in Curves
  <2>1. Len(j) \in 0..Len(j) BY <1>1
  <2> QED BY <1>2, <2>1
<1>4. ASSUME NEW r \in Entries PROVE PointsOf(Append(j, r), l) = OnePoint(PointsOf(j, l), r, l)
  <2> DEFINE q == Append(j, r)
             n == Len(j)
  <2>1. /\ q \in Seq(Entries) /\ Len(q) = n + 1 /\ q[n + 1] = r /\ \A k \in 1..n : q[k] = j[k]
    BY AppendProperties
  <2> HIDE DEF q
  <2>2. PICK g : /\ g[0] = <<>> /\ PointsOf(q, l) = g[Len(q)]
                 /\ \A k \in 1..Len(q) : g[k] = OnePoint(g[k - 1], q[k], l)
    BY <2>1, PointsOfSteps
  <2>3. n \in Nat /\ f[0] = g[0] /\ \A k \in 1..n : f[k] = OnePoint(f[k - 1], j[k], l)
    BY <1>1, <1>2, <2>2
  <2> HIDE DEF n
  <2> DEFINE T == {k \in 0..n : f[k] = g[k]}
  <2>4. 0 \in T BY <2>3
  <2>5. ASSUME NEW k \in 1..n, k - 1 \in T PROVE k \in T
    <3>1. k \in 1..Len(q) /\ q[k] = j[k] /\ f[k - 1] = g[k - 1] BY <2>1, <2>3, <2>5
    <3>2. g[k] = OnePoint(g[k - 1], q[k], l) /\ f[k] = OnePoint(f[k - 1], j[k], l)
      BY <2>2, <2>3, <3>1
    <3> QED BY <3>1, <3>2
  <2>6. 0..n \subseteq T
    <3> HIDE DEF T
    <3> QED BY <2>3, <2>4, <2>5, HoldsUpTo
  <2>7. f[n] = g[n] /\ n + 1 \in 1..Len(q) /\ (n + 1) - 1 = n BY <2>1, <2>3, <2>6
  <2>8. g[n + 1] = OnePoint(g[n], r, l) BY <2>1, <2>2, <2>7
  <2> QED BY <1>2, <2>1, <2>2, <2>7, <2>8 DEF q, n
<1> QED BY <1>3, <1>4

LEMMA SmoothType ==
  ASSUME NEW c \in Boards(Curves), NEW m, m.point \in Point
  PROVE  /\ Smooth(c, m) \in Boards(Curves) /\ DOMAIN Smooth(c, m) = DOMAIN c
         /\ m.id \in DOMAIN c => Smooth(c, m)[m.id] = AddPoint(c[m.id], m.point)
         /\ \A l \in DOMAIN c : l # m.id => Smooth(c, m)[l] = c[l]
<1>1. DOMAIN c \subseteq Line /\ c \in [DOMAIN c -> Curves] BY BoardIs
<1>2. CASE m.id \notin DOMAIN c BY <1>2 DEF Smooth
<1>3. CASE m.id \in DOMAIN c
  <2>1. AddPoint(c[m.id], m.point) \in Curves BY <1>1, <1>3, AddPointType
  <2>2. Smooth(c, m) = [c EXCEPT ![m.id] = AddPoint(c[m.id], m.point)] BY <1>3 DEF Smooth
  <2>3. /\ Smooth(c, m) \in [DOMAIN c -> Curves] /\ DOMAIN Smooth(c, m) = DOMAIN c
        /\ Smooth(c, m)[m.id] = AddPoint(c[m.id], m.point)
        /\ \A l \in DOMAIN c : l # m.id => Smooth(c, m)[l] = c[l]
    BY <1>1, <1>3, <2>1, <2>2
  <2> QED BY <1>1, <2>3, BoardIs
<1> QED BY <1>2, <1>3

\* An active record gives the socket its stroke, with a curve.
Active(h, s, stroke) ==
  LET kept == IF h.strokes[s].id # stroke.id THEN Without(h.curves, {h.strokes[s].id})
              ELSE h.curves
  IN  [strokes |-> [h.strokes EXCEPT ![s] = stroke],
       curves  |-> IF stroke = NoStroke \/ stroke.id \in DOMAIN kept THEN kept
                   ELSE With(kept, stroke.id, <<>>)]

LEMMA RecoverRecordIs ==
  ASSUME NEW h \in Recoveries, NEW r \in Entries
  PROVE  /\ RecoverRecord(h, r) \in Recoveries
         /\ r.kind = "mutation" /\ r.m.type = "append" =>
              RecoverRecord(h, r) = [strokes |-> h.strokes, curves |-> Smooth(h.curves, r.m)]
         /\ (r.kind = "mutation" /\ r.m.type # "append") \/ r.kind = "stroke" =>
              RecoverRecord(h, r) = h
         /\ r.kind = "active" => RecoverRecord(h, r) = Active(h, r.socket, r.stroke)
<1>1. h.strokes \in [Socket -> Strokes] /\ h.curves \in Boards(Curves) /\ <<>> \in Curves
  BY EmptySeq DEF Recoveries, Curves
<1>2. CASE r.kind = "mutation"
  <2>1. CASE r.m.type = "append"
    <3>1. r.m.point \in Point BY <1>2, <2>1, EntryFields, MutationFields
    <3>2. RecoverRecord(h, r) = [h EXCEPT !.curves = Smooth(h.curves, r.m)]
      BY <1>2, <2>1 DEF RecoverRecord, IsMutation
    <3>3. Smooth(h.curves, r.m) \in Boards(Curves) BY <1>1, <3>1, SmoothType
    <3> QED BY <1>2, <2>1, <3>2, <3>3 DEF Recoveries
  <2>2. CASE r.m.type # "append" BY <1>2, <2>2 DEF RecoverRecord, IsMutation
  <2> QED BY <1>2, <2>1, <2>2
<1>3. CASE r.kind = "stroke" BY <1>3 DEF RecoverRecord, IsMutation
<1>4. CASE r.kind = "active"
  <2> DEFINE s == r.socket
             kept == IF h.strokes[s].id # r.stroke.id THEN Without(h.curves, {h.strokes[s].id})
                     ELSE h.curves
             c == IF r.stroke = NoStroke \/ r.stroke.id \in DOMAIN kept THEN kept
                  ELSE With(kept, r.stroke.id, <<>>)
             f == [h.strokes EXCEPT ![s] = r.stroke]
  <2>1. s \in Socket /\ r.stroke \in Strokes BY <1>4, EntryFields
  <2>2. RecoverRecord(h, r) = [h EXCEPT !.strokes = f, !.curves = c]
    BY <1>4 DEF RecoverRecord, IsMutation, Recoveries
  <2>3. kept \in Boards(Curves) BY <1>1, WithoutIs
  <2>4. r.stroke # NoStroke => r.stroke.id \in Line BY <2>1, StrokeFields
  <2> HIDE DEF kept
  <2>5. c \in Boards(Curves) BY <1>1, <2>3, <2>4, WithIs
  <2>6. f \in [Socket -> Strokes] BY <1>1, <2>1
  <2>7. Active(h, r.socket, r.stroke) = [strokes |-> f, curves |-> c] BY DEF Active, kept
  <2> HIDE DEF c, f
  <2>8. RecoverRecord(h, r) = [strokes |-> f, curves |-> c] BY <2>2 DEF Recoveries
  <2> QED BY <1>4, <2>5, <2>6, <2>7, <2>8 DEF Recoveries
<1> QED BY <1>2, <1>3, <1>4, EntryFields

\* The function that Recovered goes along the journal with.
RecoveredFunction(f, j) ==
  f = [k \in 0..Len(j) |-> IF k = 0 THEN NoHistory ELSE RecoverRecord(f[k - 1], j[k])]

LEMMA NothingIsOpen ==
  /\ Nothing \in Boards(Curves) /\ Nothing \in Boards(Curves \union {Gone}) /\ DOMAIN Nothing = {}
  /\ NoHistory \in Recoveries
  /\ NoHistory.curves = Nothing /\ \A s \in Socket : NoHistory.strokes[s] = NoStroke
<1>1. DOMAIN Nothing = {} BY DEF Nothing
<1>2. \A V : Nothing \in [{} -> V] BY DEF Nothing
<1>3. \A V : Nothing \in Boards(V) BY <1>1, <1>2, BoardIs
<1>4. [s \in Socket |-> NoStroke] \in [Socket -> Strokes] BY DEF Strokes
<1> QED BY <1>1, <1>3, <1>4 DEF NoHistory, Recoveries

LEMMA RecoveredSteps ==
  ASSUME NEW j \in Seq(Entries)
  PROVE  \E f : /\ f \in [0..Len(j) -> Recoveries] /\ f[0] = NoHistory /\ Recovered(j) = f[Len(j)]
                /\ \A k \in 1..Len(j) : f[k] = RecoverRecord(f[k - 1], j[k])
<1>1. Len(j) \in Nat /\ \A k \in 1..Len(j) : j[k] \in Entries BY LenProperties, ElementOfSeq
<1>2. NoHistory \in Recoveries BY NothingIsOpen
<1>3. \E f : RecoveredFunction(f, j)
  <2> DEFINE n    == Len(j)
             step == [w \in Recoveries \X (1..n) |-> RecoverRecord(w[1], j[w[2]])]
  <2>1. step \in [Recoveries \X (1..n) -> Recoveries] BY <1>1, RecoverRecordIs
  <2>2. \A h \in Recoveries, k \in 1..n : step[<<h, k>>] = RecoverRecord(h, j[k]) OBVIOUS
  <2>3. n \in Nat BY <1>1
  <2> HIDE DEF step, n
  <2>4. PICK f : Goes(f, Recoveries, NoHistory, n, step) BY <1>2, <2>1, <2>3, StepByStep
  <2>5. \A k \in 1..n : f[k] = RecoverRecord(f[k - 1], j[k])
    <3> SUFFICES ASSUME NEW k \in 1..n PROVE f[k] = RecoverRecord(f[k - 1], j[k]) OBVIOUS
    <3>1. k - 1 \in 0..n BY <2>3
    <3>2. f[k - 1] \in Recoveries BY <2>4, <3>1 DEF Goes
    <3> QED BY <2>2, <2>4, <3>2 DEF Goes
  <2>6. f \in [0..n -> Recoveries] /\ f[0] = NoHistory BY <2>4 DEF Goes
  <2>7. \A k \in 0..n : f[k] = IF k = 0 THEN NoHistory ELSE RecoverRecord(f[k - 1], j[k])
    BY <2>3, <2>5, <2>6
  <2> QED BY <2>6, <2>7 DEF RecoveredFunction, n
<1> DEFINE f == CHOOSE f : RecoveredFunction(f, j)
<1>4. RecoveredFunction(f, j) BY <1>3
<1>5. Recovered(j) = f[Len(j)] BY DEF Recovered, RecoveredFunction
<1> HIDE DEF f
<1>6. \A k \in 0..Len(j) : f[k] = IF k = 0 THEN NoHistory ELSE RecoverRecord(f[k - 1], j[k])
  BY <1>4, Zenon DEF RecoveredFunction
<1>7. f[0] = NoHistory BY <1>1, <1>6
<1>8. \A k \in 1..Len(j) : f[k] = RecoverRecord(f[k - 1], j[k]) BY <1>1, <1>6
<1>9. f \in [0..Len(j) -> Recoveries]
  <2> DEFINE T == {k \in 0..Len(j) : f[k] \in Recoveries}
  <2>1. 0 \in T BY <1>1, <1>2, <1>7
  <2>2. ASSUME NEW k \in 1..Len(j), k - 1 \in T PROVE k \in T
    BY <1>1, <1>8, <2>2, RecoverRecordIs
  <2>3. 0..Len(j) \subseteq T
    <3> HIDE DEF T
    <3> QED BY <1>1, <2>1, <2>2, HoldsUpTo
  <2>4. f = [k \in 0..Len(j) |-> f[k]] BY <1>4 DEF RecoveredFunction
  <2> QED BY <2>3, <2>4
<1> QED BY <1>5, <1>7, <1>8, <1>9

LEMMA RecoveredGrows ==
  /\ Recovered(<<>>) = NoHistory
  /\ \A j \in Seq(Entries) : Recovered(j) \in Recoveries
  /\ \A j \in Seq(Entries), r \in Entries : Recovered(Append(j, r)) = RecoverRecord(Recovered(j), r)
<1>1. Recovered(<<>>) = NoHistory
  <2>1. <<>> \in Seq(Entries) /\ Len(<<>>) = 0 BY EmptySeq
  <2> QED BY <2>1, RecoveredSteps
<1>2. ASSUME NEW j \in Seq(Entries) PROVE Recovered(j) \in Recoveries
  <2>1. Len(j) \in Nat BY LenProperties
  <2>2. Len(j) \in 0..Len(j) BY <2>1
  <2> QED BY <2>2, RecoveredSteps
<1>3. ASSUME NEW j \in Seq(Entries), NEW r \in Entries
      PROVE  Recovered(Append(j, r)) = RecoverRecord(Recovered(j), r)
  <2> DEFINE q == Append(j, r)
             n == Len(j)
  <2>1. /\ q \in Seq(Entries) /\ n \in Nat /\ Len(q) = n + 1 /\ q[n + 1] = r
        /\ \A k \in 1..n : q[k] = j[k]
    BY AppendProperties, LenProperties
  <2> HIDE DEF q
  <2>2. PICK f : /\ f[0] = NoHistory /\ Recovered(j) = f[n]
                 /\ \A k \in 1..n : f[k] = RecoverRecord(f[k - 1], j[k])
    BY RecoveredSteps
  <2>3. PICK g : /\ g[0] = NoHistory /\ Recovered(q) = g[Len(q)]
                 /\ \A k \in 1..Len(q) : g[k] = RecoverRecord(g[k - 1], q[k])
    BY <2>1, RecoveredSteps
  <2> HIDE DEF n
  <2> DEFINE T == {k \in 0..n : f[k] = g[k]}
  <2>4. 0 \in T BY <2>1, <2>2, <2>3
  <2>5. ASSUME NEW k \in 1..n, k - 1 \in T PROVE k \in T
    <3>1. k \in 1..Len(q) /\ q[k] = j[k] /\ f[k - 1] = g[k - 1] BY <2>1, <2>5
    <3>2. g[k] = RecoverRecord(g[k - 1], q[k]) /\ f[k] = RecoverRecord(f[k - 1], j[k])
      BY <2>2, <2>3, <3>1
    <3> QED BY <3>1, <3>2
  <2>6. 0..n \subseteq T
    <3> HIDE DEF T
    <3> QED BY <2>1, <2>4, <2>5, HoldsUpTo
  <2>7. f[n] = g[n] /\ n + 1 \in 1..Len(q) /\ (n + 1) - 1 = n BY <2>1, <2>6
  <2>8. g[n + 1] = RecoverRecord(g[n], r) BY <2>1, <2>3, <2>7
  <2> QED BY <2>1, <2>2, <2>3, <2>7, <2>8 DEF q
<1> QED BY <1>1, <1>2, <1>3

-----------------------------------------------------------------------------
(* A journal with another record *)

Concerns(r, l) == Creates(r, l) \/ IsPointOf(r, l) \/ IsStrokeOf(r, l)

LEMMA WithAnother ==
  ASSUME NEW j \in Seq(Entries), NEW r \in Entries
  PROVE  LET q == Append(j, r)
             n == Len(j)
         IN  /\ q \in Seq(Entries) /\ n \in Nat /\ n + 1 \in DOMAIN q /\ n + 1 \notin DOMAIN j
             /\ DOMAIN q = DOMAIN j \union {n + 1} /\ q[n + 1] = r
             /\ \A k \in DOMAIN j : k \in DOMAIN q /\ q[k] = j[k] /\ k < n + 1 /\ k \in Nat
             /\ Last0(q) = r.at
             /\ \A l \in Line : l \in Recorded(q) <=> l \in Recorded(j) \/ Creates(r, l)
             /\ \A l : StrokesOf(q, l) = StrokesOf(j, l) \union IF IsStrokeOf(r, l) THEN {n + 1} ELSE {}
<1> DEFINE q == Append(j, r)
           n == Len(j)
<1>1. n \in Nat /\ DOMAIN j = 1..n BY LenProperties
<1>2. q \in Seq(Entries) /\ Len(q) = n + 1 /\ q[n + 1] = r /\ \A k \in 1..n : q[k] = j[k]
  BY AppendProperties
<1> HIDE DEF q, n
<1>3. DOMAIN q = 1..n + 1 BY <1>2, LenProperties
<1>4. /\ DOMAIN q = DOMAIN j \union {n + 1} /\ n + 1 \notin DOMAIN j
      /\ \A k \in DOMAIN j : k \in DOMAIN q /\ q[k] = j[k] /\ k < n + 1 /\ k \in Nat
  BY <1>1, <1>2, <1>3
<1>5. Last0(q) = r.at
  <2>1. q # <<>> BY <1>1, <1>2, EmptySeq
  <2> QED BY <1>2, <2>1 DEF Last0, Last
<1>6. ASSUME NEW l \in Line PROVE l \in Recorded(q) <=> l \in Recorded(j) \/ Creates(r, l)
  BY <1>2, <1>4 DEF Recorded
<1>7. ASSUME NEW l
      PROVE  StrokesOf(q, l) = StrokesOf(j, l) \union IF IsStrokeOf(r, l) THEN {n + 1} ELSE {}
  BY <1>2, <1>4 DEF StrokesOf
<1> QED BY <1>1, <1>2, <1>4, <1>5, <1>6, <1>7 DEF q, n

LEMMA WithRecord ==
  ASSUME NEW j \in Seq(Entries), NEW r \in Entries, NEW l, ~IsStrokeOf(r, l)
  PROVE  StrokesOf(Append(j, r), l) = StrokesOf(j, l)
<1> DEFINE q == Append(j, r)
           n == Len(j)
<1>1. /\ DOMAIN q = DOMAIN j \union {n + 1} /\ q[n + 1] = r
      /\ \A k \in DOMAIN j : k \in DOMAIN q /\ q[k] = j[k]
  BY WithAnother
<1> HIDE DEF q, n
<1>2. StrokesOf(q, l) = StrokesOf(j, l) BY <1>1 DEF StrokesOf
<1> QED BY <1>2 DEF q

\* A record that is of other lines changes nothing for this one.
LEMMA OthersDoNotMatter ==
  ASSUME NEW j \in Seq(Entries), NEW r \in Entries, NEW l, ~Concerns(r, l)
  PROVE  /\ \A start, end, curve :
              Whole(j, l, start, end, curve) => Whole(Append(j, r), l, start, end, curve)
         /\ Finished(j, l) => Finished(Append(j, r), l)
         /\ StrokesOf(Append(j, r), l) = StrokesOf(j, l)
<1> DEFINE q == Append(j, r)
           n == Len(j)
<1>1. /\ DOMAIN q = DOMAIN j \union {n + 1} /\ q[n + 1] = r
      /\ \A k \in DOMAIN j : k \in DOMAIN q /\ q[k] = j[k] /\ k < n + 1
      /\ StrokesOf(q, l) = StrokesOf(j, l) \union IF IsStrokeOf(r, l) THEN {n + 1} ELSE {}
  BY WithAnother
<1>2. PointsOf(q, l) = PointsOf(j, l) BY PointsOfGrows DEF Concerns, OnePoint
<1>3. StrokesOf(q, l) = StrokesOf(j, l) BY <1>1 DEF Concerns
<1> HIDE DEF q, n
<1>4. \A k \in DOMAIN q : Creates(q[k], l) \/ IsPointOf(q[k], l) => k \in DOMAIN j
  BY <1>1 DEF Concerns
<1>5. ASSUME NEW start, NEW end, NEW curve, Whole(j, l, start, end, curve)
      PROVE  Whole(q, l, start, end, curve)
  BY <1>1, <1>2, <1>4, <1>5 DEF Whole
<1>6. ASSUME Finished(j, l) PROVE Finished(q, l)
  <2>1. PICK k \in DOMAIN j : /\ StrokesOf(j, l) = {k}
                              /\ Whole(j, l, j[k].start, j[k].end, j[k].curve)
                              /\ \A i \in DOMAIN j : IsPointOf(j[i], l) => i < k
    BY <1>6 DEF Finished
  <2>2. k \in DOMAIN q /\ q[k] = j[k] BY <1>1
  <2>3. Whole(q, l, q[k].start, q[k].end, q[k].curve) BY <1>5, <2>1, <2>2
  <2>4. \A i \in DOMAIN q : IsPointOf(q[i], l) => i < k BY <1>1, <1>4, <2>1
  <2> QED BY <1>3, <2>1, <2>2, <2>3, <2>4 DEF Finished
<1> QED BY <1>3, <1>5, <1>6 DEF q

\* What a record must say of the one line that it is about.
LEMMA OneLineChanges ==
  ASSUME NEW o, NEW c, NEW j, LinesOK(o, c, j), NEW r \in Entries, Last0(j) <= r.at,
         NEW o2 \in [Socket -> Strokes], NEW c2 \in Boards(Curves), NEW l,
         \A k \in Line : Concerns(r, k) => k = l,
         \A s \in Socket : o[s].id \notin {None, l} => o2[s] = o[s],
         \A s \in Socket : o2[s].id \notin {None, l} => o2[s] = o[s] /\ c2[o[s].id] = c[o[s].id],
         DOMAIN c2 = {o2[s].id : s \in Socket} \ {None},
         \A s, u \in Socket : o2[s].id # None /\ o2[s].id = l /\ o2[u].id = l => s = u,
         \A s \in Socket : o2[s].id # None /\ o2[s].id = l => Open(Append(j, r), o2[s], c2[l]),
         l \in Recorded(Append(j, r)) =>
           (\E s \in Socket : o2[s].id = l) \/ Finished(Append(j, r), l),
         Creates(r, l) => l \notin Recorded(j),
         IsPointOf(r, l) \/ IsStrokeOf(r, l) => l \in Recorded(j)
  PROVE  LinesOK(o2, c2, Append(j, r))
<1> DEFINE q == Append(j, r)
           n == Len(j)
<1>1. j \in Seq(Entries) /\ o \in [Socket -> Strokes] BY DEF LinesOK
<1>2. /\ q \in Seq(Entries) /\ n \in Nat /\ n + 1 \in DOMAIN q /\ n + 1 \notin DOMAIN j
      /\ DOMAIN q = DOMAIN j \union {n + 1} /\ q[n + 1] = r
      /\ \A k \in DOMAIN j : k \in DOMAIN q /\ q[k] = j[k] /\ k < n + 1
      /\ Last0(q) = r.at
      /\ \A k \in Line : k \in Recorded(q) <=> k \in Recorded(j) \/ Creates(r, k)
  BY <1>1, WithAnother
<1>3. \A k \in Line : k # l => ~Concerns(r, k) OBVIOUS
<1>4. ASSUME NEW k \in Line, k # l
      PROVE  /\ \A start, end, curve : Whole(j, k, start, end, curve) => Whole(q, k, start, end, curve)
             /\ Finished(j, k) => Finished(q, k) /\ StrokesOf(q, k) = StrokesOf(j, k)
             /\ StrokesOf(q, k) = StrokesOf(j, k)
  BY <1>1, <1>3, <1>4, OthersDoNotMatter
<1> HIDE DEF q, n
<1>5. \A k \in DOMAIN q : q[k].at <= Last0(q)
  <2> SUFFICES ASSUME NEW k \in DOMAIN q PROVE q[k].at <= Last0(q) OBVIOUS
  <2>1. CASE k \in DOMAIN j
    <3>1. j[k] \in Entries /\ j # <<>> BY <1>1, <2>1, ElementOfSeq, LenProperties, EmptySeq
    <3>2. j[k].at \in Nat /\ Last0(j) \in Nat /\ r.at \in Nat
      <4>1. Last(j) \in Entries BY <1>1, <3>1, LenProperties, ElementOfSeq, EmptySeq DEF Last
      <4> QED BY <3>1, <4>1, EntryFields DEF Last0
    <3>3. j[k].at <= Last0(j) BY <2>1 DEF LinesOK
    <3> QED BY <1>2, <2>1, <3>2, <3>3
  <2>2. CASE k = n + 1
    <3>1. r.at \in Nat BY EntryFields
    <3> QED BY <1>2, <2>2, <3>1
  <2> QED BY <1>2, <2>1, <2>2
<1>6. ASSUME NEW s \in Socket, NEW u \in Socket, o2[s].id # None, o2[s].id = o2[u].id PROVE s = u
  <2>1. CASE o2[s].id = l BY <1>6, <2>1
  <2>2. CASE o2[s].id # l
    <3>1. o2[s] = o[s] /\ o2[u] = o[u] BY <1>6, <2>2
    <3> QED BY <1>6, <3>1 DEF LinesOK
  <2> QED BY <2>1, <2>2
<1>7. ASSUME NEW k \in Line, NEW i \in DOMAIN q, IsPointOf(q[i], k) \/ IsStrokeOf(q[i], k)
      PROVE  k \in Recorded(q)
  <2>1. CASE i \in DOMAIN j
    <3>1. k \in Recorded(j) BY <1>2, <1>7, <2>1 DEF LinesOK
    <3> QED BY <1>2, <3>1
  <2>2. CASE i = n + 1
    <3>1. IsPointOf(r, k) \/ IsStrokeOf(r, k) BY <1>2, <1>7, <2>2
    <3>2. k = l BY <3>1 DEF Concerns
    <3> QED BY <1>2, <3>1, <3>2
  <2> QED BY <1>2, <2>1, <2>2
<1>8. ASSUME NEW k \in Line, NEW a \in DOMAIN q, NEW b \in DOMAIN q, Creates(q[a], k), Creates(q[b], k)
      PROVE  a = b
  <2>1. ASSUME NEW i \in DOMAIN j, Creates(q[i], k), Creates(r, k) PROVE FALSE
    <3>1. k = l BY <2>1 DEF Concerns
    <3>2. k \in Recorded(j) BY <1>2, <2>1 DEF Recorded
    <3> QED BY <2>1, <3>1, <3>2
  <2>2. CASE a \in DOMAIN j /\ b \in DOMAIN j
    <3>1. Creates(j[a], k) /\ Creates(j[b], k) BY <1>2, <1>8, <2>2
    <3> QED BY <2>2, <3>1 DEF LinesOK
  <2>3. CASE a \in DOMAIN j /\ b = n + 1 BY <1>2, <1>8, <2>1, <2>3
  <2>4. CASE a = n + 1 /\ b \in DOMAIN j BY <1>2, <1>8, <2>1, <2>4
  <2> QED BY <1>2, <2>2, <2>3, <2>4
<1>9. ASSUME NEW s \in Socket, o2[s].id # None PROVE Open(q, o2[s], c2[o2[s].id])
  <2>1. CASE o2[s].id = l BY <1>9, <2>1 DEF q
  <2>2. CASE o2[s].id # l
    <3>1. o2[s] = o[s] /\ c2[o[s].id] = c[o[s].id] BY <1>9, <2>2
    <3>2. Open(j, o[s], c[o[s].id]) BY <1>9, <3>1 DEF LinesOK
    <3>3. o[s].id \in Line /\ o[s].id # l BY <1>9, <2>2, <3>1, StrokeFields
    <3>4. o[s].id \in Recorded(q) BY <1>2, <3>2, <3>3 DEF Open
    <3>5. StrokesOf(q, o[s].id) = {} BY <1>4, <3>2, <3>3 DEF Open
    <3>6. Whole(q, o[s].id, o[s].start, o[s].end, c[o[s].id]) BY <1>4, <3>2, <3>3 DEF Open
    <3> QED BY <3>1, <3>4, <3>5, <3>6 DEF Open
  <2> QED BY <2>1, <2>2
<1>10. ASSUME NEW k \in Recorded(q), \A s \in Socket : o2[s].id # k PROVE Finished(q, k)
  <2>1. CASE k = l BY <1>10, <2>1 DEF q
  <2>2. CASE k # l
    <3>1. k \in Line BY DEF Recorded
    <3>2. k \in Recorded(j) BY <1>2, <1>3, <2>2, <3>1 DEF Concerns
    <3>3. \A s \in Socket : o[s].id # k
      <4> SUFFICES ASSUME NEW s \in Socket, o[s].id = k PROVE FALSE OBVIOUS
      <4>1. o2[s] = o[s] BY <2>2, <3>1, LineIsFinite
      <4> QED BY <1>10, <4>1
    <3>4. Finished(j, k) BY <3>2, <3>3 DEF LinesOK
    <3> QED BY <1>4, <2>2, <3>1, <3>4
  <2> QED BY <2>1, <2>2
<1>11. LinesOK(o2, c2, q)
  BY <1>2, <1>5, <1>6, <1>7, <1>8, <1>9, <1>10 DEF LinesOK
<1> QED BY <1>11 DEF q

LEMMA NoPoints ==
  ASSUME NEW j \in Seq(Entries), NEW l, \A k \in DOMAIN j : ~IsPointOf(j[k], l)
  PROVE  PointsOf(j, l) = <<>>
<1>1. Len(j) \in Nat /\ DOMAIN j = 1..Len(j) BY LenProperties
<1>2. PICK f : /\ f \in [0..Len(j) -> Curves] /\ f[0] = <<>> /\ PointsOf(j, l) = f[Len(j)]
               /\ \A k \in 1..Len(j) : f[k] = OnePoint(f[k - 1], j[k], l)
  BY PointsOfSteps
<1> DEFINE T == {k \in 0..Len(j) : f[k] = <<>>}
<1>3. 0 \in T BY <1>1, <1>2
<1>4. ASSUME NEW k \in 1..Len(j), k - 1 \in T PROVE k \in T
  <2>1. ~IsPointOf(j[k], l) /\ f[k - 1] = <<>> BY <1>1, <1>4
  <2> QED BY <1>1, <1>2, <2>1 DEF OnePoint
<1>5. 0..Len(j) \subseteq T
  <2> HIDE DEF T
  <2> QED BY <1>1, <1>3, <1>4, HoldsUpTo
<1> QED BY <1>1, <1>2, <1>5

LEMMA ConcernsOne ==
  ASSUME NEW r \in Entries, NEW k, Concerns(r, k)
  PROVE  /\ k \in Line /\ r.kind \in {"mutation", "stroke"}
         /\ r.kind = "mutation" => k = r.m.id /\ r.m.type \in {"create", "append"}
         /\ r.kind = "stroke" => k = r.id /\ IsStrokeOf(r, k)
         /\ Creates(r, k) \/ IsPointOf(r, k) => r.kind = "mutation"
         /\ Creates(r, k) => r.m.type = "create"
         /\ IsPointOf(r, k) => r.m.type = "append"
         /\ IsStrokeOf(r, k) => r.kind = "stroke"
  BY EntryFields, MutationFields DEF Concerns, Creates, IsPointOf, IsStrokeOf, IsMutation

\* Last0 bounds every moment of the journal.
LEMMA Moments0 ==
  ASSUME NEW o, NEW c, NEW j, LinesOK(o, c, j), NEW at \in Nat, Last0(j) <= at
  PROVE  Last0(j) \in Nat /\ \A k \in DOMAIN j : j[k].at \in Nat /\ j[k].at <= at
<1>1. j \in Seq(Entries) BY DEF LinesOK
<1>2. Last0(j) \in Nat
  <2>1. CASE j = <<>> BY <2>1 DEF Last0
  <2>2. CASE j # <<>>
    <3>1. Last(j) \in Entries BY <1>1, <2>2, LenProperties, ElementOfSeq, EmptySeq DEF Last
    <3> QED BY <2>2, <3>1, EntryFields DEF Last0
  <2> QED BY <2>1, <2>2
<1>3. ASSUME NEW k \in DOMAIN j PROVE j[k].at \in Nat /\ j[k].at <= at
  <2>1. j[k] \in Entries BY <1>1, <1>3, ElementOfSeq, LenProperties
  <2>2. j[k].at \in Nat /\ j[k].at <= Last0(j) BY <2>1, EntryFields DEF LinesOK
  <2> QED BY <1>2, <2>2
<1> QED BY <1>2, <1>3

LEMMA NeutralRecord ==
  ASSUME NEW o, NEW c, NEW j, LinesOK(o, c, j), NEW r \in Entries, Last0(j) <= r.at,
         \A k \in Line : ~Concerns(r, k)
  PROVE  LinesOK(o, c, Append(j, r))
<1>1. o \in [Socket -> Strokes] /\ c \in Boards(Curves) /\ j \in Seq(Entries)
      /\ DOMAIN c = {o[s].id : s \in Socket} \ {None}
  BY DEF LinesOK
<1>2. ~Concerns(r, None) BY ConcernsOne, LineIsFinite
<1>3. None \notin Recorded(Append(j, r)) BY LineIsFinite DEF Recorded
<1>4. \A k \in Line : Concerns(r, k) => k = None OBVIOUS
<1>5. /\ \A s \in Socket : o[s].id \notin {None, None} => o[s] = o[s]
      /\ \A s \in Socket : o[s].id \notin {None, None} => o[s] = o[s] /\ c[o[s].id] = c[o[s].id]
      /\ \A s, u \in Socket : o[s].id # None /\ o[s].id = None /\ o[u].id = None => s = u
      /\ \A s \in Socket : o[s].id # None /\ o[s].id = None => Open(Append(j, r), o[s], c[None])
  OBVIOUS
<1>6. /\ Creates(r, None) => None \notin Recorded(j)
      /\ IsPointOf(r, None) \/ IsStrokeOf(r, None) => None \in Recorded(j)
  BY <1>2 DEF Concerns
<1>7. None \in Recorded(Append(j, r)) =>
        (\E s \in Socket : o[s].id = None) \/ Finished(Append(j, r), None)
  BY <1>3
<1> QED BY <1>1, <1>4, <1>5, <1>6, <1>7, OneLineChanges

LEMMA StrokeCloses ==
  ASSUME NEW o, NEW c, NEW j, LinesOK(o, c, j), NEW s \in Socket, o[s].id # None,
         NEW at \in Nat, Last0(j) <= at, NEW reason
  PROVE  LET r == StrokeRecord(c, o[s], at, reason)
         IN  /\ r \in Entries /\ r.kind = "stroke" /\ r.at = at
             /\ LinesOK([o EXCEPT ![s] = NoStroke], Without(c, {o[s].id}), Append(j, r))
<1> DEFINE l  == o[s].id
           r  == StrokeRecord(c, o[s], at, reason)
           o2 == [o EXCEPT ![s] = NoStroke]
           c2 == Without(c, {l})
           q  == Append(j, r)
           n  == Len(j)
<1>1. /\ o \in [Socket -> Strokes] /\ c \in Boards(Curves) /\ j \in Seq(Entries)
      /\ DOMAIN c = {o[u].id : u \in Socket} \ {None}
      /\ \A u, v \in Socket : o[u].id # None /\ o[u].id = o[v].id => u = v
      /\ Open(j, o[s], c[l])
  BY DEF LinesOK
<1>2. /\ o[s] \in Strokes /\ l \in Line /\ l \in Recorded(j) /\ o[s].start \in Nat
      /\ o[s].end \in Nat /\ l \in DOMAIN c /\ c[l] \in Curves
  <2>1. o[s] \in Strokes /\ l \in Line BY <1>1, StrokeFields
  <2>2. l \in DOMAIN c BY <1>1
  <2> QED BY <1>1, <2>1, <2>2, StrokeFields, BoardIs DEF Open
<1>3. /\ r \in Entries /\ r.kind = "stroke" /\ r.at = at /\ r.id = l /\ r.start = o[s].start
      /\ r.curve = c[l] /\ r.end = IF reason = "release" THEN at ELSE o[s].end
  BY <1>2 DEF StrokeRecord, Entries
<1>4. NoStroke \in Strokes /\ NoStroke.id = None BY StrokeFields DEF Strokes
<1>5. o2 \in [Socket -> Strokes] /\ o2[s] = NoStroke /\ \A u \in Socket : u # s => o2[u] = o[u]
  BY <1>1, <1>4
<1>6. /\ c2 \in Boards(Curves) /\ DOMAIN c2 = DOMAIN c \ {l}
      /\ \A k \in DOMAIN c \ {l} : c2[k] = c[k]
  BY <1>1, WithoutIs, WithoutDomain
<1>7. \A u \in Socket : o2[u].id # l BY <1>1, <1>2, <1>4, <1>5, LineIsFinite
<1>8. DOMAIN c2 = {o2[u].id : u \in Socket} \ {None}
  <2>1. \A k \in DOMAIN c2 : k # None /\ \E u \in Socket : o2[u].id = k
    BY <1>1, <1>5, <1>6
  <2>2. ASSUME NEW u \in Socket, o2[u].id # None PROVE o2[u].id \in DOMAIN c2
    <3>1. u # s BY <1>4, <1>5, <2>2
    <3>2. o2[u].id = o[u].id /\ o[u].id \in DOMAIN c BY <1>1, <1>5, <2>2, <3>1
    <3> QED BY <1>6, <1>7, <3>2
  <2> QED BY <2>1, <2>2
<1> HIDE DEF r, o2, c2
<1>9. \A k \in Line : Concerns(r, k) => k = l BY <1>3, ConcernsOne
<1>10. ~Creates(r, l) /\ ~IsPointOf(r, l) /\ IsStrokeOf(r, l)
  BY <1>3 DEF Creates, IsPointOf, IsStrokeOf, IsMutation
<1>11. /\ q \in Seq(Entries) /\ n \in Nat /\ n + 1 \in DOMAIN q
       /\ DOMAIN q = DOMAIN j \union {n + 1} /\ q[n + 1] = r
       /\ \A k \in DOMAIN j : k \in DOMAIN q /\ q[k] = j[k] /\ k < n + 1
       /\ StrokesOf(q, l) = StrokesOf(j, l) \union {n + 1}
  BY <1>1, <1>3, <1>10, WithAnother
<1>12. PointsOf(q, l) = PointsOf(j, l) BY <1>1, <1>3, <1>10, PointsOfGrows DEF OnePoint
<1> HIDE DEF q, n
<1>13. Finished(q, l)
  <2>1. StrokesOf(q, l) = {n + 1} BY <1>1, <1>11 DEF Open
  <2>2. \A k \in DOMAIN q : Creates(q[k], l) \/ IsPointOf(q[k], l) => k \in DOMAIN j
    BY <1>10, <1>11
  <2>3. \A k \in DOMAIN q : Creates(q[k], l) => q[k].at = r.start
    BY <1>1, <1>3, <1>11, <2>2 DEF Open, Whole
  <2>4. \A k \in DOMAIN q : IsPointOf(q[k], l) => q[k].at <= r.end
    <3> SUFFICES ASSUME NEW k \in DOMAIN q, IsPointOf(q[k], l) PROVE q[k].at <= r.end OBVIOUS
    <3>1. k \in DOMAIN j /\ IsPointOf(j[k], l) /\ q[k] = j[k] BY <1>11, <2>2
    <3>2. j[k].at <= at BY <3>1, Moments0
    <3>3. j[k].at <= o[s].end BY <1>1, <3>1 DEF Open, Whole
    <3> QED BY <1>3, <3>1, <3>2, <3>3
  <2>5. r.curve = PencilCurve(PointsOf(q, l)) BY <1>1, <1>3, <1>12 DEF Open, Whole
  <2>6. Whole(q, l, r.start, r.end, r.curve) BY <2>3, <2>4, <2>5 DEF Whole
  <2>7. \A i \in DOMAIN q : IsPointOf(q[i], l) => i < n + 1 BY <1>11, <2>2
  <2> QED BY <1>11, <2>1, <2>6, <2>7 DEF Finished
<1>14. \A u \in Socket : o[u].id \notin {None, l} => o2[u] = o[u] BY <1>5
<1>15. ASSUME NEW u \in Socket, o2[u].id \notin {None, l}
       PROVE  o2[u] = o[u] /\ c2[o[u].id] = c[o[u].id]
  <2>1. o2[u] = o[u] BY <1>4, <1>5, <1>15
  <2>2. o[u].id \in DOMAIN c \ {l} BY <1>1, <1>15, <2>1
  <2> QED BY <1>6, <2>1, <2>2
<1>16. LinesOK(o2, c2, q)
  <2>1. \A u, v \in Socket : o2[u].id # None /\ o2[u].id = l /\ o2[v].id = l => u = v
    BY <1>7
  <2>2. \A u \in Socket : o2[u].id # None /\ o2[u].id = l => Open(Append(j, r), o2[u], c2[l])
    BY <1>7
  <2>3. l \in Recorded(Append(j, r)) =>
          (\E u \in Socket : o2[u].id = l) \/ Finished(Append(j, r), l)
    BY <1>13 DEF q
  <2>4. Last0(j) <= r.at BY <1>3
  <2>5. Creates(r, l) => l \notin Recorded(j) BY <1>10
  <2>6. IsPointOf(r, l) \/ IsStrokeOf(r, l) => l \in Recorded(j) BY <1>2
  <2> HIDE DEF l
  <2> QED
    BY <1>3, <1>5, <1>6, <1>8, <1>9, <1>14, <1>15, <2>1, <2>2, <2>3, <2>4, <2>5, <2>6,
       OneLineChanges DEF q
<1> QED BY <1>3, <1>16 DEF r, o2, c2, q

LEMMA LineBegins ==
  ASSUME NEW o, NEW c, NEW j, LinesOK(o, c, j), NEW s \in Socket, o[s].id = None,
         NEW l \in Line, l \notin Recorded(j), NEW r \in Entries, Creates(r, l), Last0(j) <= r.at
  PROVE  LinesOK([o EXCEPT ![s] = [id |-> l, start |-> r.at, end |-> r.at]],
                 With(c, l, <<>>), Append(j, r))
<1> DEFINE x  == [id |-> l, start |-> r.at, end |-> r.at]
           o2 == [o EXCEPT ![s] = x]
           c2 == With(c, l, <<>>)
           q  == Append(j, r)
           n  == Len(j)
<1>1. /\ o \in [Socket -> Strokes] /\ c \in Boards(Curves) /\ j \in Seq(Entries)
      /\ DOMAIN c = {o[u].id : u \in Socket} \ {None}
      /\ \A u \in Socket : o[u].id # None => o[u].id \in Recorded(j)
      /\ \A k \in DOMAIN j : ~IsPointOf(j[k], l) /\ ~IsStrokeOf(j[k], l)
  BY DEF LinesOK, Open
<1>2. \A u \in Socket : o[u].id # l BY <1>1, LineIsFinite
<1>3. x \in Strokes /\ x.id = l /\ x.start = r.at /\ x.end = r.at BY EntryFields DEF Strokes
<1>4. o2 \in [Socket -> Strokes] /\ o2[s] = x /\ \A u \in Socket : u # s => o2[u] = o[u]
  BY <1>1, <1>3
<1>5. /\ c2 \in Boards(Curves) /\ DOMAIN c2 = {l} \union DOMAIN c /\ c2[l] = <<>>
      /\ \A k \in DOMAIN c : k # l => c2[k] = c[k]
  <2> DEFINE e == <<>>
  <2>1. e \in Curves BY EmptySeq DEF Curves
  <2> HIDE DEF e
  <2>2. With(c, l, e) \in Boards(Curves) BY <1>1, <2>1, WithIs
  <2>3. /\ DOMAIN With(c, l, e) = {l} \union DOMAIN c /\ With(c, l, e)[l] = e
        /\ \A k \in DOMAIN c : k # l => With(c, l, e)[k] = c[k]
    BY DEF With
  <2> QED BY <2>2, <2>3 DEF e
<1>6. \A u \in Socket : o2[u].id = l <=> u = s BY <1>2, <1>3, <1>4
<1>7. DOMAIN c2 = {o2[u].id : u \in Socket} \ {None}
  <2>1. ASSUME NEW k \in DOMAIN c2 PROVE k # None /\ \E u \in Socket : o2[u].id = k
    <3>1. CASE k = l BY <1>6, <3>1, LineIsFinite
    <3>2. CASE k # l
      <4>1. k \in DOMAIN c BY <1>5, <2>1, <3>2
      <4>2. PICK u \in Socket : o[u].id = k /\ k # None BY <1>1, <4>1
      <4>3. u # s BY <4>2
      <4> QED BY <1>4, <4>2, <4>3
    <3> QED BY <3>1, <3>2
  <2>2. ASSUME NEW u \in Socket, o2[u].id # None PROVE o2[u].id \in DOMAIN c2
    <3>1. CASE u = s BY <1>3, <1>4, <1>5, <3>1
    <3>2. CASE u # s BY <1>1, <1>4, <1>5, <2>2, <3>2
    <3> QED BY <3>1, <3>2
  <2> HIDE DEF x, o2, c2
  <2> QED BY <2>1, <2>2
<1> HIDE DEF x, o2, c2
<1>8. /\ r.kind = "mutation" /\ r.m.type = "create" /\ r.m.id = l
      /\ ~IsPointOf(r, l) /\ ~IsStrokeOf(r, l)
  BY DEF Creates, IsMutation, IsPointOf, IsStrokeOf
<1>9. \A k \in Line : Concerns(r, k) => k = l BY <1>8, ConcernsOne
<1>10. /\ q \in Seq(Entries) /\ n \in Nat /\ n + 1 \in DOMAIN q
       /\ DOMAIN q = DOMAIN j \union {n + 1} /\ q[n + 1] = r
       /\ \A k \in DOMAIN j : k \in DOMAIN q /\ q[k] = j[k] /\ k < n + 1
       /\ l \in Recorded(q)
  BY <1>1, <1>8, WithAnother
<1>16. StrokesOf(q, l) = StrokesOf(j, l) BY <1>1, <1>8, WithRecord
<1>11. PointsOf(q, l) = <<>>
  <2>1. PointsOf(j, l) = <<>> BY <1>1, NoPoints
  <2> QED BY <1>1, <1>8, <2>1, PointsOfGrows DEF OnePoint
<1> HIDE DEF q, n
<1>12. Open(q, x, <<>>)
  <2>1. \A k \in DOMAIN q : Creates(q[k], l) => q[k].at = r.at
    <3>1. \A k \in DOMAIN j : ~Creates(j[k], l) BY DEF Recorded
    <3> QED BY <1>10, <3>1
  <2>2. \A k \in DOMAIN q : ~IsPointOf(q[k], l) BY <1>1, <1>8, <1>10
  <2>3. StrokesOf(q, l) = {} BY <1>1, <1>16 DEF StrokesOf
  <2>4. <<>> = PencilCurve(PointsOf(q, l)) BY <1>11, PencilCurveGrows
  <2>5. Whole(q, l, r.at, r.at, <<>>) BY <2>1, <2>2, <2>4 DEF Whole
  <2> QED BY <1>3, <1>10, <2>3, <2>5 DEF Open
<1>13. \A u \in Socket : o[u].id \notin {None, l} => o2[u] = o[u] BY <1>4
<1>14. ASSUME NEW u \in Socket, o2[u].id \notin {None, l}
       PROVE  o2[u] = o[u] /\ c2[o[u].id] = c[o[u].id]
  <2>1. o2[u] = o[u] BY <1>4, <1>6, <1>14
  <2>2. o[u].id \in DOMAIN c /\ o[u].id # l BY <1>1, <1>2, <1>14, <2>1
  <2> QED BY <1>5, <2>1, <2>2
<1>15. LinesOK(o2, c2, q)
  <2>1. \A u, v \in Socket : o2[u].id # None /\ o2[u].id = l /\ o2[v].id = l => u = v
    BY <1>6
  <2>2. \A u \in Socket : o2[u].id # None /\ o2[u].id = l => Open(Append(j, r), o2[u], c2[l])
    BY <1>4, <1>5, <1>6, <1>12 DEF q
  <2>3. l \in Recorded(Append(j, r)) =>
          (\E u \in Socket : o2[u].id = l) \/ Finished(Append(j, r), l)
    BY <1>6
  <2>4. IsPointOf(r, l) \/ IsStrokeOf(r, l) => l \in Recorded(j) BY <1>8
  <2>5. Creates(r, l) => l \notin Recorded(j) OBVIOUS
  <2> QED
    BY <1>4, <1>5, <1>7, <1>9, <1>13, <1>14, <2>1, <2>2, <2>3, <2>4, <2>5, OneLineChanges DEF q
<1> QED BY <1>15 DEF o2, c2, q, x

LEMMA LineGoesOn ==
  ASSUME NEW o, NEW c, NEW j, LinesOK(o, c, j), NEW s \in Socket, NEW l \in Line, o[s].id = l,
         NEW r \in Entries, IsPointOf(r, l), Last0(j) <= r.at
  PROVE  LinesOK([o EXCEPT ![s] = [o[s] EXCEPT !.end = r.at]], Smooth(c, r.m), Append(j, r))
<1> DEFINE x  == [o[s] EXCEPT !.end = r.at]
           o2 == [o EXCEPT ![s] = x]
           c2 == Smooth(c, r.m)
           q  == Append(j, r)
           n  == Len(j)
<1>1. /\ o \in [Socket -> Strokes] /\ c \in Boards(Curves) /\ j \in Seq(Entries)
      /\ DOMAIN c = {o[u].id : u \in Socket} \ {None} /\ l # None
      /\ \A u, v \in Socket : o[u].id # None /\ o[u].id = o[v].id => u = v
      /\ Open(j, o[s], c[l]) /\ l \in DOMAIN c
  BY LineIsFinite DEF LinesOK
<1>2. /\ r.kind = "mutation" /\ r.m.type = "append" /\ r.m.id = l /\ r.m.point \in Point
      /\ r.at \in Nat /\ ~Creates(r, l) /\ ~IsStrokeOf(r, l)
  BY EntryFields, MutationFields DEF IsPointOf, IsMutation, Creates, IsStrokeOf
<1>3. x \in Strokes /\ x.id = l /\ x.start = o[s].start /\ x.end = r.at
  <2>1. o[s] \in [id : Line, start : Nat, end : Nat] BY <1>1, StrokeFields DEF Strokes
  <2> QED BY <1>2, <2>1 DEF Strokes
<1>4. o2 \in [Socket -> Strokes] /\ o2[s] = x /\ \A u \in Socket : u # s => o2[u] = o[u]
  BY <1>1, <1>3
<1>5. /\ c2 \in Boards(Curves) /\ DOMAIN c2 = DOMAIN c /\ c2[l] = AddPoint(c[l], r.m.point)
      /\ \A k \in DOMAIN c : k # l => c2[k] = c[k]
  BY <1>1, <1>2, SmoothType
<1>6. \A u \in Socket : o2[u].id = o[u].id /\ (o[u].id = l <=> u = s) BY <1>1, <1>3, <1>4
<1>7. DOMAIN c2 = {o2[u].id : u \in Socket} \ {None} BY <1>1, <1>5, <1>6
<1> HIDE DEF x, o2, c2
<1>8. \A k \in Line : Concerns(r, k) => k = l BY <1>2, ConcernsOne
<1>9. /\ q \in Seq(Entries) /\ n \in Nat /\ n + 1 \in DOMAIN q
      /\ DOMAIN q = DOMAIN j \union {n + 1} /\ q[n + 1] = r
      /\ \A k \in DOMAIN j : k \in DOMAIN q /\ q[k] = j[k] /\ k < n + 1
      /\ l \in Recorded(q) <=> l \in Recorded(j)
  BY <1>1, <1>2, WithAnother
<1>16. StrokesOf(q, l) = StrokesOf(j, l) BY <1>1, <1>2, WithRecord
<1>10. PencilCurve(PointsOf(q, l)) = AddPoint(c[l], r.m.point)
  <2>1. PointsOf(q, l) = Append(PointsOf(j, l), r.m.point) /\ PointsOf(j, l) \in Curves
    BY <1>1, PointsOfGrows DEF OnePoint
  <2>2. c[l] = PencilCurve(PointsOf(j, l)) BY <1>1 DEF Open, Whole
  <2> QED BY <1>2, <2>1, <2>2, PencilCurveGrows
<1>11. \A k \in DOMAIN j : j[k].at <= r.at BY <1>2, Moments0
<1> HIDE DEF q, n
<1>12. Open(q, x, c2[l])
  <2>1. \A k \in DOMAIN q : Creates(q[k], l) => q[k].at = x.start
    BY <1>1, <1>2, <1>3, <1>9 DEF Open, Whole
  <2>2. \A k \in DOMAIN q : IsPointOf(q[k], l) => q[k].at <= x.end BY <1>2, <1>3, <1>9, <1>11
  <2>3. c2[l] = PencilCurve(PointsOf(q, l)) BY <1>5, <1>10
  <2>4. Whole(q, l, x.start, x.end, c2[l]) BY <2>1, <2>2, <2>3 DEF Whole
  <2>5. l \in Recorded(q) /\ StrokesOf(q, l) = {} BY <1>1, <1>9, <1>16 DEF Open
  <2> QED BY <1>3, <2>4, <2>5 DEF Open
<1>13. \A u \in Socket : o[u].id \notin {None, l} => o2[u] = o[u] BY <1>4, <1>6
<1>14. ASSUME NEW u \in Socket, o2[u].id \notin {None, l}
       PROVE  o2[u] = o[u] /\ c2[o[u].id] = c[o[u].id]
  <2>1. o2[u] = o[u] BY <1>4, <1>6, <1>14
  <2>2. o[u].id \in DOMAIN c /\ o[u].id # l BY <1>1, <1>14, <2>1
  <2> QED BY <1>5, <2>1, <2>2
<1>15. LinesOK(o2, c2, q)
  <2>1. \A u, v \in Socket : o2[u].id # None /\ o2[u].id = l /\ o2[v].id = l => u = v
    BY <1>6
  <2>2. \A u \in Socket : o2[u].id # None /\ o2[u].id = l => Open(Append(j, r), o2[u], c2[l])
    BY <1>4, <1>6, <1>12 DEF q
  <2>3. l \in Recorded(Append(j, r)) =>
          (\E u \in Socket : o2[u].id = l) \/ Finished(Append(j, r), l)
    BY <1>6
  <2>4. IsPointOf(r, l) \/ IsStrokeOf(r, l) => l \in Recorded(j) BY <1>1 DEF Open
  <2>5. Creates(r, l) => l \notin Recorded(j) BY <1>2
  <2> QED
    BY <1>4, <1>5, <1>7, <1>8, <1>13, <1>14, <2>1, <2>2, <2>3, <2>4, <2>5, OneLineChanges DEF q
<1> QED BY <1>15 DEF o2, c2, q, x

-----------------------------------------------------------------------------
(* Steps of the history *)

\* A history from its strokes, curves and journal.
Made(o, c, j) == [strokes |-> o, curves |-> c, journal |-> j]

LEMMA MadeOK ==
  ASSUME NEW o, NEW c, NEW j, LinesOK(o, c, j), Recovered(j) = [strokes |-> o, curves |-> c]
  PROVE  HistoryOK(Made(o, c, j))
  BY DEF HistoryOK, Made, LinesOK, Recovers, Histories

LEMMA HistoryIs ==
  ASSUME NEW h, HistoryOK(h)
  PROVE  /\ h = Made(h.strokes, h.curves, h.journal) /\ LinesOK(h.strokes, h.curves, h.journal)
         /\ Recovered(h.journal) = [strokes |-> h.strokes, curves |-> h.curves]
         /\ h.strokes \in [Socket -> Strokes] /\ h.curves \in Boards(Curves)
         /\ h.journal \in Seq(Entries)
         /\ DOMAIN h.curves = {h.strokes[s].id : s \in Socket} \ {None}
         /\ [strokes |-> h.strokes, curves |-> h.curves] \in Recoveries /\ h \in Histories
  BY DEF HistoryOK, Made, LinesOK, Recovers, Histories, Recoveries

LEMMA ActiveEntry ==
  ASSUME NEW at \in Nat, NEW s \in Socket, NEW x \in Strokes
  PROVE  LET a == ActiveRecord(at, s, x)
         IN  /\ a \in Entries /\ a.kind = "active" /\ a.at = at /\ a.socket = s /\ a.stroke = x
             /\ \A k \in Line : ~Concerns(a, k)
             /\ \A k : ~Creates(a, k)
<1> DEFINE a == ActiveRecord(at, s, x)
<1>1. a \in Entries /\ a.kind = "active" /\ a.at = at /\ a.socket = s /\ a.stroke = x
  BY DEF ActiveRecord, Entries
<1> HIDE DEF a
<1>2. \A k : ~Concerns(a, k) BY <1>1 DEF Concerns, Creates, IsPointOf, IsStrokeOf, IsMutation
<1> QED BY <1>1, <1>2 DEF a, Concerns

LEMMA TwoRecords ==
  ASSUME NEW j \in Seq(Entries), NEW a \in Entries, NEW b \in Entries
  PROVE  j \o <<a, b>> = Append(Append(j, a), b)
<1> DEFINE p == j \o <<a, b>>
           q == Append(Append(j, a), b)
<1>1. <<a, b>> \in Seq(Entries) /\ Len(<<a, b>>) = 2 /\ <<a, b>>[1] = a /\ <<a, b>>[2] = b
  OBVIOUS
<1>2. Len(j) \in Nat BY LenProperties
<1> DEFINE ab == <<a, b>>
<1> HIDE DEF ab
<1>3. /\ j \o ab \in Seq(Entries) /\ Len(j \o ab) = Len(j) + 2
      /\ \A k \in 1..Len(j) + 2 : (j \o ab)[k] = IF k <= Len(j) THEN j[k] ELSE ab[k - Len(j)]
  BY <1>1, ConcatProperties DEF ab
<1>4. /\ Append(j, a) \in Seq(Entries) /\ Len(Append(j, a)) = Len(j) + 1
      /\ Append(j, a)[Len(j) + 1] = a /\ \A k \in 1..Len(j) : Append(j, a)[k] = j[k]
  BY AppendProperties
<1>5. /\ q \in Seq(Entries) /\ Len(q) = Len(j) + 2 /\ q[Len(j) + 2] = b
      /\ \A k \in 1..Len(j) + 1 : q[k] = Append(j, a)[k]
  BY <1>2, <1>4, AppendProperties
<1>6. ASSUME NEW k \in 1..Len(j) + 2 PROVE p[k] = q[k]
  <2>1. CASE k <= Len(j) BY <1>2, <1>3, <1>4, <1>5, <2>1 DEF ab
  <2>2. CASE k = Len(j) + 1 BY <1>1, <1>2, <1>3, <1>4, <1>5, <2>2 DEF ab
  <2>3. CASE k = Len(j) + 2 BY <1>1, <1>2, <1>3, <1>5, <2>3 DEF ab
  <2> QED BY <1>2, <2>1, <2>2, <2>3
<1>7. p \in Seq(Entries) /\ Len(p) = Len(q) BY <1>3, <1>5 DEF ab
<1> QED BY <1>3, <1>5, <1>6, <1>7, SeqEqual DEF ab

LEMMA FinishKeeps ==
  ASSUME NEW h, HistoryOK(h), NEW s \in Socket, NEW l, NEW at \in Nat, Last0(h.journal) <= at,
         NEW reason
  PROVE  LET f == FinishStroke(h, s, l, at, reason)
         IN  /\ HistoryOK(f) /\ Last0(f.journal) <= at
             /\ Recorded(f.journal) = Recorded(h.journal)
             /\ \A u \in Socket : f.strokes[u] = h.strokes[u] \/ (u = s /\ f.strokes[u] = NoStroke)
             /\ l = None => f.strokes[s] = NoStroke
             /\ h.strokes[s].id # None /\ h.strokes[s].id # l /\ l # None => f = h
<1> DEFINE o == h.strokes
           c == h.curves
           j == h.journal
           f == FinishStroke(h, s, l, at, reason)
<1>1. /\ h = Made(o, c, j) /\ LinesOK(o, c, j) /\ Recovered(j) = [strokes |-> o, curves |-> c]
      /\ o \in [Socket -> Strokes] /\ c \in Boards(Curves) /\ j \in Seq(Entries)
      /\ [strokes |-> o, curves |-> c] \in Recoveries /\ h \in Histories
  BY HistoryIs
<1>2. CASE o[s] = NoStroke \/ (l # None /\ o[s].id # l)
  <2>1. f = h BY <1>2 DEF FinishStroke
  <2>2. l = None => o[s] = NoStroke BY <1>2
  <2> QED BY <2>1, <2>2
<1>3. CASE ~(o[s] = NoStroke \/ (l # None /\ o[s].id # l))
  <2> DEFINE a == StrokeRecord(c, o[s], at, reason)
             b == ActiveRecord(at, s, NoStroke)
             o2 == [o EXCEPT ![s] = NoStroke]
             c2 == Without(c, {o[s].id})
             j1 == Append(j, a)
             j2 == Append(j1, b)
  <2>1. f = Made(o2, c2, j2)
    <3>1. f = [CloseFor(h, s, at, reason) EXCEPT
                 !.strokes[s] = NoStroke, !.journal = Append(@, ActiveRecord(at, s, NoStroke))]
      BY <1>3 DEF FinishStroke
    <3>2. CloseFor(h, s, at, reason) = [h EXCEPT !.journal = j1, !.curves = c2] BY DEF CloseFor
    <3> HIDE DEF j1, c2
    <3>3. CloseFor(h, s, at, reason) = Made(o, c2, j1) BY <1>1, <3>2 DEF Histories, Made
    <3>4. f = [Made(o, c2, j1) EXCEPT !.strokes[s] = NoStroke, !.journal = Append(j1, b)]
      BY <3>1, <3>3 DEF Made
    <3> HIDE DEF o, b, f
    <3> QED BY <3>4 DEF Made
  <2>2. o[s].id # None BY <1>1, <1>3, StrokeFields
  <2>3. a \in Entries /\ a.kind = "stroke" /\ a.at = at /\ LinesOK(o2, c2, j1)
    BY <1>1, <2>2, StrokeCloses
  <2>4. NoStroke \in Strokes /\ NoStroke.id = None BY StrokeFields DEF Strokes
  <2>5. b \in Entries /\ b.kind = "active" /\ b.at = at /\ b.socket = s /\ b.stroke = NoStroke
        /\ (\A k \in Line : ~Concerns(b, k)) /\ \A k : ~Creates(b, k)
    BY <2>4, ActiveEntry
  <2> HIDE DEF a, b
  <2>6. j1 \in Seq(Entries) /\ Last0(j1) = at /\ j2 \in Seq(Entries) /\ Last0(j2) = at
    BY <1>1, <2>3, <2>5, WithAnother
  <2>7. \A k \in Line : k \in Recorded(j2) <=> k \in Recorded(j)
    <3>1. \A k \in Line : k \in Recorded(j1) <=> k \in Recorded(j)
      <4>1. \A k : ~Creates(a, k) BY <2>3 DEF Creates, IsMutation
      <4> QED BY <1>1, <2>3, <4>1, WithAnother
    <3> QED BY <2>5, <2>6, <3>1, WithAnother
  <2>8. LinesOK(o2, c2, j2)
    <3> HIDE DEF o2, c2, j1
    <3> QED BY <2>3, <2>5, <2>6, NeutralRecord
  <2>9. Recovered(j2) = [strokes |-> o2, curves |-> c2]
    <3> DEFINE g == [strokes |-> o, curves |-> c]
    <3>1. Recovered(j) = g /\ g \in Recoveries BY <1>1
    <3> HIDE DEF o, c, j, g
    <3>3. Recovered(j1) = g
      BY <1>1, <2>3, <3>1, RecoveredGrows, RecoverRecordIs
    <3> HIDE DEF j1
    <3>4. Recovered(j2) = RecoverRecord(g, b)
      BY <2>5, <2>6, <3>3, RecoveredGrows
    <3>5. RecoverRecord(g, b) = Active(g, s, NoStroke) BY <2>5, <3>1, RecoverRecordIs
    <3>2. Recovered(j2) = Active([strokes |-> o, curves |-> c], s, NoStroke)
      BY <3>4, <3>5 DEF g
    <3> QED BY <2>2, <2>4, <3>2 DEF Active
  <2>10. HistoryOK(f)
    <3> HIDE DEF o2, c2, j2, f
    <3> QED BY <2>1, <2>8, <2>9, MadeOK
  <2>11. f.strokes = o2 /\ f.journal = j2 BY <2>1 DEF Made
  <2>12. o2[s] = NoStroke /\ \A u \in Socket : u # s => o2[u] = o[u] BY <1>1
  <2>13. Recorded(j2) = Recorded(j) BY <2>7 DEF Recorded
  <2>14. ~(h.strokes[s].id # None /\ h.strokes[s].id # l /\ l # None) BY <1>3
  <2> HIDE DEF f, j2, o2, c2
  <2> QED BY <2>6, <2>10, <2>11, <2>12, <2>13, <2>14 DEF f
<1> QED BY <1>2, <1>3

LEMMA MutationEntry ==
  ASSUME journal \in Seq(Entries), NEW at \in Nat, NEW m \in Mutations
  PROVE  LET r == MutationRecord(at, m)
         IN  /\ r \in Entries /\ r.kind = "mutation" /\ r.at = at /\ r.m = m
             /\ \A l : Creates(r, l) <=> m.type = "create" /\ m.id = l
             /\ \A l : IsPointOf(r, l) <=> m.type = "append" /\ m.id = l
             /\ m.type \notin {"create", "append"} => \A l : ~Concerns(r, l)
<1>1. Seq0 \in Nat
  <2> DEFINE K == {k \in DOMAIN journal : IsMutation(journal[k])}
  <2>1. Len(journal) \in Nat /\ DOMAIN journal = 1..Len(journal) BY LenProperties
  <2>2. IsFiniteSet(1..Len(journal)) BY <2>1, FS_Interval
  <2>3. K \subseteq 1..Len(journal) BY <2>1
  <2> HIDE DEF K
  <2>4. IsFiniteSet(K) BY <2>2, <2>3, FS_Subset
  <2>5. Cardinality(K) \in Nat BY <2>4, FS_CardinalityType
  <2> QED BY <2>5 DEF Seq0, K
<1> DEFINE r == MutationRecord(at, m)
<1>2. r \in Entries /\ r.kind = "mutation" /\ r.at = at /\ r.m = m
  BY <1>1 DEF MutationRecord, Entries
<1> HIDE DEF r
<1>3. /\ \A l : Creates(r, l) <=> m.type = "create" /\ m.id = l
      /\ \A l : IsPointOf(r, l) <=> m.type = "append" /\ m.id = l
      /\ \A l : ~IsStrokeOf(r, l)
  BY <1>2 DEF Creates, IsPointOf, IsStrokeOf, IsMutation
<1>4. m.type \notin {"create", "append"} => \A l : ~Concerns(r, l) BY <1>3 DEF Concerns
<1> QED BY <1>2, <1>3, <1>4 DEF r

\* An edit of another user.
LEMMA JournalKeeps ==
  ASSUME journal \in Seq(Entries), NEW h, HistoryOK(h), NEW m \in Mutations,
         m.type \notin {"create", "append"}, NEW at \in Nat, Last0(h.journal) <= at
  PROVE  LET f == [h EXCEPT !.journal = Append(h.journal, MutationRecord(at, m))]
         IN  /\ HistoryOK(f) /\ Last0(f.journal) <= at
             /\ Recorded(f.journal) = Recorded(h.journal) /\ f.strokes = h.strokes
<1> DEFINE o == h.strokes
           c == h.curves
           j == h.journal
           r == MutationRecord(at, m)
           j2 == Append(j, r)
           f == [h EXCEPT !.journal = j2]
<1>1. /\ h = Made(o, c, j) /\ LinesOK(o, c, j) /\ Recovered(j) = [strokes |-> o, curves |-> c]
      /\ j \in Seq(Entries) /\ [strokes |-> o, curves |-> c] \in Recoveries /\ h \in Histories
  BY HistoryIs
<1>2. r \in Entries /\ r.kind = "mutation" /\ r.at = at /\ r.m = m /\ \A l : ~Concerns(r, l)
  BY MutationEntry
<1> HIDE DEF r
<1>3. /\ Last0(j2) = at
      /\ \A k \in Line : k \in Recorded(j2) <=> k \in Recorded(j)
  BY <1>1, <1>2, WithAnother DEF Concerns
<1>4. LinesOK(o, c, j2) BY <1>1, <1>2, NeutralRecord
<1>5. Recovered(j2) = [strokes |-> o, curves |-> c]
  BY <1>1, <1>2, RecoveredGrows, RecoverRecordIs
<1> HIDE DEF j2
<1>6. f = Made(o, c, j2) BY <1>1 DEF Histories, Made
<1>7. HistoryOK(f)
  <2> HIDE DEF o, c, f
  <2> QED BY <1>4, <1>5, <1>6, MadeOK
<1>8. f.journal = j2 /\ f.strokes = o BY <1>6 DEF Made
<1>9. Recorded(j2) = Recorded(j) BY <1>3 DEF Recorded
<1> QED BY <1>3, <1>7, <1>8, <1>9 DEF j2, r

\* A deletion that comes on a socket.
LEMMA CommitOtherKeeps ==
  ASSUME journal \in Seq(Entries), NEW h, HistoryOK(h), NEW s \in Socket, NEW m \in Mutations,
         m.type \notin {"create", "append"}, NEW at \in Nat, Last0(h.journal) <= at
  PROVE  LET f == Commit(h, s, m, at)
         IN  /\ HistoryOK(f) /\ Last0(f.journal) <= at
             /\ Recorded(f.journal) = Recorded(h.journal) /\ f.strokes = h.strokes
<1> DEFINE r  == MutationRecord(at, m)
           g  == [h EXCEPT !.journal = Append(h.journal, r)]
           o  == g.strokes
           c  == g.curves
           j  == g.journal
           b  == ActiveRecord(at, s, o[s])
           j2 == Append(j, b)
           f  == Commit(h, s, m, at)
<1>1. /\ HistoryOK(g) /\ Last0(g.journal) <= at
      /\ Recorded(g.journal) = Recorded(h.journal) /\ g.strokes = h.strokes
  BY JournalKeeps
<1>2. r \in Entries BY MutationEntry
<1>3. h = Made(h.strokes, h.curves, h.journal) /\ h.journal \in Seq(Entries)
      /\ h.strokes \in [Socket -> Strokes] /\ h \in Histories
  BY HistoryIs
<1>4. h.strokes[s] \in Strokes BY <1>3
<1>5. ActiveRecord(at, s, h.strokes[s]) \in Entries BY <1>4, ActiveEntry
<1>6. f = [h EXCEPT !.journal = h.journal \o <<r, ActiveRecord(at, s, h.strokes[s])>>]
  BY <1>3 DEF Commit, Made
<1>7. h.journal \o <<r, ActiveRecord(at, s, h.strokes[s])>>
        = Append(Append(h.journal, r), ActiveRecord(at, s, h.strokes[s]))
  BY <1>2, <1>3, <1>5, TwoRecords
<1>8. g = Made(h.strokes, h.curves, Append(h.journal, r))
  <2> DEFINE q == Append(h.journal, r)
  <2>1. g = [h EXCEPT !.journal = q] OBVIOUS
  <2> HIDE DEF q, g
  <2>2. g = Made(h.strokes, h.curves, q) BY <1>3, <2>1 DEF Histories, Made
  <2> QED BY <2>2 DEF q
<1>9. f = Made(o, c, j2)
  <2>1. o = h.strokes /\ c = h.curves /\ j = Append(h.journal, r) BY <1>8 DEF Made
  <2>2. f = Made(h.strokes, h.curves, Append(Append(h.journal, r), ActiveRecord(at, s, h.strokes[s])))
    BY <1>3, <1>6, <1>7 DEF Made
  <2> HIDE DEF o, c, j, f
  <2> QED BY <2>1, <2>2
<1> HIDE DEF g
<1>10. /\ LinesOK(o, c, j) /\ Recovered(j) = [strokes |-> o, curves |-> c]
       /\ j \in Seq(Entries) /\ o \in [Socket -> Strokes] /\ c \in Boards(Curves)
       /\ DOMAIN c = {o[u].id : u \in Socket} \ {None}
       /\ [strokes |-> o, curves |-> c] \in Recoveries
  BY <1>1, HistoryIs
<1>11. o[s] \in Strokes BY <1>10
<1>12. b \in Entries /\ b.kind = "active" /\ b.at = at /\ b.socket = s /\ b.stroke = o[s]
       /\ (\A k \in Line : ~Concerns(b, k)) /\ \A k : ~Creates(b, k)
  BY <1>11, ActiveEntry
<1> HIDE DEF b
<1>13. /\ Last0(j2) = at
       /\ \A k \in Line : k \in Recorded(j2) <=> k \in Recorded(j)
  BY <1>10, <1>12, WithAnother
<1>14. LinesOK(o, c, j2) BY <1>1, <1>10, <1>12, NeutralRecord
<1>15. Recovered(j2) = [strokes |-> o, curves |-> c]
  <2>1. Recovered(j2) = Active([strokes |-> o, curves |-> c], s, o[s])
    BY <1>10, <1>12, RecoveredGrows, RecoverRecordIs
  <2>2. o[s] = NoStroke \/ o[s].id \in DOMAIN c BY <1>10, <1>11, StrokeFields
  <2>3. [o EXCEPT ![s] = o[s]] = o BY <1>10
  <2> HIDE DEF o, c
  <2> QED BY <2>1, <2>2, <2>3 DEF Active
<1>16. HistoryOK(f)
  <2> HIDE DEF j2, o, c, f
  <2> QED BY <1>9, <1>14, <1>15, MadeOK
<1>17. f.journal = j2 /\ f.strokes = o BY <1>9 DEF Made
<1>18. Recorded(j2) = Recorded(j) BY <1>13 DEF Recorded
<1> HIDE DEF j2, f
<1> QED BY <1>1, <1>13, <1>16, <1>17, <1>18 DEF f

\* A point of the line that the socket draws.
LEMMA CommitPointKeeps ==
  ASSUME journal \in Seq(Entries), NEW h, HistoryOK(h), NEW s \in Socket, NEW m \in Mutations,
         m.type = "append", h.strokes[s].id = m.id, NEW at \in Nat, Last0(h.journal) <= at
  PROVE  LET f == Commit(h, s, m, at)
         IN  /\ HistoryOK(f) /\ Last0(f.journal) <= at
             /\ Recorded(f.journal) = Recorded(h.journal)
             /\ \A u \in Socket : f.strokes[u].id = h.strokes[u].id
<1> DEFINE o  == h.strokes
           c  == h.curves
           j  == h.journal
           r  == MutationRecord(at, m)
           x  == [o[s] EXCEPT !.end = at]
           o2 == [o EXCEPT ![s] = x]
           c2 == Smooth(c, m)
           b  == ActiveRecord(at, s, x)
           j1 == Append(j, r)
           j2 == Append(j1, b)
           f  == Commit(h, s, m, at)
<1>1. /\ h = Made(o, c, j) /\ LinesOK(o, c, j) /\ Recovered(j) = [strokes |-> o, curves |-> c]
      /\ o \in [Socket -> Strokes] /\ c \in Boards(Curves) /\ j \in Seq(Entries)
      /\ DOMAIN c = {o[u].id : u \in Socket} \ {None}
      /\ [strokes |-> o, curves |-> c] \in Recoveries /\ h \in Histories
  BY HistoryIs
<1>2. m.id \in Line /\ m.point \in Point BY MutationFields
<1>3. o[s] \in [id : Line, start : Nat, end : Nat] BY <1>1, <1>2, StrokeFields DEF Strokes
<1>4. x \in Strokes /\ x.id = m.id /\ x # NoStroke
  <2>1. x \in Strokes /\ x.id = m.id BY <1>3 DEF Strokes
  <2> HIDE DEF x
  <2> QED BY <1>2, <2>1, StrokeFields
<1>5. r \in Entries /\ r.kind = "mutation" /\ r.at = at /\ r.m = m /\ IsPointOf(r, m.id)
      /\ \A k : ~Creates(r, k)
  BY MutationEntry
<1>6. b \in Entries /\ b.kind = "active" /\ b.at = at /\ b.socket = s /\ b.stroke = x
      /\ (\A k \in Line : ~Concerns(b, k)) /\ \A k : ~Creates(b, k)
  BY <1>4, ActiveEntry
<1>7. o2 \in [Socket -> Strokes] /\ o2[s] = x /\ \A u \in Socket : u # s => o2[u] = o[u]
  BY <1>1, <1>4
<1>8. c2 \in Boards(Curves) /\ DOMAIN c2 = DOMAIN c BY <1>1, <1>2, SmoothType
<1>9. f = Made(o2, c2, j2)
  <2>1. Extend(o[s], m, at) = x BY DEF Extend
  <2>2. f = [[h EXCEPT !.strokes[s] = x, !.curves = c2] EXCEPT
               !.journal = @ \o
                 <<r, ActiveRecord(at, s, [h EXCEPT !.strokes[s] = x, !.curves = c2].strokes[s])>>]
    BY <2>1 DEF Commit
  <2>3. [h EXCEPT !.strokes[s] = x, !.curves = c2] = Made(o2, c2, j)
    <3> HIDE DEF c2, x
    <3>1. [h EXCEPT !.strokes[s] = x, !.curves = c2] = [h EXCEPT !.strokes = o2, !.curves = c2]
      OBVIOUS
    <3>2. h = [strokes |-> o, curves |-> c, journal |-> j] BY <1>1 DEF Made
    <3> HIDE DEF o2, o, c, j
    <3>3. [h EXCEPT !.strokes = o2, !.curves = c2]
            = [[strokes |-> o, curves |-> c, journal |-> j] EXCEPT !.strokes = o2, !.curves = c2]
      BY <3>2
    <3>4. [[strokes |-> o, curves |-> c, journal |-> j] EXCEPT !.strokes = o2, !.curves = c2]
            = Made(o2, c2, j)
      <4> SUFFICES ASSUME NEW g, g = [[strokes |-> o, curves |-> c, journal |-> j]
                                        EXCEPT !.strokes = o2, !.curves = c2]
                   PROVE  g = Made(o2, c2, j)
        OBVIOUS
      <4> QED BY DEF Made
    <3> QED BY <3>1, <3>3, <3>4, Zenon
  <2>4. j \o <<r, b>> = j2 BY <1>1, <1>5, <1>6, TwoRecords
  <2> HIDE DEF x, o, j, c2, r, j2
  <2>5. f = [Made(o2, c2, j) EXCEPT
                !.journal = @ \o <<r, ActiveRecord(at, s, Made(o2, c2, j).strokes[s])>>]
    BY <2>2, <2>3
  <2> HIDE DEF f, o2
  <2>6. f = Made(o2, c2, j \o <<r, ActiveRecord(at, s, o2[s])>>) BY <2>5 DEF Made
  <2> QED BY <1>7, <2>4, <2>6
<1> HIDE DEF r, b
<1>10. LinesOK(o2, c2, j1)
  <2>1. o[s].id = m.id OBVIOUS
  <2>2. LinesOK(o, c, j) /\ Last0(j) <= at BY <1>1
  <2> HIDE DEF o, c, j
  <2>3. LinesOK([o EXCEPT ![s] = [o[s] EXCEPT !.end = r.at]], Smooth(c, r.m), Append(j, r))
    BY <1>2, <1>5, <2>1, <2>2, LineGoesOn
  <2> QED BY <1>5, <2>3
<1>11. /\ j1 \in Seq(Entries) /\ Last0(j1) = at
       /\ \A k \in Line : k \in Recorded(j1) <=> k \in Recorded(j)
  BY <1>1, <1>5, WithAnother
<1>12. Recovered(j1) = [strokes |-> o, curves |-> c2]
  BY <1>1, <1>5, RecoveredGrows, RecoverRecordIs
<1>13. [strokes |-> o, curves |-> c2] \in Recoveries BY <1>1, <1>8 DEF Recoveries
<1> HIDE DEF j1, c2, o2, x
<1>14. /\ Last0(j2) = at
       /\ \A k \in Line : k \in Recorded(j2) <=> k \in Recorded(j)
  BY <1>6, <1>11, WithAnother
<1>15. LinesOK(o2, c2, j2) BY <1>6, <1>10, <1>11, NeutralRecord
<1>16. Recovered(j2) = [strokes |-> o2, curves |-> c2]
  <2>1. Recovered(j2) = Active([strokes |-> o, curves |-> c2], s, x)
    BY <1>6, <1>11, <1>12, <1>13, RecoveredGrows, RecoverRecordIs
  <2>2. o[s].id = x.id /\ x.id \in DOMAIN c2 BY <1>1, <1>2, <1>4, <1>8, LineIsFinite
  <2> HIDE DEF o, c
  <2> QED BY <2>1, <2>2 DEF Active, o2
<1>17. HistoryOK(f)
  <2> HIDE DEF j2, f
  <2> QED BY <1>9, <1>15, <1>16, MadeOK
<1>18. f.journal = j2 /\ f.strokes = o2 BY <1>9 DEF Made
<1>19. Recorded(j2) = Recorded(j) BY <1>14 DEF Recorded
<1>20. \A u \in Socket : o2[u].id = o[u].id BY <1>4, <1>7
<1> HIDE DEF j2, f
<1> QED BY <1>14, <1>17, <1>18, <1>19, <1>20 DEF f

\* One more line is recorded.
Adds(j, j2, l) == Recorded(j2) = Recorded(j) \union {l}

\* A line that the journal does not have yet; a stroke of the socket that is still
\* open gives place to it.
LEMMA CommitLineKeeps ==
  ASSUME journal \in Seq(Entries), NEW h, HistoryOK(h), NEW s \in Socket, NEW m \in Mutations,
         m.type = "create", m.id \notin Recorded(h.journal), NEW at \in Nat, Last0(h.journal) <= at
  PROVE  LET f == Commit(h, s, m, at)
         IN  /\ HistoryOK(f) /\ Last0(f.journal) <= at
             /\ Adds(h.journal, f.journal, m.id)
             /\ f.strokes[s].id = m.id
             /\ \A u \in Socket : u # s => f.strokes[u] = h.strokes[u]
<1> DEFINE o  == h.strokes
           c  == h.curves
           j  == h.journal
           l  == m.id
           r  == MutationRecord(at, m)
           x  == [id |-> l, start |-> at, end |-> at]
           closes == o[s] # NoStroke
           oc == [o EXCEPT ![s] = NoStroke]
           cc == IF closes THEN Without(c, {o[s].id}) ELSE c
           jc == IF closes THEN Append(j, StrokeRecord(c, o[s], at, "superseded")) ELSE j
           o2 == [o EXCEPT ![s] = x]
           c2 == With(cc, l, <<>>)
           b  == ActiveRecord(at, s, x)
           j1 == Append(jc, r)
           j2 == Append(j1, b)
           f  == Commit(h, s, m, at)
<1>1. /\ h = Made(o, c, j) /\ LinesOK(o, c, j) /\ Recovered(j) = [strokes |-> o, curves |-> c]
      /\ o \in [Socket -> Strokes] /\ c \in Boards(Curves) /\ j \in Seq(Entries)
      /\ DOMAIN c = {o[u].id : u \in Socket} \ {None}
      /\ [strokes |-> o, curves |-> c] \in Recoveries /\ h \in Histories
  BY HistoryIs
<1>2. l \in Line /\ l # None BY MutationFields, LineIsFinite
<1>3. x \in Strokes /\ x.id = l /\ x # NoStroke
  <2>1. x \in Strokes /\ x.id = l BY <1>2 DEF Strokes
  <2> HIDE DEF x
  <2> QED BY <1>2, <2>1, StrokeFields
<1>4. r \in Entries /\ r.kind = "mutation" /\ r.at = at /\ r.m = m /\ Creates(r, l)
      /\ \A k : Creates(r, k) <=> k = l
  BY MutationEntry
<1>5. b \in Entries /\ b.kind = "active" /\ b.at = at /\ b.socket = s /\ b.stroke = x
      /\ (\A k \in Line : ~Concerns(b, k)) /\ \A k : ~Creates(b, k)
  BY <1>3, ActiveEntry
<1>6. NoStroke \in Strokes /\ NoStroke.id = None BY StrokeFields DEF Strokes
<1>7. /\ LinesOK(oc, cc, jc) /\ Last0(jc) <= at /\ jc \in Seq(Entries)
      /\ Recovered(jc) = [strokes |-> o, curves |-> c]
      /\ \A k \in Line : k \in Recorded(jc) <=> k \in Recorded(j)
  <2>1. CASE closes
    <3> DEFINE a == StrokeRecord(c, o[s], at, "superseded")
    <3>1. o[s].id # None BY <1>1, <2>1, StrokeFields
    <3>2. a \in Entries /\ a.kind = "stroke" /\ a.at = at
          /\ LinesOK(oc, Without(c, {o[s].id}), Append(j, a))
      BY <1>1, <3>1, StrokeCloses
    <3> HIDE DEF a
    <3>3. \A k : ~Creates(a, k) BY <3>2 DEF Creates, IsMutation
    <3>4. Append(j, a) \in Seq(Entries) /\ Last0(Append(j, a)) = at
          /\ \A k \in Line : k \in Recorded(Append(j, a)) <=> k \in Recorded(j)
      BY <1>1, <3>2, <3>3, WithAnother
    <3>5. Recovered(Append(j, a)) = [strokes |-> o, curves |-> c]
      BY <1>1, <3>2, RecoveredGrows, RecoverRecordIs
    <3>6. jc = Append(j, a) /\ cc = Without(c, {o[s].id}) BY <2>1 DEF a
    <3> HIDE DEF jc, cc, oc
    <3> QED BY <3>2, <3>4, <3>5, <3>6
  <2>2. CASE ~closes
    <3>1. oc = o BY <1>1, <2>2
    <3>2. cc = c /\ jc = j BY <2>2
    <3> HIDE DEF jc, cc, oc
    <3> QED BY <1>1, <3>1, <3>2
  <2> QED BY <2>1, <2>2
<1>8. oc[s] = NoStroke /\ \A u \in Socket : u # s => oc[u] = o[u] BY <1>1
<1>9. [oc EXCEPT ![s] = x] = o2 BY <1>1
<1>10. o2 \in [Socket -> Strokes] /\ o2[s] = x /\ \A u \in Socket : u # s => o2[u] = o[u]
  BY <1>1, <1>3
<1>11. f = Made(o2, c2, j2)
  <2> DEFINE opened == IF h.strokes[s] = NoStroke THEN h ELSE CloseFor(h, s, at, "superseded")
  <2>1. opened = Made(o, cc, jc)
    <3>1. CASE closes
      <4>1. opened = CloseFor(Made(o, c, j), s, at, "superseded") BY <1>1, <3>1
      <4>2. cc = Without(c, {o[s].id}) /\ jc = Append(j, StrokeRecord(c, o[s], at, "superseded"))
        BY <3>1
      <4> HIDE DEF opened, o, c, j, cc, jc
      <4> QED BY <4>1, <4>2 DEF CloseFor, Made
    <3>2. CASE ~closes BY <1>1, <3>2
    <3> QED BY <3>1, <3>2
  <2> DEFINE done == [opened EXCEPT !.strokes[s] = x, !.curves = With(@, l, <<>>)]
  <2>2. f = [done EXCEPT !.journal = @ \o <<r, ActiveRecord(at, s, done.strokes[s])>>]
    BY DEF Commit
  <2> HIDE DEF opened, x
  <2>3. done = Made(o2, c2, jc)
    <3> DEFINE g == Made(o, cc, jc)
    <3>1. done = [g EXCEPT !.strokes = [g.strokes EXCEPT ![s] = x], !.curves = With(g.curves, l, <<>>)]
      BY <2>1
    <3>2. g = [strokes |-> o, curves |-> cc, journal |-> jc] BY DEF Made
    <3>3. g.strokes = o /\ g.curves = cc BY DEF Made
    <3> HIDE DEF g, o, cc, jc
    <3>4. done = [[strokes |-> o, curves |-> cc, journal |-> jc] EXCEPT !.strokes = o2, !.curves = c2]
      BY <3>1, <3>2, <3>3
    <3> HIDE DEF o2, c2, done
    <3> QED BY <3>4 DEF Made
  <2> HIDE DEF done, f
  <2>4. jc \o <<r, b>> = j2 BY <1>4, <1>5, <1>7, TwoRecords
  <2> HIDE DEF o2, c2, jc, r, j2
  <2>5. f = Made(o2, c2, jc \o <<r, ActiveRecord(at, s, o2[s])>>) BY <2>2, <2>3 DEF Made
  <2> QED BY <1>10, <2>4, <2>5
<1>12. cc \in Boards(Curves) /\ DOMAIN cc = {oc[u].id : u \in Socket} \ {None}
  BY <1>7 DEF LinesOK
<1> HIDE DEF r, b, jc, cc, oc
<1>13. LinesOK(o2, c2, j1)
  <2>1. oc[s].id = None /\ l \notin Recorded(jc) BY <1>2, <1>6, <1>7, <1>8
  <2>2. x = [id |-> l, start |-> r.at, end |-> r.at] BY <1>4
  <2> HIDE DEF x, l
  <2>3. LinesOK([oc EXCEPT ![s] = x], With(cc, l, <<>>), Append(jc, r))
    BY <1>2, <1>4, <1>7, <2>1, <2>2, LineBegins
  <2> QED BY <1>9, <2>3
<1>14. /\ j1 \in Seq(Entries) /\ Last0(j1) = at
       /\ \A k \in Line : k \in Recorded(j1) <=> k \in Recorded(j) \/ k = l
  BY <1>4, <1>7, WithAnother
<1>15. Recovered(j1) = [strokes |-> o, curves |-> c]
  <2>1. r.kind = "mutation" /\ r.m.type # "append" BY <1>4
  <2> QED BY <1>1, <1>4, <1>7, <2>1, RecoveredGrows, RecoverRecordIs
<1> HIDE DEF j1, x
<1>16. /\ Last0(j2) = at
       /\ \A k \in Line : k \in Recorded(j2) <=> k \in Recorded(j) \/ k = l
  BY <1>5, <1>14, WithAnother
<1>17. LinesOK(o2, c2, j2)
  <2> HIDE DEF o2, c2
  <2> QED BY <1>5, <1>13, <1>14, NeutralRecord
<1>18. Recovered(j2) = [strokes |-> o2, curves |-> c2]
  <2>1. Recovered(j2) = Active([strokes |-> o, curves |-> c], s, x)
    BY <1>1, <1>5, <1>14, <1>15, RecoveredGrows, RecoverRecordIs
  <2>2. l \notin DOMAIN c
    <3>1. \A u \in Socket : o[u].id # None => o[u].id \in Recorded(j) BY <1>1 DEF LinesOK, Open
    <3> QED BY <1>1, <3>1
  <2>3. o[s].id # l BY <1>1, <1>2, <2>2
  <2>4. Without(c, {o[s].id}) = cc
    <3>1. CASE closes BY <3>1 DEF cc
    <3>2. CASE ~closes
      <4>1. o[s].id \notin DOMAIN c /\ cc = c BY <1>1, <1>6, <3>2 DEF cc
      <4>2. c \in [DOMAIN c -> Curves] BY <1>1, BoardIs
      <4> QED BY <4>1, <4>2 DEF Without, Restrict
    <3> QED BY <3>1, <3>2
  <2>5. l \notin DOMAIN cc
    <3>1. DOMAIN Without(c, {o[s].id}) \subseteq DOMAIN c BY DEF Without, Restrict
    <3> QED BY <2>2, <2>4, <3>1
  <2> HIDE DEF o, c, l
  <2> QED BY <1>3, <2>1, <2>3, <2>4, <2>5 DEF Active, o2, c2
<1>19. HistoryOK(f)
  <2> HIDE DEF j2, f, o2, c2
  <2> QED BY <1>11, <1>17, <1>18, MadeOK
<1>20. f.journal = j2 /\ f.strokes = o2 BY <1>11 DEF Made
<1>21. Adds(j, j2, l) BY <1>2, <1>16 DEF Recorded, Adds
<1> HIDE DEF j2, f
<1> QED BY <1>3, <1>10, <1>16, <1>19, <1>20, <1>21 DEF f

\* The function that InterruptAll goes along the open strokes with.
InterruptFunction(f, h, open, n, at) ==
  f = [k \in 0..n |->
         IF k = 0 THEN h ELSE FinishStroke(f[k - 1], open[k], None, at, "interrupted")]

\* A history of which nothing but some of the open strokes have been closed.
Closer(h, at) ==
  {g \in Histories : /\ HistoryOK(g) /\ Last0(g.journal) <= at
                     /\ Recorded(g.journal) = Recorded(h.journal)
                     /\ \A u \in Socket : g.strokes[u] = h.strokes[u] \/ g.strokes[u] = NoStroke}

LEMMA CloserStill ==
  ASSUME NEW h, NEW at \in Nat, NEW g \in Closer(h, at), NEW s \in Socket
  PROVE  LET f == FinishStroke(g, s, None, at, "interrupted")
         IN  /\ f \in Closer(h, at) /\ f.strokes[s] = NoStroke
             /\ \A u \in Socket : g.strokes[u] = NoStroke => f.strokes[u] = NoStroke
<1> DEFINE f == FinishStroke(g, s, None, at, "interrupted")
<1>1. HistoryOK(g) /\ Last0(g.journal) <= at BY DEF Closer
<1>2. /\ HistoryOK(f) /\ Last0(f.journal) <= at
      /\ Recorded(f.journal) = Recorded(g.journal)
      /\ \A u \in Socket : f.strokes[u] = g.strokes[u] \/ f.strokes[u] = NoStroke
      /\ f.strokes[s] = NoStroke
  BY <1>1, FinishKeeps
<1> HIDE DEF f
<1>3. f \in Histories BY <1>2 DEF HistoryOK
<1> QED BY <1>2, <1>3 DEF Closer, f

LEMMA InterruptedSteps ==
  ASSUME NEW h, NEW at \in Nat, h \in Closer(h, at), NEW n \in Nat, NEW open \in [1..n -> Socket]
  PROVE  \E f : InterruptFunction(f, h, open, n, at)
<1> DEFINE V    == Closer(h, at)
           step == [w \in V \X (1..n) |-> FinishStroke(w[1], open[w[2]], None, at, "interrupted")]
<1>1. \A g \in V, k \in 1..n : FinishStroke(g, open[k], None, at, "interrupted") \in V
  <2> SUFFICES ASSUME NEW g \in V, NEW k \in 1..n
               PROVE  FinishStroke(g, open[k], None, at, "interrupted") \in V
    OBVIOUS
  <2>1. open[k] \in Socket OBVIOUS
  <2> QED BY <2>1, CloserStill
<1>2. step \in [V \X (1..n) -> V] BY <1>1
<1>3. \A g \in V, k \in 1..n :
        step[<<g, k>>] = FinishStroke(g, open[k], None, at, "interrupted")
  OBVIOUS
<1> HIDE DEF step, V
<1>4. h \in V BY DEF V
<1>5. PICK f : Goes(f, V, h, n, step) BY <1>2, <1>4, StepByStep
<1>6. \A k \in 1..n : f[k] = FinishStroke(f[k - 1], open[k], None, at, "interrupted")
  <2> SUFFICES ASSUME NEW k \in 1..n
               PROVE  f[k] = FinishStroke(f[k - 1], open[k], None, at, "interrupted")
    OBVIOUS
  <2>1. k - 1 \in 0..n OBVIOUS
  <2>2. f[k - 1] \in V BY <1>5, <2>1 DEF Goes
  <2> QED BY <1>3, <1>5, <2>2 DEF Goes
<1>7. f \in [0..n -> V] /\ f[0] = h BY <1>5 DEF Goes
<1>8. \A k \in 0..n :
        f[k] = IF k = 0 THEN h ELSE FinishStroke(f[k - 1], open[k], None, at, "interrupted")
  BY <1>6, <1>7
<1> QED BY <1>7, <1>8 DEF InterruptFunction

LEMMA InterruptKeeps ==
  ASSUME NEW h, HistoryOK(h), NEW at \in Nat, Last0(h.journal) <= at
  PROVE  LET f == InterruptAll(h, at)
         IN  /\ HistoryOK(f) /\ Recorded(f.journal) = Recorded(h.journal)
             /\ \A s \in Socket : f.strokes[s] = NoStroke
<1> DEFINE S == {s \in Socket : h.strokes[s] # NoStroke}
           n == Cardinality(S)
           open == SetToSeq(S)
           V == Closer(h, at)
<1>1. IsFiniteSet(S)
  <2>1. IsFiniteSet(Socket) /\ S \subseteq Socket BY StrokeAssumption
  <2> HIDE DEF S
  <2> QED BY <2>1, FS_Subset
<1>2. /\ n \in Nat /\ open \in [1..n -> S] /\ \A s \in S : \E k \in 1..n : open[k] = s
  <2> HIDE DEF S
  <2> QED BY <1>1, InSomeOrder
<1>3. open \in [1..n -> Socket]
  <2>1. S \subseteq Socket OBVIOUS
  <2> HIDE DEF S, n, open
  <2> QED BY <1>2, <2>1
<1>4. h \in V BY DEF Closer, HistoryOK
<1> DEFINE f == CHOOSE f : InterruptFunction(f, h, open, n, at)
<1>5. InterruptAll(h, at) = f[n] BY DEF InterruptAll, InterruptFunction
<1> HIDE DEF open, n
<1>6. InterruptFunction(f, h, open, n, at) BY <1>2, <1>3, <1>4, InterruptedSteps
<1> HIDE DEF f, V
<1>7. \A k \in 0..n :
        f[k] = IF k = 0 THEN h ELSE FinishStroke(f[k - 1], open[k], None, at, "interrupted")
  BY <1>6, Zenon DEF InterruptFunction
<1>8. f[0] = h BY <1>2, <1>7
<1>9. \A k \in 1..n : f[k] = FinishStroke(f[k - 1], open[k], None, at, "interrupted")
  BY <1>2, <1>7
<1> DEFINE T == {k \in 0..n : f[k] \in V /\ \A i \in 1..k : f[k].strokes[open[i]] = NoStroke}
<1>10. 0 \in T BY <1>2, <1>4, <1>8
<1>11. ASSUME NEW k \in 1..n, k - 1 \in T PROVE k \in T
  <2>1. f[k - 1] \in V /\ \A i \in 1..(k - 1) : f[k - 1].strokes[open[i]] = NoStroke BY <1>11
  <2>2. open[k] \in Socket /\ k \in 0..n /\ k \in Nat BY <1>2, <1>3
  <2>3. f[k] = FinishStroke(f[k - 1], open[k], None, at, "interrupted") BY <1>9
  <2>4. /\ f[k] \in V /\ f[k].strokes[open[k]] = NoStroke
        /\ \A u \in Socket : f[k - 1].strokes[u] = NoStroke => f[k].strokes[u] = NoStroke
    BY <2>1, <2>2, <2>3, CloserStill DEF V
  <2>5. ASSUME NEW i \in 1..k PROVE f[k].strokes[open[i]] = NoStroke
    <3>1. CASE i = k BY <2>4, <3>1
    <3>2. CASE i # k
      <4>1. i \in 1..(k - 1) /\ i \in 1..n BY <1>2, <2>2, <3>2
      <4>2. open[i] \in Socket BY <1>3, <4>1
      <4> QED BY <2>1, <2>4, <4>1, <4>2
    <3> QED BY <3>1, <3>2
  <2> QED BY <2>2, <2>4, <2>5
<1>12. 0..n \subseteq T
  <2> HIDE DEF T
  <2> QED BY <1>2, <1>10, <1>11, HoldsUpTo
<1>13. f[n] \in V /\ \A i \in 1..n : f[n].strokes[open[i]] = NoStroke BY <1>2, <1>12
<1>14. ASSUME NEW s \in Socket PROVE f[n].strokes[s] = NoStroke
  <2>1. CASE s \in S BY <1>2, <1>13, <2>1
  <2>2. CASE s \notin S
    <3>1. h.strokes[s] = NoStroke BY <2>2
    <3> QED BY <1>13, <3>1 DEF V, Closer
  <2> QED BY <2>1, <2>2
<1>15. HistoryOK(f[n]) /\ Recorded(f[n].journal) = Recorded(h.journal) BY <1>13 DEF V, Closer
<1> QED BY <1>5, <1>14, <1>15

-----------------------------------------------------------------------------
(* Steps of the server *)

\* A tab from which the server has read a message, or which has been told something.
LEMMA ToldSettles ==
  ASSUME NEW n \in Nat, NEW t, TabOK(t, n), NEW d \in Seq(Answers)
  PROVE  Settles(t, [t EXCEPT !.down = d], n)
<1> DEFINE u == [t EXCEPT !.down = d]
<1>1. t \in Tabs BY DEF TabOK
<1>2. /\ u \in Tabs /\ u.line = t.line /\ u.count = t.count /\ u.finished = t.finished
      /\ u.queue = t.queue /\ u.up = t.up
  BY <1>1 DEF Tabs
<1> HIDE DEF u
<1>3. Written(u) = Written(t) BY <1>2 DEF Written
<1>4. TabOK(u, n) BY <1>2, <1>3 DEF TabOK
<1>5. Pending(u) \subseteq Pending(t) BY <1>2, <1>3 DEF Pending
<1>6. Live(t) => Live(u) BY <1>2 DEF Live
<1> QED BY <1>4, <1>5, <1>6 DEF Settles, u

\* The state after a step of the server, by which the lines N become recorded.
LEMMA ServerStepKeeps ==
  ASSUME StrokeInv, VarsOK', drawn' = drawn, HistoryOK(History)', NEW N \in SUBSET Line,
         N \subseteq 1..drawn, Recorded(journal') = Recorded(journal) \union N,
         DOMAIN board' \union DOMAIN was' \subseteq Recorded(journal'),
         \A u \in Socket : TabOK(Of(u)', drawn) /\ Pending(Of(u)') \subseteq Pending(Of(u)),
         \A u \in Socket : link'[u] # "closed" => Live(Of(u)'),
         \A u \in Socket : strokes'[u].id \in {strokes[u].id, None} \union (N \intersect LinesFor(u)),
         \A u \in Socket : \A l \in Line :
           <<"create", l>> \in Pending(Of(u)') => l \notin N /\ strokes'[u].id < l,
         \A u \in Socket : \A l \in Recorded(journal') :
           <<"append", l>> \in Pending(Of(u)') => strokes'[u].id = l
  PROVE  StrokeInv'
<1>1. ASSUME NEW u \in Socket PROVE LinesFor(u)' \subseteq LinesFor(u)
  <2>1. LinesFor(u)' = {w[2] : w \in Pending(Of(u)')} \union ({strokes'[u].id} \ {None})
    BY DEF LinesFor
  <2>2. {w[2] : w \in Pending(Of(u)')} \subseteq {w[2] : w \in Pending(Of(u))}
    <3>1. Pending(Of(u)') \subseteq Pending(Of(u)) OBVIOUS
    <3> HIDE DEF Pending, Of
    <3> QED BY <3>1
  <2>3. strokes'[u].id # None => strokes'[u].id \in LinesFor(u)
    <3>1. strokes'[u].id \in {strokes[u].id, None} \union (N \intersect LinesFor(u)) OBVIOUS
    <3> QED BY <3>1 DEF LinesFor
  <2> QED BY <2>1, <2>2, <2>3 DEF LinesFor
<1>2. ASSUME NEW u \in Socket PROVE SocketOK(u)'
  <2>1. SocketOK(u) BY DEF StrokeInv
  <2>2. TabOK(Of(u)', drawn') /\ (link'[u] # "closed" => Live(Of(u)')) OBVIOUS
  <2>3. LinesFor(u)' \subseteq 1..drawn' BY <1>1, <2>1 DEF SocketOK
  <2>4. \A l \in Line : <<"create", l>> \in Pending(Of(u)') =>
          l \notin Recorded(journal') /\ strokes'[u].id < l
    <3> SUFFICES ASSUME NEW l \in Line, <<"create", l>> \in Pending(Of(u)')
                 PROVE  l \notin Recorded(journal') /\ strokes'[u].id < l
      OBVIOUS
    <3>1. <<"create", l>> \in Pending(Of(u)) OBVIOUS
    <3>2. l \notin Recorded(journal) BY <2>1, <3>1 DEF SocketOK
    <3>3. l \notin N /\ strokes'[u].id < l OBVIOUS
    <3> QED BY <3>2, <3>3
  <2>5. \A l \in Recorded(journal') : <<"append", l>> \in Pending(Of(u)') => strokes'[u].id = l
    OBVIOUS
  <2> QED BY <2>2, <2>3, <2>4, <2>5 DEF SocketOK
<1>3. \A u, v \in Socket : u # v => LinesFor(u)' \intersect LinesFor(v)' = {}
  <2> SUFFICES ASSUME NEW u \in Socket, NEW v \in Socket, u # v
               PROVE  LinesFor(u)' \intersect LinesFor(v)' = {}
    OBVIOUS
  <2>1. LinesFor(u)' \subseteq LinesFor(u) /\ LinesFor(v)' \subseteq LinesFor(v) BY <1>1
  <2>2. LinesFor(u) \intersect LinesFor(v) = {} BY DEF StrokeInv
  <2> QED BY <2>1, <2>2
<1>4. Recorded(journal') \subseteq 1..drawn' BY DEF StrokeInv
<1> QED BY <1>2, <1>3, <1>4 DEF StrokeInv

\* What StrokeInv says of the server.
LEMMA ServerNow ==
  ASSUME StrokeInv
  PROVE  /\ HistoryOK(History) /\ journal \in Seq(Entries) /\ strokes \in [Socket -> Strokes]
         /\ curves \in Boards(Curves) /\ Last0(journal) \in Nat
         /\ board \in Boards(Curves) /\ was \in Boards(Curves \union {Gone})
         /\ DOMAIN board \union DOMAIN was \subseteq Recorded(journal)
         /\ History.strokes = strokes /\ History.curves = curves /\ History.journal = journal
         /\ \A at \in Moments : at \in Nat /\ Last0(journal) <= at
         /\ drawn \in Nat
<1>1. /\ HistoryOK(History) /\ board \in Boards(Curves) /\ was \in Boards(Curves \union {Gone})
      /\ DOMAIN board \union DOMAIN was \subseteq Recorded(journal) /\ drawn \in Nat
  BY StrokeAssumption DEF StrokeInv, VarsOK
<1>2. History.strokes = strokes /\ History.curves = curves /\ History.journal = journal
  BY DEF History
<1>3. /\ LinesOK(strokes, curves, journal) /\ journal \in Seq(Entries)
      /\ strokes \in [Socket -> Strokes] /\ curves \in Boards(Curves)
  BY <1>1, <1>2, HistoryIs
<1>4. Last0(journal) \in Nat
  <2>1. CASE journal = <<>> BY <2>1 DEF Last0
  <2>2. CASE journal # <<>>
    <3>1. Last(journal) \in Entries BY <1>3, <2>2, LenProperties, ElementOfSeq, EmptySeq DEF Last
    <3> QED BY <2>2, <3>1, EntryFields DEF Last0
  <2> QED BY <2>1, <2>2
<1>5. \A at \in Moments : at \in Nat /\ Last0(journal) <= at BY <1>4 DEF Moments
<1> QED BY <1>1, <1>2, <1>3, <1>4, <1>5

\* The message the server reads.
LEMMA HeadNow ==
  ASSUME StrokeInv, NEW s \in Socket, up[s] # <<>>
  PROVE  /\ Next0(s) \in Messages /\ Next0(s) \in Written(Of(s))
         /\ Next0(s).type \in {"create", "append"} =>
              <<Next0(s).type, Next0(s).id>> \in Pending(Of(s))
<1>1. Of(s) \in Tabs /\ Of(s).up = up[s] BY TabNow
<1>2. up[s] \in Seq(Messages) BY <1>1, TabFields
<1>3. Next0(s) \in Messages /\ Next0(s) \in Range(up[s])
  BY <1>2, RangeOfTail DEF Next0
<1> QED BY <1>1, <1>3 DEF Written, Pending

\* The tabs after the server has read a message of one, and told some what it has done.
LEMMA TabsServed ==
  ASSUME StrokeInv, NEW s \in Socket, up[s] # <<>>, Served(s), UNCHANGED <<tab, drawn>>,
         down' \in [Socket -> Seq(Answers)]
  PROVE  /\ \A u \in Socket : /\ TabOK(Of(u)', drawn) /\ Pending(Of(u)') \subseteq Pending(Of(u))
                              /\ link'[u] # "closed" => Live(Of(u)')
         /\ \A m \in Written(Of(s)') : Fits(Next0(s), m)
         /\ Of(s)'.line # None => Fits(Next0(s), Message("append", Of(s)'.line, None))
         /\ up' \in [Socket -> Seq(Messages)]
<1>1. /\ line' = line /\ count' = count /\ finished' = finished /\ cleaned' = cleaned
      /\ queue' = queue /\ link' = link /\ drawn' = drawn
  BY DEF tab
<1>2. VarsOK BY DEF StrokeInv
<1>3. TabOK(Of(s), drawn) /\ drawn \in Nat /\ Of(s).up = up[s] /\ Of(s) \in Tabs
      /\ up[s] \in Seq(Messages)
  <2>1. TabOK(Of(s), drawn) /\ drawn \in Nat /\ Of(s).up = up[s] /\ Of(s) \in Tabs BY TabNow
  <2> QED BY <2>1, TabFields
<1>4. Tail(up[s]) \in Seq(Messages) BY <1>3, RangeOfTail
<1>5. up' \in [Socket -> Seq(Messages)] /\ up'[s] = Tail(up[s])
      /\ \A u \in Socket : u # s => up'[u] = up[u]
  BY <1>2, <1>4 DEF VarsOK, Served
<1>6. \A u \in Socket : down'[u] \in Seq(Answers) OBVIOUS
<1>7. Of(s)' = [Of(s) EXCEPT !.up = Tail(Of(s).up), !.down = down'[s]]
  <2> DEFINE a == Tail(up[s])
             d == down'[s]
  <2>1. Of(s)' = [line |-> line[s], count |-> count[s], finished |-> finished[s],
                  cleaned |-> cleaned[s], queue |-> queue[s], up |-> a, down |-> d]
    BY <1>1, <1>5 DEF Of
  <2> HIDE DEF a, d
  <2>2. [Of(s) EXCEPT !.up = a, !.down = d]
          = [line |-> line[s], count |-> count[s], finished |-> finished[s],
             cleaned |-> cleaned[s], queue |-> queue[s], up |-> a, down |-> d]
    <3> SUFFICES ASSUME NEW t, t = [Of(s) EXCEPT !.up = a, !.down = d]
                 PROVE  t = [line |-> line[s], count |-> count[s], finished |-> finished[s],
                             cleaned |-> cleaned[s], queue |-> queue[s], up |-> a, down |-> d]
      OBVIOUS
    <3> QED BY DEF Of
  <2>3. Tail(Of(s).up) = a BY <1>3 DEF a
  <2> QED BY <2>1, <2>2, <2>3 DEF d
<1>8. ASSUME NEW u \in Socket, u # s PROVE Of(u)' = [Of(u) EXCEPT !.down = down'[u]]
  <2> DEFINE d == down'[u]
  <2>1. Of(u)' = [line |-> line[u], count |-> count[u], finished |-> finished[u],
                  cleaned |-> cleaned[u], queue |-> queue[u], up |-> up[u], down |-> d]
    BY <1>1, <1>5, <1>8 DEF Of
  <2> HIDE DEF d
  <2>2. [Of(u) EXCEPT !.down = d]
          = [line |-> line[u], count |-> count[u], finished |-> finished[u],
             cleaned |-> cleaned[u], queue |-> queue[u], up |-> up[u], down |-> d]
    <3> SUFFICES ASSUME NEW t, t = [Of(u) EXCEPT !.down = d]
                 PROVE  t = [line |-> line[u], count |-> count[u], finished |-> finished[u],
                             cleaned |-> cleaned[u], queue |-> queue[u], up |-> up[u], down |-> d]
      OBVIOUS
    <3> QED BY DEF Of
  <2> QED BY <2>1, <2>2 DEF d
<1>9. /\ Settles(Of(s), Of(s)', drawn)
      /\ \A m \in Written(Of(s)') : Fits(Next0(s), m)
      /\ Of(s)'.line # None => Fits(Next0(s), Message("append", Of(s)'.line, None))
  <2> DEFINE t == Of(s)
             d == down'[s]
             x == [t EXCEPT !.up = Tail(t.up), !.down = d]
  <2>1. TabOK(t, drawn) /\ t.up # <<>> /\ d \in Seq(Answers) /\ Next0(s) = Head(t.up)
        /\ Of(s)' = x
    BY <1>3, <1>6, <1>7 DEF Next0
  <2> HIDE DEF t, d
  <2>2. /\ Settles(t, x, drawn) /\ \A m \in Written(x) : Fits(Head(t.up), m)
        /\ x.line # None => Fits(Head(t.up), Message("append", x.line, None))
    BY <1>3, <2>1, ServedSettles
  <2> HIDE DEF x
  <2>3. Settles(t, Of(s)', drawn) BY <2>1, <2>2
  <2> QED BY <2>1, <2>2, <2>3 DEF t
<1>10. ASSUME NEW u \in Socket PROVE Settles(Of(u), Of(u)', drawn)
  <2>1. CASE u = s BY <1>9, <2>1
  <2>2. CASE u # s
    <3>1. TabOK(Of(u), drawn) BY TabNow
    <3> QED BY <1>3, <1>6, <1>8, <2>2, <3>1, ToldSettles
  <2> QED BY <2>1, <2>2
<1>11. ASSUME NEW u \in Socket
       PROVE  /\ TabOK(Of(u)', drawn) /\ Pending(Of(u)') \subseteq Pending(Of(u))
              /\ link'[u] # "closed" => Live(Of(u)')
  <2>1. Settles(Of(u), Of(u)', drawn) BY <1>10
  <2>2. link'[u] # "closed" => Live(Of(u)) BY <1>1, TabNow
  <2> QED BY <2>1, <2>2 DEF Settles
<1> QED BY <1>5, <1>9, <1>11

-----------------------------------------------------------------------------
(* Boards and messages of the server *)

LEMMA MutationIs ==
  ASSUME NEW type \in {"create", "append", "delete", "clear", "restore"}, NEW l \in Line,
         NEW p \in Point \union {None}, type = "append" => p \in Point
  PROVE  /\ Mutation(type, l, p) \in Mutations
         /\ Mutation(type, l, p).type = type /\ Mutation(type, l, p).id = l
         /\ Mutation(type, l, p).point = p /\ Mutation(type, l, p).items = Nothing
  BY NothingIsOpen DEF Mutation, Mutations

LEMMA RestorationIs ==
  ASSUME NEW l \in Line, NEW v \in Curves \union {Gone}
  PROVE  LET m == [Mutation("restore", l, None) EXCEPT !.items = With(Nothing, l, v)]
         IN  /\ m \in Mutations /\ m.type = "restore" /\ m.id = l /\ m.items = With(Nothing, l, v)
             /\ DOMAIN m.items = {l}
<1> DEFINE i == With(Nothing, l, v)
<1>1. i \in Boards(Curves \union {Gone}) /\ DOMAIN i = {l}
  <2>1. i \in Boards(Curves \union {Gone})
    <3> DEFINE V == Curves \union {Gone}
    <3>1. Nothing \in Boards(V) /\ v \in V BY NothingIsOpen
    <3> HIDE DEF V
    <3>2. i \in Boards(V) BY <3>1, WithIs
    <3> QED BY <3>2 DEF V
  <2>2. DOMAIN Nothing = {} BY NothingIsOpen
  <2> QED BY <2>1, <2>2 DEF With
<1> HIDE DEF i
<1> QED BY <1>1 DEF Mutation, Mutations, i

LEMMA ApplyType ==
  ASSUME NEW b \in Boards(Curves), NEW m \in Mutations, m.type = "append" => m.id \in DOMAIN b
  PROVE  /\ Apply(b, m) \in Boards(Curves)
         /\ m.type \in {"append", "delete", "clear"} => DOMAIN Apply(b, m) \subseteq DOMAIN b
         /\ m.type = "create" => DOMAIN Apply(b, m) = DOMAIN b \union {m.id}
         /\ m.type = "restore" => DOMAIN Apply(b, m) \subseteq DOMAIN b \union DOMAIN m.items
<1>1. /\ m.type \in {"create", "append", "delete", "clear", "restore"} /\ m.id \in Line
      /\ m.items \in Boards(Curves \union {Gone}) /\ (m.type = "append" => m.point \in Point)
  BY MutationFields
<1>2. DOMAIN b \subseteq Line /\ b \in [DOMAIN b -> Curves] BY BoardIs
<1>3. CASE m.type = "create"
  <2> DEFINE e == <<>>
  <2>1. e \in Curves BY EmptySeq DEF Curves
  <2>2. Apply(b, m) = With(b, m.id, e) BY <1>3 DEF Apply
  <2> HIDE DEF e
  <2>3. With(b, m.id, e) \in Boards(Curves) BY <1>1, <2>1, WithIs
  <2>4. DOMAIN With(b, m.id, e) = DOMAIN b \union {m.id} BY DEF With
  <2> QED BY <1>3, <2>2, <2>3, <2>4
<1>4. CASE m.type = "append"
  <2>1. b[m.id] \in Curves BY <1>2, <1>4
  <2>2. Append(b[m.id], m.point) \in Curves BY <1>1, <1>4, <2>1, AppendProperties DEF Curves
  <2>3. Apply(b, m) = [b EXCEPT ![m.id] = Append(b[m.id], m.point)] BY <1>4 DEF Apply
  <2>4. Apply(b, m) \in [DOMAIN b -> Curves] BY <1>2, <2>2, <2>3
  <2> QED BY <1>2, <1>4, <2>4, BoardIs
<1>5. CASE m.type = "delete"
  <2>1. Apply(b, m) = Without(b, {m.id}) BY <1>5 DEF Apply
  <2>2. Apply(b, m) \in Boards(Curves) BY <2>1, WithoutIs
  <2>3. DOMAIN Apply(b, m) \subseteq DOMAIN b BY <2>1 DEF Without, Restrict
  <2> QED BY <1>5, <2>2, <2>3
<1>6. CASE m.type = "clear"
  <2>1. Apply(b, m) = Nothing BY <1>6 DEF Apply
  <2> QED BY <1>6, <2>1, NothingIsOpen
<1>7. CASE m.type = "restore"
  <2> DEFINE back == {l \in DOMAIN m.items : m.items[l] # Gone}
             f == Restrict(m.items, back)
             g == Without(b, DOMAIN m.items)
  <2>1. Apply(b, m) = Over(f, g) BY <1>7 DEF Apply
  <2>2. DOMAIN m.items \subseteq Line /\ m.items \in [DOMAIN m.items -> Curves \union {Gone}]
    BY <1>1, BoardIs
  <2>3. DOMAIN f = back /\ \A l \in back : f[l] \in Curves BY <2>2 DEF Restrict
  <2>4. g \in Boards(Curves) /\ DOMAIN g = DOMAIN b \ DOMAIN m.items BY WithoutIs, WithoutDomain
  <2>5. g \in [DOMAIN g -> Curves] BY <2>4, BoardIs
  <2>6. back \subseteq DOMAIN m.items OBVIOUS
  <2> HIDE DEF f, g, back
  <2>7. Over(f, g) \in [back \union DOMAIN g -> Curves] BY <2>3, <2>5 DEF Over
  <2>8. DOMAIN Over(f, g) = back \union DOMAIN g BY <2>3 DEF Over
  <2>9. back \union DOMAIN g \subseteq DOMAIN b \union DOMAIN m.items BY <2>4, <2>6
  <2>10. back \union DOMAIN g \subseteq Line BY <1>2, <2>2, <2>9
  <2>11. Over(f, g) \in Boards(Curves) BY <2>7, <2>8, <2>10, BoardIs
  <2> QED BY <1>7, <2>1, <2>8, <2>9, <2>11
<1> QED BY <1>1, <1>3, <1>4, <1>5, <1>6, <1>7

LEMMA RememberedType ==
  ASSUME board \in Boards(Curves), was \in Boards(Curves \union {Gone}), NEW lines
  PROVE  /\ Remembered(lines) \in Boards(Curves \union {Gone})
         /\ DOMAIN Remembered(lines) \subseteq DOMAIN board \union DOMAIN was
<1> DEFINE f == Restrict(board, lines \cap DOMAIN board)
<1>1. /\ DOMAIN board \subseteq Line /\ board \in [DOMAIN board -> Curves]
      /\ DOMAIN was \subseteq Line /\ was \in [DOMAIN was -> Curves \union {Gone}]
  BY BoardIs
<1>2. DOMAIN f \subseteq DOMAIN board /\ \A l \in DOMAIN f : f[l] \in Curves BY <1>1 DEF Restrict
<1>3. Remembered(lines) = Over(f, was) BY DEF Remembered
<1> HIDE DEF f
<1>4. /\ Over(f, was) \in [DOMAIN f \union DOMAIN was -> Curves \union {Gone}]
      /\ DOMAIN Over(f, was) = DOMAIN f \union DOMAIN was
  BY <1>1, <1>2 DEF Over
<1>5. DOMAIN f \union DOMAIN was \subseteq Line BY <1>1, <1>2
<1>6. Over(f, was) \in Boards(Curves \union {Gone}) BY <1>4, <1>5, BoardIs
<1> QED BY <1>2, <1>3, <1>4, <1>6

LEMMA TellingTypes ==
  ASSUME down \in [Socket -> Seq(Answers)]
  PROVE  /\ \A except : \A m \in Mutations : m.type \in {"delete", "clear", "restore"} =>
              Told(except, m) \in [Socket -> Seq(Answers)]
         /\ \A s \in Socket, ok \in BOOLEAN :
              Next0(s) \in Messages /\ Next0(s).type \in Writes =>
                Answer(s, ok) \in [Socket -> Seq(Answers)]
<1>1. ASSUME NEW except, NEW m \in Mutations, m.type \in {"delete", "clear", "restore"}
      PROVE  Told(except, m) \in [Socket -> Seq(Answers)]
  <2> DEFINE a == [type |-> m.type, id |-> m.id, kept |-> TRUE]
  <2>1. m.id \in Line BY MutationFields
  <2>2. a \in Answers BY <1>1, <2>1 DEF Answers
  <2> HIDE DEF a
  <2>3. \A s \in Socket : Append(down[s], a) \in Seq(Answers) BY <2>2, AppendProperties
  <2> QED BY <2>3 DEF Told, a
<1>2. ASSUME NEW s \in Socket, NEW ok \in BOOLEAN, Next0(s) \in Messages, Next0(s).type \in Writes
      PROVE  Answer(s, ok) \in [Socket -> Seq(Answers)]
  <2> DEFINE n == Next0(s)
             a == [type |-> "answer", id |-> n.id, kept |-> n.kept, write |-> n, ok |-> ok]
  <2>1. n.id \in Line /\ n.kept \in BOOLEAN /\ n \in {m \in Messages : m.type \in Writes}
    BY <1>2, MessageFields DEF Writes
  <2>2. a \in Answers BY <2>1 DEF Answers
  <2> HIDE DEF a
  <2>3. Append(down[s], a) \in Seq(Answers) BY <2>2, AppendProperties
  <2> QED BY <2>3 DEF Answer, a
<1> QED BY <1>1, <1>2

-----------------------------------------------------------------------------
(* The server reads a message of a socket *)

LEMMA HistoryNext ==
  ASSUME NEW f, HistoryOK(f), Keeps(f)
  PROVE  HistoryOK(History)' /\ strokes' = f.strokes /\ journal' = f.journal
<1>1. f = Made(f.strokes, f.curves, f.journal) BY HistoryIs
<1>2. strokes' = f.strokes /\ curves' = f.curves /\ journal' = f.journal BY DEF Keeps
<1>3. History' = f BY <1>1, <1>2 DEF History, Made
<1>4. HistoryOK(History') BY <1>3
<1> QED BY <1>2, <1>4

LEMMA ServerVars ==
  ASSUME VarsOK, UNCHANGED <<tab, drawn>>, up' \in [Socket -> Seq(Messages)],
         down' \in [Socket -> Seq(Answers)], board' \in Boards(Curves),
         was' \in Boards(Curves \union {Gone})
  PROVE  VarsOK'
<1>1. /\ line' = line /\ count' = count /\ finished' = finished /\ cleaned' = cleaned
      /\ queue' = queue /\ link' = link /\ drawn' = drawn
  BY DEF tab
<1> QED BY <1>1 DEF VarsOK

\* What may follow the message that the server has read.
LEMMA PendingFits ==
  ASSUME NEW t, NEW a, \A m \in Written(t) : Fits(a, m),
         t.line # None => Fits(a, Message("append", t.line, None))
  PROVE  /\ a.type = "create" => \A l : <<"create", l>> \in Pending(t) => a.id < l
         /\ a.type = "create" => \A l : <<"append", l>> \in Pending(t) => a.id <= l
         /\ a.type = "end" => \A l : <<"append", l>> \in Pending(t) => a.id # l
         /\ a.type = "gone" => Pending(t) = {}
<1>1. \A l : <<"create", l>> \in Pending(t) =>
        \E m \in Written(t) : m.type = "create" /\ m.id = l
  BY DEF Pending
<1>2. \A l : <<"append", l>> \in Pending(t) =>
        (\E m \in Written(t) : m.type = "append" /\ m.id = l) \/ (t.line = l /\ t.line # None)
  BY DEF Pending
<1>3. \A l : LET m == Message("append", l, None) IN m.type = "append" /\ m.id = l BY DEF Message
<1>4. a.type = "gone" => Written(t) = {} /\ t.line = None BY DEF Fits
<1>5. Written(t) = {} /\ t.line = None => Pending(t) = {} BY DEF Pending
<1>6. ASSUME a.type = "create", NEW l, <<"create", l>> \in Pending(t) PROVE a.id < l
  <2>1. PICK m \in Written(t) : m.type = "create" /\ m.id = l BY <1>1, <1>6
  <2> QED BY <1>6, <2>1 DEF Fits
<1>7. ASSUME NEW l, <<"append", l>> \in Pending(t)
      PROVE  (a.type = "create" => a.id <= l) /\ (a.type = "end" => a.id # l)
  <2>1. CASE \E m \in Written(t) : m.type = "append" /\ m.id = l BY <2>1 DEF Fits
  <2>2. CASE t.line = l /\ t.line # None BY <1>3, <2>2 DEF Fits
  <2> QED BY <1>2, <1>7, <2>1, <2>2
<1> QED BY <1>4, <1>5, <1>6, <1>7

\* The state after the server has read a message of socket s, by which the lines N
\* become recorded: what has to be seen of s alone.
LEMMA ServedKeeps ==
  ASSUME StrokeInv, NEW s \in Socket, up[s] # <<>>, Served(s), UNCHANGED <<tab, drawn>>,
         down' \in [Socket -> Seq(Answers)], board' \in Boards(Curves),
         was' \in Boards(Curves \union {Gone}), HistoryOK(History)',
         NEW N, N \subseteq LinesFor(s), Recorded(journal') = Recorded(journal) \union N,
         DOMAIN board' \union DOMAIN was' \subseteq Recorded(journal'),
         \A u \in Socket : u # s => strokes'[u].id = strokes[u].id,
         strokes'[s].id \in {strokes[s].id, None} \union N,
         \A l \in Line : <<"create", l>> \in Pending(Of(s)') => l \notin N /\ strokes'[s].id < l,
         \A l \in Recorded(journal') : <<"append", l>> \in Pending(Of(s)') => strokes'[s].id = l
  PROVE  StrokeInv'
<1>1. /\ \A u \in Socket : /\ TabOK(Of(u)', drawn) /\ Pending(Of(u)') \subseteq Pending(Of(u))
                           /\ link'[u] # "closed" => Live(Of(u)')
      /\ up' \in [Socket -> Seq(Messages)]
  BY TabsServed
<1>2. VarsOK' BY <1>1, ServerVars DEF StrokeInv
<1>3. N \subseteq 1..drawn BY DEF StrokeInv, SocketOK
<1>4. N \subseteq Line
  <2>1. drawn \in 0..MaxLines BY DEF StrokeInv, VarsOK
  <2> QED BY <1>3, <2>1, StrokeAssumption DEF Line
<1>5. \A u \in Socket : u # s => N \intersect LinesFor(u) = {}
  <2> SUFFICES ASSUME NEW u \in Socket, u # s PROVE N \intersect LinesFor(u) = {}
    OBVIOUS
  <2>1. LinesFor(s) \intersect LinesFor(u) = {} BY DEF StrokeInv
  <2> QED BY <2>1
<1>6. \A u \in Socket : strokes'[u].id \in {strokes[u].id, None} \union (N \intersect LinesFor(u))
  <2> SUFFICES ASSUME NEW u \in Socket
               PROVE  strokes'[u].id \in {strokes[u].id, None} \union (N \intersect LinesFor(u))
    OBVIOUS
  <2> QED OBVIOUS
<1>7. ASSUME NEW u \in Socket, u # s, NEW l \in Line, NEW type \in {"create", "append"},
             <<type, l>> \in Pending(Of(u)')
      PROVE  <<type, l>> \in Pending(Of(u)) /\ l \notin N
  <2>1. <<type, l>> \in Pending(Of(u)) BY <1>1, <1>7
  <2>2. l \in LinesFor(u) BY <2>1 DEF LinesFor
  <2> QED BY <1>5, <1>7, <2>1, <2>2
<1>8. \A u \in Socket : \A l \in Line :
        <<"create", l>> \in Pending(Of(u)') => l \notin N /\ strokes'[u].id < l
  <2> SUFFICES ASSUME NEW u \in Socket, u # s, NEW l \in Line, <<"create", l>> \in Pending(Of(u)')
               PROVE  l \notin N /\ strokes'[u].id < l
    OBVIOUS
  <2>1. <<"create", l>> \in Pending(Of(u)) /\ l \notin N BY <1>7
  <2>2. strokes[u].id < l BY <2>1 DEF StrokeInv, SocketOK
  <2> QED BY <2>1, <2>2
<1>9. \A u \in Socket : \A l \in Recorded(journal') :
        <<"append", l>> \in Pending(Of(u)') => strokes'[u].id = l
  <2> SUFFICES ASSUME NEW u \in Socket, u # s, NEW l \in Recorded(journal'),
                      <<"append", l>> \in Pending(Of(u)')
               PROVE  strokes'[u].id = l
    OBVIOUS
  <2>1. l \in Line BY DEF Recorded
  <2>2. <<"append", l>> \in Pending(Of(u)) /\ l \notin N BY <1>7, <2>1
  <2>3. strokes[u].id = l BY <2>2 DEF StrokeInv, SocketOK
  <2> QED BY <2>3
<1>10. /\ \A u \in Socket : TabOK(Of(u)', drawn) /\ Pending(Of(u)') \subseteq Pending(Of(u))
       /\ \A u \in Socket : link'[u] # "closed" => Live(Of(u)')
       /\ drawn' = drawn
  BY <1>1
<1> QED BY <1>2, <1>3, <1>4, <1>6, <1>8, <1>9, <1>10, ServerStepKeeps

\* Nothing becomes recorded, and no other stroke is open.
LEMMA AsBefore ==
  ASSUME StrokeInv, NEW s \in Socket, up[s] # <<>>, Served(s), UNCHANGED <<tab, drawn>>,
         down' \in [Socket -> Seq(Answers)], board' \in Boards(Curves),
         was' \in Boards(Curves \union {Gone}), HistoryOK(History)',
         Recorded(journal') = Recorded(journal),
         DOMAIN board' \union DOMAIN was' \subseteq Recorded(journal'),
         \A u \in Socket : strokes'[u].id = strokes[u].id
  PROVE  StrokeInv'
<1>1. Pending(Of(s)') \subseteq Pending(Of(s)) BY TabsServed
<1>2. /\ \A l \in Line : <<"create", l>> \in Pending(Of(s)) => strokes[s].id < l
      /\ \A l \in Recorded(journal) : <<"append", l>> \in Pending(Of(s)) => strokes[s].id = l
  BY DEF StrokeInv, SocketOK
<1> DEFINE N == {}
<1>3. /\ N \subseteq LinesFor(s) /\ Recorded(journal') = Recorded(journal) \union N
      /\ strokes'[s].id \in {strokes[s].id, None} \union N
  OBVIOUS
<1>4. /\ \A l \in Line : <<"create", l>> \in Pending(Of(s)') => l \notin N /\ strokes'[s].id < l
      /\ \A l \in Recorded(journal') : <<"append", l>> \in Pending(Of(s)') => strokes'[s].id = l
  BY <1>1, <1>2
<1> HIDE DEF N
<1> QED BY <1>3, <1>4, ServedKeeps

LEMMA AcceptKeeps == ASSUME StrokeInv, NEW s \in Socket, AcceptWrite(s) PROVE StrokeInv'
<1> DEFINE a == Next0(s)
           l == a.id
           m == Mutation(a.type, l, a.point)
<1>1. /\ up[s] # <<>> /\ Served(s) /\ UNCHANGED <<tab, drawn>> /\ down' = Answer(s, TRUE)
      /\ a.type \in {"create", "append"} /\ Acceptable(a) /\ board' = Apply(board, m)
      /\ was' = IF m.type = "create" THEN With(was, m.id, Gone) ELSE was
      /\ \E at \in Moments : Keeps(Commit(History, s, m, at))
  BY DEF AcceptWrite, Draws
<1>2. a \in Messages /\ <<a.type, l>> \in Pending(Of(s)) BY <1>1, HeadNow
<1>3. /\ HistoryOK(History) /\ journal \in Seq(Entries) /\ strokes \in [Socket -> Strokes]
      /\ board \in Boards(Curves) /\ was \in Boards(Curves \union {Gone})
      /\ DOMAIN board \union DOMAIN was \subseteq Recorded(journal)
      /\ History.strokes = strokes /\ History.journal = journal
      /\ \A at \in Moments : at \in Nat /\ Last0(journal) <= at
  BY ServerNow
<1>4. l \in Line /\ (a.type = "append" => a.point \in Point) /\ a.point \in Point \union {None}
  BY <1>1, <1>2, MessageFields
<1>5. m \in Mutations /\ m.type = a.type /\ m.id = l BY <1>1, <1>4, MutationIs
<1>6. down' \in [Socket -> Seq(Answers)]
  <2>1. down \in [Socket -> Seq(Answers)] BY DEF StrokeInv, VarsOK
  <2>2. a.type \in Writes /\ TRUE \in BOOLEAN BY <1>1 DEF Writes
  <2> QED BY <1>1, <1>2, <2>1, <2>2, TellingTypes
<1>7. /\ \A w \in Written(Of(s)') : Fits(a, w)
      /\ Of(s)'.line # None => Fits(a, Message("append", Of(s)'.line, None))
      /\ Pending(Of(s)') \subseteq Pending(Of(s))
  BY <1>1, <1>6, TabsServed
<1>8. /\ a.type = "create" => \A k : <<"create", k>> \in Pending(Of(s)') => l < k
      /\ a.type = "create" => \A k : <<"append", k>> \in Pending(Of(s)') => l <= k
  <2> DEFINE t == Of(s)'
  <2> HIDE DEF t, a
  <2>1. /\ \A w \in Written(t) : Fits(a, w)
        /\ t.line # None => Fits(a, Message("append", t.line, None))
    BY <1>7 DEF t
  <2> QED BY <2>1, PendingFits DEF t
<1>9. m.type = "append" => l \in DOMAIN board BY <1>1, <1>5 DEF Acceptable
<1>10. board' \in Boards(Curves) BY <1>1, <1>3, <1>5, <1>9, ApplyType
<1>11. /\ <<"create", l>> \in Pending(Of(s)) => l \notin Recorded(journal) /\ strokes[s].id < l
       /\ \A k \in Recorded(journal) : <<"append", k>> \in Pending(Of(s)) => strokes[s].id = k
       /\ \A k \in Line : <<"create", k>> \in Pending(Of(s)) =>
            k \notin Recorded(journal) /\ strokes[s].id < k
  BY <1>4 DEF StrokeInv, SocketOK
<1>12. PICK at \in Moments : Keeps(Commit(History, s, m, at)) BY <1>1
<1>13. at \in Nat /\ Last0(History.journal) <= at BY <1>3
<1> DEFINE f == Commit(History, s, m, at)
<1>14. CASE a.type = "create"
  <2>1. l \notin Recorded(History.journal) /\ strokes[s].id < l
    BY <1>2, <1>3, <1>11, <1>14
  <2>2. /\ HistoryOK(f) /\ Recorded(f.journal) = Recorded(History.journal) \union {l}
        /\ f.strokes[s].id = l /\ \A u \in Socket : u # s => f.strokes[u] = History.strokes[u]
    <3> HIDE DEF m, l, a
    <3>1. m.type = "create" /\ m.id \notin Recorded(History.journal) BY <1>5, <1>14, <2>1
    <3>2. /\ HistoryOK(f)
          /\ Adds(History.journal, f.journal, m.id)
          /\ f.strokes[s].id = m.id /\ \A u \in Socket : u # s => f.strokes[u] = History.strokes[u]
      BY <1>3, <1>5, <1>13, <3>1, CommitLineKeeps
    <3> HIDE DEF f
    <3> QED BY <1>5, <3>2 DEF Adds
  <2> HIDE DEF f, a, l, m
  <2>3. HistoryOK(History)' /\ strokes' = f.strokes /\ journal' = f.journal
    BY <1>12, <2>2, HistoryNext DEF f
  <2>4. /\ Recorded(journal') = Recorded(journal) \union {l} /\ strokes'[s].id = l
        /\ \A u \in Socket : u # s => strokes'[u].id = strokes[u].id
    BY <1>3, <2>2, <2>3
  <2>5. {l} \subseteq LinesFor(s) BY <1>2 DEF LinesFor, l
  <2>6. was' = With(was, l, Gone) BY <1>1, <1>5, <1>14 DEF m, l
  <2>7. was' \in Boards(Curves \union {Gone})
    <3> DEFINE V == Curves \union {Gone}
    <3>1. was \in Boards(V) /\ Gone \in V BY <1>3
    <3> HIDE DEF V
    <3>2. was' \in Boards(V) BY <1>4, <2>6, <3>1, WithIs
    <3> QED BY <3>2 DEF V
  <2>8. DOMAIN was' = DOMAIN was \union {l} BY <2>6 DEF With
  <2>9. DOMAIN board' = DOMAIN board \union {l} BY <1>1, <1>3, <1>5, <1>9, <1>14, ApplyType
  <2>10. DOMAIN board' \union DOMAIN was' \subseteq Recorded(journal')
    BY <1>3, <2>4, <2>8, <2>9
  <2>11. strokes'[s].id \in {strokes[s].id, None} \union {l} BY <2>4
  <2>12. \A k \in Line : <<"create", k>> \in Pending(Of(s)') => k \notin {l} /\ strokes'[s].id < k
    <3> SUFFICES ASSUME NEW k \in Line, <<"create", k>> \in Pending(Of(s)')
                 PROVE  k \notin {l} /\ strokes'[s].id < k
      OBVIOUS
    <3>1. l < k BY <1>8, <1>14
    <3> QED BY <1>4, <2>4, <3>1, LineIsFinite
  <2>13. \A k \in Recorded(journal') : <<"append", k>> \in Pending(Of(s)') => strokes'[s].id = k
    <3> SUFFICES ASSUME NEW k \in Recorded(journal'), <<"append", k>> \in Pending(Of(s)'), k # l
                 PROVE  FALSE
      BY <2>4
    <3>1. k \in Recorded(journal) /\ k \in Line BY <2>4 DEF Recorded
    <3>2. strokes[s].id = k BY <1>7, <1>11, <3>1
    <3>3. l <= k BY <1>8, <1>14
    <3> QED BY <1>4, <2>1, <3>1, <3>2, <3>3, LineIsFinite
  <2>14. Served(s) /\ UNCHANGED <<tab, drawn>> /\ up[s] # <<>> BY <1>1
  <2> QED
    BY <1>6, <1>10, <2>3, <2>4, <2>5, <2>7, <2>10, <2>11, <2>12, <2>13, <2>14, ServedKeeps
<1>15. CASE a.type = "append"
  <2>1. l \in Recorded(journal) BY <1>3, <1>5, <1>9, <1>15
  <2>2. strokes[s].id = l BY <1>2, <1>11, <1>15, <2>1
  <2>3. /\ HistoryOK(f) /\ Recorded(f.journal) = Recorded(History.journal)
        /\ \A u \in Socket : f.strokes[u].id = History.strokes[u].id
    BY <1>3, <1>5, <1>13, <1>15, <2>2, CommitPointKeeps
  <2> HIDE DEF f, a, l, m
  <2>4. HistoryOK(History)' /\ strokes' = f.strokes /\ journal' = f.journal
    BY <1>12, <2>3, HistoryNext DEF f
  <2>5. /\ Recorded(journal') = Recorded(journal)
        /\ \A u \in Socket : strokes'[u].id = strokes[u].id
    BY <1>3, <2>3, <2>4
  <2>6. was' = was BY <1>1, <1>5, <1>15 DEF m, l
  <2>7. DOMAIN board' \subseteq DOMAIN board BY <1>1, <1>3, <1>5, <1>9, <1>15, ApplyType
  <2>8. DOMAIN board' \union DOMAIN was' \subseteq Recorded(journal') BY <1>3, <2>5, <2>6, <2>7
  <2>9. was' \in Boards(Curves \union {Gone}) BY <1>3, <2>6
  <2>10. Served(s) /\ UNCHANGED <<tab, drawn>> /\ up[s] # <<>> BY <1>1
  <2> QED BY <1>6, <1>10, <2>4, <2>5, <2>8, <2>9, <2>10, AsBefore
<1> QED BY <1>1, <1>14, <1>15

LEMMA RefuseKeeps == ASSUME StrokeInv, NEW s \in Socket, RefuseWrite(s) PROVE StrokeInv'
<1>1. /\ up[s] # <<>> /\ Next0(s).type \in {"create", "append"} /\ Served(s)
      /\ down' = Answer(s, FALSE) /\ UNCHANGED <<tab, drawn>> /\ UNCHANGED server
  BY DEF RefuseWrite, Draws
<1>2. down' \in [Socket -> Seq(Answers)]
  <2>1. down \in [Socket -> Seq(Answers)] BY DEF StrokeInv, VarsOK
  <2>2. Next0(s) \in Messages BY <1>1, HeadNow
  <2>3. Next0(s).type \in Writes /\ FALSE \in BOOLEAN BY <1>1 DEF Writes
  <2> QED BY <1>1, <2>1, <2>2, <2>3, TellingTypes
<1>3. board' = board /\ strokes' = strokes /\ curves' = curves /\ journal' = journal /\ was' = was
  BY <1>1 DEF server
<1>4. HistoryOK(History)'
  <2>1. HistoryOK(History) BY DEF StrokeInv
  <2>2. History' = History BY <1>3 DEF History
  <2> QED BY <2>1, <2>2
<1>5. /\ board' \in Boards(Curves) /\ was' \in Boards(Curves \union {Gone})
      /\ DOMAIN board' \union DOMAIN was' \subseteq Recorded(journal')
      /\ Recorded(journal') = Recorded(journal)
      /\ \A u \in Socket : strokes'[u].id = strokes[u].id
  BY <1>3, ServerNow
<1> QED BY <1>1, <1>2, <1>4, <1>5, AsBefore

LEMMA DeleteKeeps == ASSUME StrokeInv, NEW s \in Socket, DeleteLine(s) PROVE StrokeInv'
<1> DEFINE a == Next0(s)
           m == Mutation("delete", a.id, None)
<1>1. /\ up[s] # <<>> /\ Served(s) /\ UNCHANGED <<tab, drawn>> /\ a.type = "delete"
      /\ down' = [Told(s, m) EXCEPT ![s] = Answer(s, TRUE)[s]]
      /\ board' = Apply(board, m) /\ was' = Remembered({m.id})
      /\ \E at \in Moments : Keeps(Commit(History, s, m, at))
  BY DEF DeleteLine
<1>2. a \in Messages BY <1>1, HeadNow
<1>3. /\ HistoryOK(History) /\ journal \in Seq(Entries)
      /\ board \in Boards(Curves) /\ was \in Boards(Curves \union {Gone})
      /\ DOMAIN board \union DOMAIN was \subseteq Recorded(journal)
      /\ History.strokes = strokes /\ History.journal = journal
      /\ \A at \in Moments : at \in Nat /\ Last0(journal) <= at
  BY ServerNow
<1>4. a.id \in Line BY <1>1, <1>2, MessageFields
<1>5. m \in Mutations /\ m.type = "delete" BY <1>4, MutationIs
<1>6. down' \in [Socket -> Seq(Answers)]
  <2>1. down \in [Socket -> Seq(Answers)] BY DEF StrokeInv, VarsOK
  <2>2. a.type \in Writes /\ TRUE \in BOOLEAN BY <1>1 DEF Writes
  <2>3. Told(s, m) \in [Socket -> Seq(Answers)] BY <1>5, <2>1, TellingTypes
  <2>4. Answer(s, TRUE) \in [Socket -> Seq(Answers)] BY <1>2, <2>1, <2>2, TellingTypes
  <2> HIDE DEF m
  <2> QED BY <1>1, <2>3, <2>4
<1>7. board' \in Boards(Curves) /\ DOMAIN board' \subseteq DOMAIN board
  BY <1>1, <1>3, <1>5, ApplyType
<1>8. was' \in Boards(Curves \union {Gone}) /\ DOMAIN was' \subseteq DOMAIN board \union DOMAIN was
  BY <1>1, <1>3, RememberedType
<1>9. PICK at \in Moments : Keeps(Commit(History, s, m, at)) BY <1>1
<1> DEFINE f == Commit(History, s, m, at)
<1> HIDE DEF m
<1>10. /\ HistoryOK(f) /\ Recorded(f.journal) = Recorded(History.journal)
       /\ f.strokes = History.strokes
  BY <1>3, <1>5, CommitOtherKeeps
<1> HIDE DEF f
<1>11. HistoryOK(History)' /\ strokes' = f.strokes /\ journal' = f.journal
  BY <1>9, <1>10, HistoryNext DEF f
<1>12. /\ Recorded(journal') = Recorded(journal)
       /\ \A u \in Socket : strokes'[u].id = strokes[u].id
  BY <1>3, <1>10, <1>11
<1>13. DOMAIN board' \union DOMAIN was' \subseteq Recorded(journal') BY <1>3, <1>7, <1>8, <1>12
<1> QED BY <1>1, <1>6, <1>7, <1>8, <1>11, <1>12, <1>13, AsBefore

LEMMA EndKeeps == ASSUME StrokeInv, NEW s \in Socket, StrokeEnd(s) PROVE StrokeInv'
<1> DEFINE a == Next0(s)
<1>1. /\ up[s] # <<>> /\ Served(s) /\ UNCHANGED <<tab, drawn>> /\ a.type = "end"
      /\ down' = down /\ board' = board /\ was' = was
      /\ \/ \E at \in Moments : Keeps(FinishStroke(History, s, a.id, at, "release"))
         \/ strokes' = strokes /\ curves' = curves /\ journal' = journal
  BY DEF StrokeEnd
<1>2. /\ HistoryOK(History) /\ strokes \in [Socket -> Strokes]
      /\ board \in Boards(Curves) /\ was \in Boards(Curves \union {Gone})
      /\ DOMAIN board \union DOMAIN was \subseteq Recorded(journal)
      /\ History.strokes = strokes /\ History.journal = journal
      /\ \A at \in Moments : at \in Nat /\ Last0(journal) <= at
  BY ServerNow
<1>3. /\ down' \in [Socket -> Seq(Answers)] /\ board' \in Boards(Curves)
      /\ was' \in Boards(Curves \union {Gone})
      /\ DOMAIN board' \union DOMAIN was' \subseteq Recorded(journal)
  BY <1>1, <1>2 DEF StrokeInv, VarsOK
<1>4. CASE strokes' = strokes /\ curves' = curves /\ journal' = journal
  <2>1. History' = History BY <1>4 DEF History
  <2>2. HistoryOK(History)' BY <1>2, <2>1
  <2>3. Recorded(journal') = Recorded(journal) /\ \A u \in Socket : strokes'[u].id = strokes[u].id
    BY <1>4
  <2>4. DOMAIN board' \union DOMAIN was' \subseteq Recorded(journal') BY <1>3, <2>3
  <2> QED BY <1>1, <1>3, <2>2, <2>3, <2>4, AsBefore
<1>5. CASE \E at \in Moments : Keeps(FinishStroke(History, s, a.id, at, "release"))
  <2>1. PICK at \in Moments : Keeps(FinishStroke(History, s, a.id, at, "release")) BY <1>5
  <2> DEFINE l == a.id
             f == FinishStroke(History, s, l, at, "release")
  <2>2. a.id \in Line /\ a.id # None
    <3>1. a \in Messages BY <1>1, HeadNow
    <3> QED BY <1>1, <3>1, MessageFields, LineIsFinite
  <2>3. at \in Nat /\ Last0(History.journal) <= at BY <1>2
  <2>4. /\ HistoryOK(f) /\ Recorded(f.journal) = Recorded(History.journal)
        /\ \A u \in Socket : \/ f.strokes[u] = History.strokes[u]
                             \/ u = s /\ f.strokes[u] = NoStroke
        /\ History.strokes[s].id # None /\ History.strokes[s].id # l /\ l # None => f = History
    <3> HIDE DEF l
    <3> QED BY <1>2, <2>3, FinishKeeps
  <2> HIDE DEF f, l
  <2>5. HistoryOK(History)' /\ strokes' = f.strokes /\ journal' = f.journal
    BY <2>1, <2>4, HistoryNext DEF f, l
  <2>6. /\ Recorded(journal') = Recorded(journal)
        /\ \A u \in Socket : strokes'[u] = strokes[u] \/ (u = s /\ strokes'[u] = NoStroke)
        /\ strokes[s].id # None /\ strokes[s].id # l => strokes'[s] = strokes[s]
    BY <1>2, <2>2, <2>4, <2>5 DEF l
  <2>7. /\ \A w \in Written(Of(s)') : Fits(a, w)
        /\ Of(s)'.line # None => Fits(a, Message("append", Of(s)'.line, None))
        /\ Pending(Of(s)') \subseteq Pending(Of(s))
    BY <1>1, <1>3, TabsServed
  <2>8. \A k : <<"append", k>> \in Pending(Of(s)') => k # l
    <3> DEFINE t == Of(s)'
    <3> HIDE DEF t, a
    <3>1. /\ \A w \in Written(t) : Fits(a, w)
          /\ t.line # None => Fits(a, Message("append", t.line, None))
      BY <2>7 DEF t
    <3> QED BY <1>1, <3>1, PendingFits DEF t, l
  <2>9. /\ \A k \in Line : <<"create", k>> \in Pending(Of(s)) => strokes[s].id < k
        /\ \A k \in Recorded(journal) : <<"append", k>> \in Pending(Of(s)) => strokes[s].id = k
    BY DEF StrokeInv, SocketOK
  <2> DEFINE N == {}
  <2>10. NoStroke.id = None BY DEF NoStroke, None
  <2>11. /\ N \subseteq LinesFor(s) /\ Recorded(journal') = Recorded(journal) \union N
         /\ strokes'[s].id \in {strokes[s].id, None} \union N
         /\ \A u \in Socket : u # s => strokes'[u].id = strokes[u].id
    BY <2>6, <2>10
  <2>12. \A k \in Line : <<"create", k>> \in Pending(Of(s)') => k \notin N /\ strokes'[s].id < k
    <3> SUFFICES ASSUME NEW k \in Line, <<"create", k>> \in Pending(Of(s)')
                 PROVE  strokes'[s].id < k
      OBVIOUS
    <3>1. strokes[s].id < k BY <2>7, <2>9
    <3>2. 0 < k BY LineIsFinite
    <3> QED BY <2>6, <2>10, <3>1, <3>2 DEF None
  <2>13. \A k \in Recorded(journal') : <<"append", k>> \in Pending(Of(s)') => strokes'[s].id = k
    <3> SUFFICES ASSUME NEW k \in Recorded(journal), <<"append", k>> \in Pending(Of(s)')
                 PROVE  strokes'[s].id = k
      BY <2>6
    <3>1. strokes[s].id = k /\ k # l /\ k \in Line BY <2>7, <2>8, <2>9 DEF Recorded
    <3>2. strokes[s].id # None /\ strokes[s].id # l BY <3>1, LineIsFinite
    <3> QED BY <2>6, <3>1, <3>2
  <2>14. DOMAIN board' \union DOMAIN was' \subseteq Recorded(journal') BY <1>3, <2>6
  <2> HIDE DEF N, a
  <2> QED BY <1>1, <1>3, <2>5, <2>11, <2>12, <2>13, <2>14, ServedKeeps
<1> QED BY <1>1, <1>4, <1>5

LEMMA DisconnectingKeeps == ASSUME StrokeInv, NEW s \in Socket, Disconnecting(s) PROVE StrokeInv'
<1> DEFINE a == Next0(s)
<1>1. /\ up[s] # <<>> /\ Served(s) /\ UNCHANGED <<tab, drawn>> /\ a.type = "gone"
      /\ down' = down /\ board' = board /\ was' = was
      /\ \E at \in Moments : Keeps(FinishStroke(History, s, None, at, "disconnected"))
  BY DEF Disconnecting
<1>2. /\ HistoryOK(History) /\ strokes \in [Socket -> Strokes]
      /\ board \in Boards(Curves) /\ was \in Boards(Curves \union {Gone})
      /\ DOMAIN board \union DOMAIN was \subseteq Recorded(journal)
      /\ History.strokes = strokes /\ History.journal = journal
      /\ \A at \in Moments : at \in Nat /\ Last0(journal) <= at
  BY ServerNow
<1>3. /\ down' \in [Socket -> Seq(Answers)] /\ board' \in Boards(Curves)
      /\ was' \in Boards(Curves \union {Gone})
      /\ DOMAIN board' \union DOMAIN was' \subseteq Recorded(journal)
  BY <1>1, <1>2 DEF StrokeInv, VarsOK
<1>4. PICK at \in Moments : Keeps(FinishStroke(History, s, None, at, "disconnected")) BY <1>1
<1> DEFINE f == FinishStroke(History, s, None, at, "disconnected")
<1>5. at \in Nat /\ Last0(History.journal) <= at BY <1>2
<1>6. /\ HistoryOK(f) /\ Recorded(f.journal) = Recorded(History.journal)
      /\ \A u \in Socket : \/ f.strokes[u] = History.strokes[u]
                           \/ u = s /\ f.strokes[u] = NoStroke
  <2> DEFINE l == None
             h == History
             g == FinishStroke(h, s, l, at, "disconnected")
  <2>1. HistoryOK(h) /\ Last0(h.journal) <= at BY <1>2, <1>5
  <2> HIDE DEF l, h
  <2>2. /\ HistoryOK(g) /\ Recorded(g.journal) = Recorded(h.journal)
        /\ \A u \in Socket : g.strokes[u] = h.strokes[u] \/ (u = s /\ g.strokes[u] = NoStroke)
    BY <1>5, <2>1, FinishKeeps
  <2> QED BY <2>2 DEF l, h
<1> HIDE DEF f
<1>7. HistoryOK(History)' /\ strokes' = f.strokes /\ journal' = f.journal
  BY <1>4, <1>6, HistoryNext DEF f
<1>8. /\ \A w \in Written(Of(s)') : Fits(a, w)
      /\ Of(s)'.line # None => Fits(a, Message("append", Of(s)'.line, None))
  BY <1>1, <1>3, TabsServed
<1>9. Pending(Of(s)') = {}
  <2> DEFINE t == Of(s)'
  <2> HIDE DEF t, a
  <2>1. /\ \A w \in Written(t) : Fits(a, w)
        /\ t.line # None => Fits(a, Message("append", t.line, None))
    BY <1>8 DEF t
  <2> QED BY <1>1, <2>1, PendingFits DEF t
<1> DEFINE N == {}
<1>10. NoStroke.id = None BY DEF NoStroke, None
<1>11. /\ N \subseteq LinesFor(s) /\ Recorded(journal') = Recorded(journal) \union N
       /\ strokes'[s].id \in {strokes[s].id, None} \union N
       /\ \A u \in Socket : u # s => strokes'[u].id = strokes[u].id
  BY <1>2, <1>6, <1>7, <1>10
<1>12. /\ \A k \in Line : <<"create", k>> \in Pending(Of(s)') => k \notin N /\ strokes'[s].id < k
       /\ \A k \in Recorded(journal') : <<"append", k>> \in Pending(Of(s)') => strokes'[s].id = k
  BY <1>9
<1>13. DOMAIN board' \union DOMAIN was' \subseteq Recorded(journal') BY <1>3, <1>11
<1> HIDE DEF N, a
<1> QED BY <1>1, <1>3, <1>7, <1>11, <1>12, <1>13, ServedKeeps

-----------------------------------------------------------------------------
(* Other users, and restarts *)

\* An edit of another user, which the tabs are told of.
LEMMA OthersKeep ==
  ASSUME StrokeInv, UNCHANGED <<tab, up, drawn>>, NEW m \in Mutations,
         m.type \in {"delete", "clear", "restore"}, down' = Told(None, m), Journals(m),
         board' = Apply(board, m), m.type = "restore" => DOMAIN m.items \subseteq Recorded(journal),
         was' \in Boards(Curves \union {Gone}), DOMAIN was' \subseteq Recorded(journal)
  PROVE  StrokeInv'
<1>1. /\ HistoryOK(History) /\ journal \in Seq(Entries) /\ strokes \in [Socket -> Strokes]
      /\ board \in Boards(Curves) /\ DOMAIN board \union DOMAIN was \subseteq Recorded(journal)
      /\ History.strokes = strokes /\ History.curves = curves /\ History.journal = journal
      /\ (\A at \in Moments : at \in Nat /\ Last0(journal) <= at) /\ drawn \in Nat
  BY ServerNow
<1>2. down' \in [Socket -> Seq(Answers)]
  <2>1. down \in [Socket -> Seq(Answers)] BY DEF StrokeInv, VarsOK
  <2> QED BY <2>1, TellingTypes
<1>3. /\ board' \in Boards(Curves) /\ DOMAIN board' \subseteq Recorded(journal)
  <2>1. m.type # "append" /\ m.type # "create" OBVIOUS
  <2>2. board' \in Boards(Curves) BY <1>1, <2>1, ApplyType
  <2>3. CASE m.type = "restore"
    <3>1. DOMAIN board' \subseteq DOMAIN board \union DOMAIN m.items
      BY <1>1, <2>1, <2>2, <2>3, ApplyType
    <3> QED BY <1>1, <2>2, <2>3, <3>1
  <2>4. CASE m.type # "restore"
    <3>1. DOMAIN board' \subseteq DOMAIN board BY <1>1, <2>1, <2>2, <2>4, ApplyType
    <3> QED BY <1>1, <2>2, <3>1
  <2> QED BY <2>3, <2>4
<1>4. PICK at \in Moments : /\ journal' = Append(journal, MutationRecord(at, m))
                            /\ strokes' = strokes /\ curves' = curves
  BY DEF Journals
<1> DEFINE f == [History EXCEPT !.journal = Append(History.journal, MutationRecord(at, m))]
<1>5. /\ HistoryOK(f) /\ Recorded(f.journal) = Recorded(History.journal)
      /\ f.strokes = History.strokes
  BY <1>1, JournalKeeps
<1>6. Keeps(f)
  <2>1. f.strokes = strokes /\ f.curves = curves
        /\ f.journal = Append(journal, MutationRecord(at, m))
    BY DEF History
  <2> HIDE DEF f
  <2> QED BY <1>4, <2>1 DEF Keeps
<1> HIDE DEF f
<1>7. HistoryOK(History)' /\ strokes' = f.strokes /\ journal' = f.journal
  BY <1>5, <1>6, HistoryNext
<1>8. /\ line' = line /\ count' = count /\ finished' = finished /\ cleaned' = cleaned
      /\ queue' = queue /\ link' = link /\ drawn' = drawn /\ up' = up
  BY DEF tab
<1>9. VarsOK'
  <2>1. up' \in [Socket -> Seq(Messages)] BY <1>8 DEF StrokeInv, VarsOK
  <2>2. VarsOK /\ UNCHANGED <<tab, drawn>> BY DEF StrokeInv
  <2> QED BY <1>2, <1>3, <2>1, <2>2, ServerVars
<1>10. ASSUME NEW u \in Socket PROVE Settles(Of(u), Of(u)', drawn)
  <2> DEFINE d == down'[u]
  <2>1. Of(u)' = [line |-> line[u], count |-> count[u], finished |-> finished[u],
                  cleaned |-> cleaned[u], queue |-> queue[u], up |-> up[u], down |-> d]
    BY <1>8 DEF Of
  <2>2. d \in Seq(Answers) BY <1>2
  <2>3. TabOK(Of(u), drawn) BY TabNow
  <2> HIDE DEF d
  <2>4. [Of(u) EXCEPT !.down = d]
          = [line |-> line[u], count |-> count[u], finished |-> finished[u],
             cleaned |-> cleaned[u], queue |-> queue[u], up |-> up[u], down |-> d]
    <3> SUFFICES ASSUME NEW t, t = [Of(u) EXCEPT !.down = d]
                 PROVE  t = [line |-> line[u], count |-> count[u], finished |-> finished[u],
                             cleaned |-> cleaned[u], queue |-> queue[u], up |-> up[u], down |-> d]
      OBVIOUS
    <3> QED BY DEF Of
  <2>5. Of(u)' = [Of(u) EXCEPT !.down = d] BY <2>1, <2>4
  <2>6. Settles(Of(u), [Of(u) EXCEPT !.down = d], drawn) BY <1>1, <2>2, <2>3, ToldSettles
  <2> HIDE DEF Settles
  <2> QED BY <2>5, <2>6
<1>11. /\ \A u \in Socket : TabOK(Of(u)', drawn) /\ Pending(Of(u)') \subseteq Pending(Of(u))
       /\ \A u \in Socket : link'[u] # "closed" => Live(Of(u)')
  <2> SUFFICES ASSUME NEW u \in Socket
               PROVE  /\ TabOK(Of(u)', drawn) /\ Pending(Of(u)') \subseteq Pending(Of(u))
                      /\ link'[u] # "closed" => Live(Of(u)')
    OBVIOUS
  <2>1. Settles(Of(u), Of(u)', drawn) BY <1>10
  <2>2. link'[u] # "closed" => Live(Of(u)) BY <1>8, TabNow
  <2> QED BY <2>1, <2>2 DEF Settles
<1> DEFINE N == {}
<1>12. Recorded(journal') = Recorded(journal) /\ strokes' = strokes BY <1>1, <1>4, <1>5, <1>7
<1>13. /\ N \in SUBSET Line /\ N \subseteq 1..drawn
       /\ Recorded(journal') = Recorded(journal) \union N
       /\ DOMAIN board' \union DOMAIN was' \subseteq Recorded(journal')
       /\ \A u \in Socket : strokes'[u].id \in {strokes[u].id, None} \union (N \intersect LinesFor(u))
  BY <1>3, <1>12
<1>14. /\ \A u \in Socket : \A l \in Line :
            <<"create", l>> \in Pending(Of(u)') => l \notin N /\ strokes'[u].id < l
       /\ \A u \in Socket : \A l \in Recorded(journal') :
            <<"append", l>> \in Pending(Of(u)') => strokes'[u].id = l
  <2>1. ASSUME NEW u \in Socket
        PROVE  /\ \A l \in Line : <<"create", l>> \in Pending(Of(u)) => strokes[u].id < l
               /\ \A l \in Recorded(journal) : <<"append", l>> \in Pending(Of(u)) => strokes[u].id = l
    BY DEF StrokeInv, SocketOK
  <2> QED BY <1>11, <1>12, <2>1
<1> HIDE DEF N
<1> QED BY <1>7, <1>8, <1>9, <1>11, <1>13, <1>14, ServerStepKeeps

LEMMA EraseKeeps == ASSUME StrokeInv, Erase PROVE StrokeInv'
<1>1. PICK l \in Line, type \in {"delete", "clear"} :
        LET m == Mutation(type, l, None)
        IN  /\ board' = Apply(board, m) /\ down' = Told(None, m) /\ Journals(m)
            /\ was' = Remembered(IF type = "clear" THEN Line ELSE {l})
  BY DEF Erase
<1> DEFINE m == Mutation(type, l, None)
<1>2. UNCHANGED <<tab, up, drawn>> BY DEF Erase
<1>3. m \in Mutations /\ m.type = type /\ type \in {"delete", "clear"} BY MutationIs
<1>4. /\ board \in Boards(Curves) /\ was \in Boards(Curves \union {Gone})
      /\ DOMAIN board \union DOMAIN was \subseteq Recorded(journal)
  BY ServerNow
<1>5. board' = Apply(board, m) /\ down' = Told(None, m) /\ Journals(m) BY <1>1
<1>6. \E lines : was' = Remembered(lines) BY <1>1
<1>7. was' \in Boards(Curves \union {Gone}) /\ DOMAIN was' \subseteq Recorded(journal)
  <2>1. PICK lines : was' = Remembered(lines) BY <1>6
  <2>2. /\ Remembered(lines) \in Boards(Curves \union {Gone})
        /\ DOMAIN Remembered(lines) \subseteq DOMAIN board \union DOMAIN was
    BY <1>4, RememberedType
  <2> QED BY <1>4, <2>1, <2>2
<1> HIDE DEF m
<1>8. m.type \in {"delete", "clear", "restore"} /\ m.type # "restore" BY <1>3
<1> QED BY <1>2, <1>3, <1>5, <1>7, <1>8, OthersKeep

LEMMA UndoKeeps == ASSUME StrokeInv, UndoOrRedo PROVE StrokeInv'
<1>1. PICK l \in DOMAIN was :
        LET m == [Mutation("restore", l, None) EXCEPT !.items = With(Nothing, l, was[l])]
        IN  /\ board' = Apply(board, m) /\ down' = Told(None, m) /\ Journals(m)
            /\ was' = With(was, l, IF l \in DOMAIN board THEN board[l] ELSE Gone)
  BY DEF UndoOrRedo
<1> DEFINE m == [Mutation("restore", l, None) EXCEPT !.items = With(Nothing, l, was[l])]
<1>2. UNCHANGED <<tab, up, drawn>> BY DEF UndoOrRedo
<1>3. /\ board \in Boards(Curves) /\ was \in Boards(Curves \union {Gone})
      /\ DOMAIN board \union DOMAIN was \subseteq Recorded(journal)
  BY ServerNow
<1>4. /\ DOMAIN board \subseteq Line /\ board \in [DOMAIN board -> Curves]
      /\ DOMAIN was \subseteq Line /\ was \in [DOMAIN was -> Curves \union {Gone}]
  BY <1>3, BoardIs
<1>5. l \in Line /\ was[l] \in Curves \union {Gone} BY <1>4
<1>6. m \in Mutations /\ m.type = "restore" /\ DOMAIN m.items = {l}
  <2> DEFINE v == was[l]
  <2>1. v \in Curves \union {Gone} BY <1>5
  <2> HIDE DEF v
  <2> DEFINE i == [Mutation("restore", l, None) EXCEPT !.items = With(Nothing, l, v)]
  <2>2. i \in Mutations /\ i.type = "restore" /\ DOMAIN i.items = {l} BY <1>5, <2>1, RestorationIs
  <2> QED BY <2>2 DEF v
<1>7. board' = Apply(board, m) /\ down' = Told(None, m) /\ Journals(m) BY <1>1
<1> DEFINE v == IF l \in DOMAIN board THEN board[l] ELSE Gone
<1>8. v \in Curves \union {Gone}
  <2>1. CASE l \in DOMAIN board BY <1>4, <2>1
  <2>2. CASE l \notin DOMAIN board BY <2>2
  <2> QED BY <2>1, <2>2
<1>9. was' = With(was, l, v) BY <1>1
<1> HIDE DEF m, v
<1>10. was' \in Boards(Curves \union {Gone})
  <2> DEFINE V == Curves \union {Gone}
  <2>1. was \in Boards(V) /\ v \in V BY <1>3, <1>8
  <2> HIDE DEF V
  <2>2. was' \in Boards(V) BY <1>5, <1>9, <2>1, WithIs
  <2> QED BY <2>2 DEF V
<1>11. DOMAIN was' = DOMAIN was \union {l} BY <1>9 DEF With
<1>12. DOMAIN was' \subseteq Recorded(journal) /\ DOMAIN m.items \subseteq Recorded(journal)
  BY <1>3, <1>6, <1>11
<1>13. m.type \in {"delete", "clear", "restore"} BY <1>6
<1> QED BY <1>2, <1>6, <1>7, <1>10, <1>12, <1>13, OthersKeep

\* A tab that does nothing.
NoTab == [line |-> None, count |-> 0, finished |-> {}, cleaned |-> {}, queue |-> <<>>,
          up |-> <<>>, down |-> <<>>]

LEMMA NoTabOK ==
  ASSUME NEW n \in Nat PROVE TabOK(NoTab, n) /\ Pending(NoTab) = {} /\ Live(NoTab)
<1> DEFINE t == NoTab
<1>1. /\ t.line = None /\ t.count = 0 /\ t.finished = {} /\ t.cleaned = {} /\ t.queue = <<>>
      /\ t.up = <<>> /\ t.down = <<>>
  BY DEF NoTab
<1>2. <<>> \in Seq(Messages) /\ <<>> \in Seq(Answers) BY EmptySeq
<1>3. 0 \in 0..MaxChildren - 1 BY StrokeAssumption
<1>4. t \in Tabs BY <1>2, <1>3 DEF Tabs, NoTab
<1>5. DOMAIN <<>> = {} OBVIOUS
<1>6. Range(<<>>) = {} /\ InOrder(<<>>) BY <1>5 DEF Range, InOrder
<1> HIDE DEF t
<1>7. Range(t.queue) = {} /\ Range(t.up) = {} BY <1>1, <1>6
<1>8. Written(t) = {} BY <1>7 DEF Written
<1>9. TabOK(t, n) BY <1>1, <1>4, <1>6, <1>7, <1>8 DEF TabOK, Before
<1>10. Pending(t) = {} BY <1>1, <1>8 DEF Pending
<1>11. Live(t) BY <1>7 DEF Live
<1> QED BY <1>9, <1>10, <1>11 DEF t

LEMMA RestartKeeps == ASSUME StrokeInv, Restart PROVE StrokeInv'
<1>1. /\ HistoryOK(History) /\ journal \in Seq(Entries) /\ strokes \in [Socket -> Strokes]
      /\ board \in Boards(Curves) /\ DOMAIN board \union DOMAIN was \subseteq Recorded(journal)
      /\ History.strokes = strokes /\ History.curves = curves /\ History.journal = journal
      /\ (\A at \in Moments : at \in Nat /\ Last0(journal) <= at) /\ drawn \in Nat
  BY ServerNow
<1>2. Recovered(journal) = [strokes |-> strokes, curves |-> curves] BY <1>1, HistoryIs
<1> DEFINE h == Recovered(journal)
           g == [strokes |-> h.strokes, curves |-> h.curves, journal |-> journal]
<1>3. g = History BY <1>2 DEF History
<1>4. PICK at \in Moments : Keeps(InterruptAll(g, at)) BY DEF Restart
<1> HIDE DEF g
<1> DEFINE f == InterruptAll(History, at)
<1>5. at \in Nat /\ Last0(History.journal) <= at BY <1>1
<1>6. /\ HistoryOK(f) /\ Recorded(f.journal) = Recorded(History.journal)
      /\ \A u \in Socket : f.strokes[u] = NoStroke
  BY <1>1, <1>5, InterruptKeeps
<1>7. Keeps(f) BY <1>3, <1>4
<1> HIDE DEF f
<1>8. HistoryOK(History)' /\ strokes' = f.strokes /\ journal' = f.journal
  BY <1>6, <1>7, HistoryNext
<1>9. /\ link' = [u \in Socket |-> IF link[u] = "open" THEN "closed" ELSE link[u]]
      /\ line' = [u \in Socket |-> None] /\ count' = [u \in Socket |-> 0]
      /\ finished' = [u \in Socket |-> {}] /\ cleaned' = [u \in Socket |-> {}]
      /\ queue' = [u \in Socket |-> <<>>] /\ up' = [u \in Socket |-> <<>>]
      /\ down' = [u \in Socket |-> <<>>]
      /\ was' = Nothing /\ board' = board /\ drawn' = drawn
  BY DEF Restart
<1>10. \A u \in Socket : Of(u)' = NoTab BY <1>9 DEF Of, NoTab
<1>11. Nothing \in Boards(Curves \union {Gone}) /\ DOMAIN Nothing = {} BY NothingIsOpen
<1>12. VarsOK'
  <2>1. VarsOK BY DEF StrokeInv
  <2>2. <<>> \in Seq(Messages) /\ <<>> \in Seq(Answers) BY EmptySeq
  <2>3. 0 \in 0..MaxChildren - 1 BY StrokeAssumption
  <2>4. link' \in [Socket -> {"new", "open", "closed"}]
    <3>1. link \in [Socket -> {"new", "open", "closed"}] BY <2>1 DEF VarsOK
    <3>2. \A u \in Socket :
            (IF link[u] = "open" THEN "closed" ELSE link[u]) \in {"new", "open", "closed"}
      BY <3>1
    <3> QED BY <1>9, <3>2
  <2>5. /\ board' \in Boards(Curves) /\ was' \in Boards(Curves \union {Gone})
        /\ drawn' \in 0..MaxLines
    BY <1>1, <1>9, <1>11, <2>1 DEF VarsOK
  <2> QED BY <1>9, <2>2, <2>3, <2>4, <2>5 DEF VarsOK
<1> DEFINE N == {}
<1>13. Recorded(journal') = Recorded(journal) BY <1>1, <1>6, <1>8
<1>14. NoStroke.id = None BY DEF NoStroke, None
<1>15. /\ N \in SUBSET Line /\ N \subseteq 1..drawn
       /\ Recorded(journal') = Recorded(journal) \union N
       /\ \A u \in Socket : strokes'[u].id \in {strokes[u].id, None} \union (N \intersect LinesFor(u))
  BY <1>6, <1>8, <1>13, <1>14
<1>16. DOMAIN board' \union DOMAIN was' \subseteq Recorded(journal') BY <1>1, <1>9, <1>11, <1>13
<1>17. ASSUME NEW u \in Socket
       PROVE  TabOK(Of(u)', drawn) /\ Pending(Of(u)') = {} /\ Live(Of(u)')
  <2>1. Of(u)' = NoTab BY <1>10
  <2> HIDE DEF Of
  <2>2. TabOK(NoTab, drawn) /\ Pending(NoTab) = {} /\ Live(NoTab) BY <1>1, NoTabOK
  <2> QED BY <2>1, <2>2
<1>18. /\ \A u \in Socket : TabOK(Of(u)', drawn) /\ Pending(Of(u)') \subseteq Pending(Of(u))
       /\ \A u \in Socket : link'[u] # "closed" => Live(Of(u)')
       /\ \A u \in Socket : \A l \in Line :
            <<"create", l>> \in Pending(Of(u)') => l \notin N /\ strokes'[u].id < l
       /\ \A u \in Socket : \A l \in Recorded(journal') :
            <<"append", l>> \in Pending(Of(u)') => strokes'[u].id = l
  BY <1>17
<1>19. drawn' = drawn BY <1>9
<1> HIDE DEF N
<1> QED BY <1>8, <1>12, <1>15, <1>16, <1>18, <1>19, ServerStepKeeps

LEMMA StrokeInit == Init => StrokeInv
<1> SUFFICES ASSUME Init PROVE StrokeInv OBVIOUS
<1>1. /\ link = [s \in Socket |-> "new"] /\ line = [s \in Socket |-> None]
      /\ count = [s \in Socket |-> 0] /\ finished = [s \in Socket |-> {}]
      /\ cleaned = [s \in Socket |-> {}] /\ queue = [s \in Socket |-> <<>>]
      /\ up = [s \in Socket |-> <<>>] /\ down = [s \in Socket |-> <<>>]
      /\ board = Nothing /\ was = Nothing /\ journal = <<>>
      /\ strokes = NoHistory.strokes /\ curves = NoHistory.curves
      /\ drawn = 0
  BY DEF Init
<1>2. /\ Nothing \in Boards(Curves) /\ Nothing \in Boards(Curves \union {Gone})
      /\ DOMAIN Nothing = {} /\ NoHistory \in Recoveries
      /\ NoHistory.curves = Nothing /\ \A s \in Socket : NoHistory.strokes[s] = NoStroke
  BY NothingIsOpen
<1>3. VarsOK
  <2>1. <<>> \in Seq(Messages) /\ <<>> \in Seq(Answers) BY EmptySeq
  <2>2. 0 \in 0..MaxChildren - 1 /\ 0 \in 0..MaxLines BY StrokeAssumption
  <2> QED BY <1>1, <1>2, <2>1, <2>2 DEF VarsOK
<1>4. NoStroke.id = None BY DEF NoStroke, None
<1>5. Recorded(journal) = {}
  <2>1. DOMAIN journal = {} BY <1>1
  <2> QED BY <2>1 DEF Recorded
<1>6. LinesOK(strokes, curves, journal)
  <2>1. strokes \in [Socket -> Strokes] /\ curves \in Boards(Curves)
    BY <1>1, <1>2 DEF Recoveries
  <2>2. journal \in Seq(Entries) /\ DOMAIN journal = {} BY <1>1, EmptySeq
  <2>3. \A s \in Socket : strokes[s].id = None BY <1>1, <1>2, <1>4
  <2>4. DOMAIN curves = {strokes[s].id : s \in Socket} \ {None} BY <1>1, <1>2, <2>3
  <2> QED BY <1>5, <2>1, <2>2, <2>3, <2>4 DEF LinesOK
<1>7. HistoryOK(History)
  <2>1. Recovered(journal) = NoHistory BY <1>1, RecoveredGrows
  <2>2. NoHistory = [strokes |-> strokes, curves |-> curves] BY <1>1 DEF NoHistory
  <2>3. History = Made(strokes, curves, journal) BY DEF History, Made
  <2> QED BY <1>6, <2>1, <2>2, <2>3, MadeOK
<1>8. ASSUME NEW s \in Socket PROVE Of(s) = NoTab /\ LinesFor(s) = {}
  <2>1. Of(s) = NoTab BY <1>1 DEF Of, NoTab
  <2>2. Pending(Of(s)) = {} BY <2>1, NoTabOK
  <2>3. strokes[s].id = None BY <1>1, <1>2, <1>4
  <2> QED BY <2>1, <2>2, <2>3 DEF LinesFor
<1>9. ASSUME NEW s \in Socket PROVE SocketOK(s)
  <2>1. TabOK(Of(s), drawn) /\ Pending(Of(s)) = {} /\ Live(Of(s)) BY <1>1, <1>8, NoTabOK
  <2> QED BY <1>5, <1>8, <2>1 DEF SocketOK
<1>10. \A s, u \in Socket : s # u => LinesFor(s) \intersect LinesFor(u) = {} BY <1>8
<1>11. /\ DOMAIN board \union DOMAIN was \subseteq Recorded(journal)
       /\ Recorded(journal) \subseteq 1..drawn
  BY <1>1, <1>2, <1>5
<1> QED BY <1>3, <1>7, <1>9, <1>10, <1>11 DEF StrokeInv

-----------------------------------------------------------------------------
(* The theorems *)

LEMMA StrokeStep == StrokeInv /\ [Next]_vars => StrokeInv'
<1> SUFFICES ASSUME StrokeInv, [Next]_vars PROVE StrokeInv' OBVIOUS
<1>1. ASSUME NEW s \in Socket,
             \/ Release(s) \/ Cancel(s) \/ Pump(s) \/ Receive(s) \/ Close(s)
             \/ AcceptWrite(s) \/ RefuseWrite(s) \/ DeleteLine(s) \/ StrokeEnd(s) \/ Disconnecting(s)
      PROVE  StrokeInv'
  BY <1>1, ReleaseKeeps, CancelKeeps, PumpKeeps, ReceiveKeeps, CloseKeeps, AcceptKeeps,
     RefuseKeeps, DeleteKeeps, EndKeeps, DisconnectingKeeps
<1>2. ASSUME NEW s \in Socket, NEW p \in Point, Press(s, p) \/ Move(s, p) PROVE StrokeInv'
  BY <1>2, PressKeeps, MoveKeeps
<1>3. ASSUME Erase \/ UndoOrRedo \/ Restart PROVE StrokeInv'
  BY <1>3, EraseKeeps, UndoKeeps, RestartKeeps
<1>4. ASSUME UNCHANGED vars PROVE StrokeInv'
  <2>1. /\ UNCHANGED <<link, line, count, finished, cleaned, queue, up, down>>
        /\ UNCHANGED <<board, strokes, curves, journal, was, drawn>>
    BY <1>4 DEF vars, tab, server
  <2>2. VarsOK' = VarsOK BY <2>1 DEF VarsOK
  <2>3. History' = History BY <2>1 DEF History
  <2>4. \A s : Of(s)' = Of(s) BY <2>1 DEF Of
  <2>5. \A s : LinesFor(s)' = LinesFor(s) BY <2>1, <2>4 DEF LinesFor
  <2>6. \A s \in Socket : SocketOK(s) => SocketOK(s)' BY <2>1, <2>4, <2>5 DEF SocketOK
  <2> QED BY <2>1, <2>2, <2>3, <2>5, <2>6 DEF StrokeInv
<1> QED BY <1>1, <1>2, <1>3, <1>4 DEF Next

\* What the proofs rest on: the tabs and the messages on their way have the types
\* of the code, what a tab has not finished is a line the server can still get or
\* has open, and the journal tells the whole of every line that is finished.
THEOREM StrokesStay == Spec => []StrokeInv
<1> QED BY StrokeInit, StrokeStep, PTL DEF Spec

\* Every variable has the type the code gives it; an open stroke has its curve in
\* memory and there is no curve of anything else (BoardHistory.curves).
THEOREM StrokesTyped == Spec => []TypeOK
<1>1. StrokeInv => TypeOK
  <2> SUFFICES ASSUME StrokeInv PROVE TypeOK OBVIOUS
  <2>1. VarsOK /\ HistoryOK(History) /\ \A s \in Socket : SocketOK(s) BY DEF StrokeInv
  <2>2. /\ link \in [Socket -> {"new", "open", "closed"}]
        /\ line \in [Socket -> Line \union {None}] /\ count \in [Socket -> 0..MaxChildren - 1]
        /\ finished \in [Socket -> SUBSET Line] /\ cleaned \in [Socket -> SUBSET Line]
        /\ queue \in [Socket -> Seq(Messages)] /\ up \in [Socket -> Seq(Messages)]
        /\ board \in Boards(Curves)
    BY <2>1 DEF VarsOK
  <2>3. count \in [Socket -> 0..MaxChildren]
    <3>1. 0..MaxChildren - 1 \subseteq 0..MaxChildren BY StrokeAssumption
    <3> QED BY <2>2, <3>1
  <2>4. ASSUME NEW s \in Socket
        PROVE  /\ Range(queue[s]) \union Range(up[s]) \subseteq MessageType
               /\ finished[s] \union cleaned[s] \subseteq Line
               /\ line[s] = None => count[s] = 0
    <3>1. queue[s] \in Seq(Messages) /\ up[s] \in Seq(Messages) BY <2>2
    <3>2. Messages \subseteq MessageType BY DEF Messages
    <3>3. \A q \in Seq(Messages) : Range(q) \subseteq Messages BY LenProperties, ElementOfSeq DEF Range
    <3>4. TabOK(Of(s), drawn) BY <2>1 DEF SocketOK
    <3>5. line[s] = None => count[s] = 0 BY <3>4 DEF TabOK, Of
    <3>6. finished[s] \subseteq Line /\ cleaned[s] \subseteq Line BY <2>2
    <3> QED BY <3>1, <3>2, <3>3, <3>5, <3>6
  <2>5. DOMAIN board \subseteq Line /\ \A l \in DOMAIN board : board[l] \in Seq(Point)
    BY <2>2, BoardIs DEF Curves
  <2>6. DOMAIN curves = {strokes[s].id : s \in {s \in Socket : strokes[s] # NoStroke}}
    <3>1. /\ strokes \in [Socket -> Strokes]
          /\ DOMAIN curves = {strokes[s].id : s \in Socket} \ {None}
      <4>1. strokes \in [Socket -> Strokes] /\ History.strokes = strokes /\ History.curves = curves
        BY ServerNow
      <4>2. DOMAIN History.curves = {History.strokes[s].id : s \in Socket} \ {None}
        BY <2>1, HistoryIs
      <4> QED BY <4>1, <4>2
    <3>2. \A s \in Socket : strokes[s] = NoStroke <=> strokes[s].id = None BY <3>1, StrokeFields
    <3> QED BY <3>1, <3>2
  <2> QED BY <2>2, <2>3, <2>4, <2>5, <2>6 DEF TypeOK
<1> QED BY <1>1, StrokesStay, PTL

\* Whenever the process ends, what loadHistory reads from the journal is what
\* was in memory: the stroke each socket had open and the curve of each of them,
\* whatever other users did to the lines (history.mjs:368-402).
THEOREM RestartFinds == Spec => []RestartFindsTheStrokes
<1>1. StrokeInv => RestartFindsTheStrokes
  <2> SUFFICES ASSUME StrokeInv PROVE Recovered(journal) = [strokes |-> strokes, curves |-> curves]
    BY DEF RestartFindsTheStrokes
  <2>1. /\ HistoryOK(History) /\ History.strokes = strokes
        /\ History.curves = curves /\ History.journal = journal
    BY ServerNow
  <2> QED BY <2>1, HistoryIs
<1> QED BY <1>1, StrokesStay, PTL

\* Every line that was accepted is being drawn, and then has no stroke record, or
\* it has exactly one, after all of its points, with the interval in which it was
\* drawn and the curve of all of its points: no order of messages, refusals,
\* lost connections, erasures, undos and restarts leaves a line without one,
\* gives it two, or closes it before its last point (README.md:124-133).
THEOREM EveryStrokeIsTimed == Spec => []StrokesAreTimed
<1>1. StrokeInv => StrokesAreTimed
  <2> SUFFICES ASSUME StrokeInv, NEW c \in Records("mutation"), journal[c].m.type = "create"
               PROVE  LET l == journal[c].m.id
                          records == {k \in Records("stroke") : journal[k].id = l}
                      IN  IF \E s \in Socket : strokes[s].id = l THEN records = {}
                          ELSE /\ Cardinality(records) = 1
                               /\ \A k \in records :
                                    /\ journal[k].start = journal[c].at
                                    /\ journal[k].curve = PencilCurve(PointsOf(journal, l))
                                    /\ \A a \in Drawing("append", l) :
                                         a < k /\ journal[a].at <= journal[k].end
    BY Zenon DEF StrokesAreTimed
  <2> DEFINE l == journal[c].m.id
             records == {k \in Records("stroke") : journal[k].id = l}
  <2>1. LinesOK(strokes, curves, journal) /\ journal \in Seq(Entries)
    <3>1. /\ HistoryOK(History) /\ journal \in Seq(Entries) /\ History.strokes = strokes
          /\ History.curves = curves /\ History.journal = journal
      BY ServerNow
    <3> QED BY <3>1, HistoryIs
  <2>2. c \in DOMAIN journal /\ journal[c].kind = "mutation" BY DEF Records
  <2>3. journal[c] \in Entries BY <2>1, <2>2, LenProperties, ElementOfSeq
  <2>4. l \in Line /\ Creates(journal[c], l)
    BY <2>2, <2>3, EntryFields, MutationFields DEF Creates, IsMutation
  <2>5. l \in Recorded(journal) BY <2>2, <2>4 DEF Recorded
  <2>6. records = StrokesOf(journal, l) BY DEF Records, StrokesOf, IsStrokeOf
  <2>7. \A a \in Drawing("append", l) : a \in DOMAIN journal /\ IsPointOf(journal[a], l)
    BY DEF Drawing, Records, IsPointOf, IsMutation
  <2> HIDE DEF l, records
  <2>8. ASSUME NEW s \in Socket, strokes[s].id = l PROVE records = {}
    <3>1. l # None BY <2>4, LineIsFinite
    <3>2. Open(journal, strokes[s], curves[strokes[s].id]) BY <2>1, <2>8, <3>1 DEF LinesOK
    <3> QED BY <2>6, <2>8, <3>2 DEF Open
  <2>9. ASSUME \A s \in Socket : strokes[s].id # l
        PROVE  /\ Cardinality(records) = 1
               /\ \A k \in records :
                    /\ journal[k].start = journal[c].at
                    /\ journal[k].curve = PencilCurve(PointsOf(journal, l))
                    /\ \A a \in Drawing("append", l) : a < k /\ journal[a].at <= journal[k].end
    <3>1. Finished(journal, l) BY <2>1, <2>5, <2>9 DEF LinesOK
    <3>2. PICK k \in DOMAIN journal :
            /\ StrokesOf(journal, l) = {k}
            /\ Whole(journal, l, journal[k].start, journal[k].end, journal[k].curve)
            /\ \A i \in DOMAIN journal : IsPointOf(journal[i], l) => i < k
      BY <3>1 DEF Finished
    <3>3. records = {k} BY <2>6, <3>2
    <3>4. Cardinality(records) = 1 BY <3>3, FS_Singleton
    <3>5. /\ journal[k].start = journal[c].at
          /\ journal[k].curve = PencilCurve(PointsOf(journal, l))
          /\ \A a \in Drawing("append", l) : journal[a].at <= journal[k].end
      BY <2>2, <2>4, <2>7, <3>2 DEF Whole
    <3>6. \A a \in Drawing("append", l) : a < k BY <2>7, <3>2
    <3> QED BY <3>3, <3>4, <3>5, <3>6
  <2> QED BY <2>8, <2>9 DEF l, records
<1> QED BY <1>1, StrokesStay, PTL
=============================================================================
