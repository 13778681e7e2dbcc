------------------------- MODULE ClientWritesProofs -------------------------
(***************************************************************************)
(* Proofs about ClientWrites: whatever is refused, cut off and sent again, *)
(* the server takes a tab's edits in the order they were drawn, each once, *)
(* and none is lost but by a lost connection.                              *)
(***************************************************************************)
EXTENDS ClientWrites, SequenceLemmas, WellFoundedInduction

\* The situations in which an edit may arrive twice, be lost, or arrive after
\* edits drawn later (README, section 12) do not occur; the six others may.
Strict == {"resent", "silent_drop", "flush_in_undo"} \intersect Allowed = {}

-----------------------------------------------------------------------------
(* The inductive invariant *)

\* What the numbers and messages are.
EditSet  == [n : Int, type : Types \union {"restore"}, item : Item, value : Int, rests : SUBSET Int]
Buffers  == Seq([edit : EditSet, state : {"queued", "inflight"}, redraw : BOOLEAN])
UpSet    == [kind : {"write"}, edit : EditSet] \union [kind : {"undo", "token"}]
Jobs     == [kind : {"write"}, edit : EditSet, conn : Nat] \union [kind : {"undo"}, conn : Nat]
DownSet  == [kind : {"mine", "theirs"}, edit : EditSet] \union [kind : {"batch"}, edits : Seq(EditSet)]
              \union [kind : {"rejected"}, n : Int] \union [kind : {"limited", "undone"}]
              \union [kind : {"validation"}, ok : BOOLEAN]
WritesTypeOK ==
  /\ guarded \in BOOLEAN /\ link \in {"down", "waiting", "joined"} /\ conn \in Nat
  /\ paused \in BOOLEAN /\ validated \in BOOLEAN /\ closed \in BOOLEAN
  /\ buffer \in Buffers /\ challenged \in Seq(EditSet)
  /\ undo \in {"none", "waiting", "sent"} /\ again \in Nat
  /\ up \in Seq(UpSet) /\ down \in Seq(DownSet) /\ session \in Seq(Jobs) /\ log \in Seq(EditSet)
  /\ drawn \in Nat /\ others \in Nat

\* The names of the tab's edits in each place.
WriteNames(ms) == {ms[k].edit.n : k \in {k \in DOMAIN ms : ms[k].kind = "write"}}
EditNames(es)  == {es[k].n : k \in DOMAIN es}
MineIn(es)     == {es[k].n : k \in {k \in DOMAIN es : IsMine(es[k])}}
Committed      == MineIn(log) \union WriteNames(session)
Waiting(b)     == {b[k].edit.n : k \in {k \in DOMAIN b : b[k].state = "queued"}}
InFlight(b)    == {b[k].edit.n : k \in {k \in DOMAIN b : b[k].state = "inflight"}}

\* Sequences in which the names grow.
Below(A, B)    == \A a \in A, b \in B : a < b
BufferGrows(b) == \A k, l \in DOMAIN b : k < l => b[k].edit.n < b[l].edit.n
EditsGrow(es)  == \A k, l \in DOMAIN es : k < l => es[k].n < es[l].n
MineGrow(es)   == \A k, l \in DOMAIN es : k < l /\ IsMine(es[k]) /\ IsMine(es[l]) => es[k].n < es[l].n
WritesGrow(ms) == \A k, l \in DOMAIN ms :
                    k < l /\ ms[k].kind = "write" /\ ms[l].kind = "write" => ms[k].edit.n < ms[l].edit.n

\* Edits go from the tab to the session queue and the log in the order they
\* were drawn, and those that wait for a token are the latest.  What is on its
\* way on a connection that the server has closed never arrives.
InOrder ==
  /\ MineGrow(log) /\ WritesGrow(session) /\ (~closed => WritesGrow(up))
  /\ Below(MineIn(log), WriteNames(session)) /\ (~closed => Below(Committed, WriteNames(up)))
  /\ BufferGrows(buffer) /\ EditsGrow(challenged)
  /\ Below(Committed \union WriteNames(up) \union NamesIn(buffer) \union refused,
           EditNames(challenged))
  /\ Committed \union WriteNames(up) \union NamesIn(buffer) \union EditNames(challenged)
       \union refused \subseteq 1..drawn

\* On an open connection, what waits to be sent comes after what was sent;
\* what was sent and has neither been queued by the server nor refused is on its
\* way; and what a cut-off tab sends again comes after all that has arrived.
BufferFollows ==
  /\ link = "joined" /\ ~closed => Below(Committed \union WriteNames(up), Waiting(buffer))
  /\ link = "joined" /\ ~closed /\ ~guarded =>
       InFlight(buffer) \subseteq Committed \union WriteNames(up) \union refused
  /\ ~guarded => Below(Committed, NamesIn(buffer) \ (Committed \union refused))
  /\ link # "joined" \/ paused => InFlight(buffer) = {}
  /\ link # "joined" \/ (paused /\ ~closed) => WriteNames(up) = {} /\ NamesIn(buffer) \intersect refused = {}
  /\ link = "down" => ~closed

\* The answers that a tab will receive: no edit is answered before it is
\* accepted or refused, and what was refused is answered while the connection
\* is open.  While the tab waits for the replay, what the server has of its
\* buffer is in the replay, the first message that comes.
Truthful(m) ==
  /\ m.kind = "mine" => m.edit.n \in MineIn(log)
  /\ m.kind = "rejected" => m.n \in refused
  /\ m.kind = "limited" => closed
Rejected(ms) == {m.n : m \in {m \in Range(ms) : m.kind = "rejected"}}
NoBatch(ms)  == \A m \in Range(ms) : m.kind # "batch"
AnswersAreRight ==
  /\ \A m \in Range(down) : Truthful(m)
  /\ NamesIn(buffer) \intersect refused \subseteq Rejected(down)
  /\ IF link = "waiting"
     THEN /\ down # <<>> /\ Head(down).kind = "batch" /\ NoBatch(Tail(down))
          /\ NamesIn(buffer) \intersect WriteNames(session) = {}
          /\ NamesIn(buffer) \intersect MineIn(log) \subseteq EditNames(Head(down).edits)
     ELSE NoBatch(down)

\* Writes wait for a token only while the tab can send them.
TokensAreRight ==
  /\ challenged # <<>> => guarded /\ link = "joined" /\ undo = "none" /\ ~validated
  /\ guarded => ~paused /\ ~closed /\ (link # "joined" => buffer = <<>>)
  /\ undo = "none" => again = 0

NothingIsLost ==
  /\ 1..drawn \subseteq Committed \union WriteNames(up) \union NamesIn(buffer)
                          \union EditNames(challenged) \union refused \union abandoned
  /\ WriteNames(up) \subseteq Committed \union NamesIn(buffer) \union refused \union abandoned

SendInv == /\ WritesTypeOK /\ InOrder /\ BufferFollows /\ AnswersAreRight
           /\ TokensAreRight /\ NothingIsLost
-----------------------------------------------------------------------------
(* What is left of a buffer *)

\* After n elements of s, those of them that are in S, in their order.
OnlyOf(r, s, S, n) ==
  /\ \A i \in DOMAIN r : r[i] \in S /\ \E m \in 1..n : r[i] = s[m]
  /\ \A m \in 1..n : s[m] \in S => \E i \in DOMAIN r : r[i] = s[m]
  /\ BufferGrows(s) => BufferGrows(r)

LEMMA OnlyKeeps ==
  ASSUME NEW s \in Buffers, NEW S
  PROVE  Only(s, S) \in Buffers /\ OnlyOf(Only(s, S), s, S, Len(s))
<1>1. Len(s) \in Nat /\ DOMAIN s = 1..Len(s) BY LenProperties DEF Buffers
<1>2. PICK f : /\ f[0] = <<>> /\ Only(s, S) = f[Len(s)]
               /\ \A k \in 1..Len(s) :
                    f[k] = IF s[k] \in S THEN Append(f[k - 1], s[k]) ELSE f[k - 1]
  BY <1>1, OnlySteps
<1> DEFINE Good(n) == f[n] \in Buffers /\ OnlyOf(f[n], s, S, n)
           T       == {n \in 0..Len(s) : ~Good(n)}
<1>3. ASSUME T # {} PROVE FALSE
  <2>1. PICK n \in T : \A m \in T : n <= m
    <3>1. T \subseteq Nat BY <1>1
    <3> HIDE DEF T
    <3> QED BY <1>3, <3>1, Least
  <2>2. CASE n = 0
    <3>1. <<>> \in Buffers BY EmptySeq DEF Buffers
    <3>2. DOMAIN <<>> = {} OBVIOUS
    <3>3. OnlyOf(<<>>, s, S, 0) BY <3>2 DEF OnlyOf, BufferGrows
    <3> QED BY <1>2, <2>1, <2>2, <3>1, <3>3
  <2>3. CASE n # 0
    <3>1. n - 1 \in 0..Len(s) /\ n \in 1..Len(s) BY <1>1, <2>1, <2>3
    <3>2. Good(n - 1) BY <2>1, <3>1
    <3> DEFINE r == f[n - 1]
    <3>3. r \in Buffers /\ OnlyOf(r, s, S, n - 1) BY <3>2
    <3>4. f[n] = IF s[n] \in S THEN Append(r, s[n]) ELSE r BY <1>2, <3>1
    <3> HIDE DEF r
    <3>5. CASE s[n] \notin S
      <4>1. OnlyOf(r, s, S, n) BY <1>1, <3>1, <3>3, <3>5 DEF OnlyOf
      <4> QED BY <2>1, <3>3, <3>4, <3>5, <4>1
    <3>6. CASE s[n] \in S
      <4> DEFINE q == Append(r, s[n])
      <4>1. /\ q \in Buffers /\ Len(r) \in Nat /\ DOMAIN r = 1..Len(r)
            /\ DOMAIN q = 1..Len(r) + 1 /\ q[Len(r) + 1] = s[n]
            /\ \A i \in 1..Len(r) : q[i] = r[i]
        <5> DEFINE W == [edit : EditSet, state : {"queued", "inflight"}, redraw : BOOLEAN]
        <5>1. s \in Seq(W) /\ r \in Seq(W) /\ Buffers = Seq(W) BY <3>3 DEF Buffers
        <5> HIDE DEF W
        <5>2. s[n] \in W BY <3>1, <5>1, ElementOfSeq
        <5>3. /\ q \in Seq(W) /\ Len(q) = Len(r) + 1 /\ q[Len(r) + 1] = s[n]
              /\ \A i \in 1..Len(r) : q[i] = r[i]
          BY <5>1, <5>2, AppendProperties
        <5> HIDE DEF q
        <5>4. DOMAIN q = 1..Len(q) /\ Len(r) \in Nat /\ DOMAIN r = 1..Len(r)
          BY <5>1, <5>3, LenProperties
        <5> QED BY <5>1, <5>3, <5>4
      <4> HIDE DEF q
      <4>2. \A i \in DOMAIN q : q[i] \in S /\ \E m \in 1..n : q[i] = s[m]
        <5>1. \A i \in DOMAIN r : r[i] \in S /\ \E m \in 1..n : r[i] = s[m]
          BY <1>1, <3>1, <3>3 DEF OnlyOf
        <5>2. \A i \in DOMAIN q : i \in DOMAIN r \/ i = Len(r) + 1 BY <4>1
        <5>3. n \in 1..n BY <3>1
        <5> QED BY <3>6, <4>1, <5>1, <5>2, <5>3
      <4>3. \A m \in 1..n : s[m] \in S => \E i \in DOMAIN q : q[i] = s[m]
        <5>1. \A m \in 1..n : m \in 1..n - 1 \/ m = n BY <3>1
        <5>2. DOMAIN r \subseteq DOMAIN q /\ Len(r) + 1 \in DOMAIN q BY <4>1
        <5> QED BY <3>3, <4>1, <5>1, <5>2 DEF OnlyOf
      <4>4. ASSUME BufferGrows(s) PROVE BufferGrows(q)
        <5>1. BufferGrows(r) BY <3>3, <4>4 DEF OnlyOf
        <5>2. \A i \in DOMAIN r : r[i].edit.n < s[n].edit.n
          <6>1. SUFFICES ASSUME NEW i \in DOMAIN r PROVE r[i].edit.n < s[n].edit.n OBVIOUS
          <6>2. PICK m \in 1..n - 1 : r[i] = s[m] BY <3>3, <6>1 DEF OnlyOf
          <6>3. m \in DOMAIN s /\ n \in DOMAIN s /\ m < n BY <1>1, <3>1, <6>2
          <6>4. s[m].edit.n < s[n].edit.n BY <4>4, <6>3 DEF BufferGrows
          <6> QED BY <6>2, <6>4
        <5>3. SUFFICES ASSUME NEW k \in DOMAIN q, NEW l \in DOMAIN q, k < l
                       PROVE  q[k].edit.n < q[l].edit.n BY DEF BufferGrows
        <5>4. k \in DOMAIN r BY <4>1, <5>3
        <5>5. l \in DOMAIN r \/ l = Len(r) + 1 BY <4>1
        <5> QED BY <4>1, <5>1, <5>2, <5>3, <5>4, <5>5 DEF BufferGrows
      <4>5. OnlyOf(q, s, S, n) BY <4>2, <4>3, <4>4 DEF OnlyOf
      <4>6. f[n] = q BY <3>4, <3>6 DEF q
      <4> QED BY <2>1, <4>1, <4>5, <4>6
    <3> QED BY <3>5, <3>6
  <2> QED BY <2>2, <2>3
<1>4. Len(s) \in 0..Len(s) BY <1>1
<1>5. Good(Len(s)) BY <1>3, <1>4
<1> QED BY <1>2, <1>5

-----------------------------------------------------------------------------
(* Names in sequences of messages *)

WriteName(m) == IF m.kind = "write" THEN {m.edit.n} ELSE {}

LEMMA NamesOfAppend ==
  ASSUME NEW S, NEW ms \in Seq(S), NEW m \in S
  PROVE  /\ WriteNames(Append(ms, m)) = WriteNames(ms) \union WriteName(m)
         /\ WritesGrow(ms) /\ Below(WriteNames(ms), WriteName(m)) => WritesGrow(Append(ms, m))
<1> DEFINE q == Append(ms, m)
<1>1. /\ q \in Seq(S) /\ Len(q) = Len(ms) + 1 /\ q[Len(ms) + 1] = m
      /\ \A k \in 1..Len(ms) : q[k] = ms[k]
  BY AppendProperties
<1>2. Len(ms) \in Nat /\ DOMAIN ms = 1..Len(ms) BY LenProperties
<1> HIDE DEF q
<1>3. DOMAIN q = 1..Len(ms) + 1 BY <1>1, LenProperties
<1>4. \A k \in DOMAIN q : k \in DOMAIN ms \/ k = Len(ms) + 1 BY <1>2, <1>3
<1>5. DOMAIN ms \subseteq DOMAIN q /\ Len(ms) + 1 \in DOMAIN q BY <1>2, <1>3
<1>6. WriteNames(q) = WriteNames(ms) \union WriteName(m)
  BY <1>1, <1>2, <1>4, <1>5 DEF WriteNames, WriteName
<1>7. ASSUME WritesGrow(ms), Below(WriteNames(ms), WriteName(m)) PROVE WritesGrow(q)
  <2> SUFFICES ASSUME NEW k \in DOMAIN q, NEW l \in DOMAIN q, k < l,
                      q[k].kind = "write", q[l].kind = "write"
               PROVE  q[k].edit.n < q[l].edit.n BY DEF WritesGrow
  <2>1. k \in DOMAIN ms BY <1>2, <1>3
  <2>2. CASE l \in DOMAIN ms BY <1>1, <1>2, <1>7, <2>1, <2>2 DEF WritesGrow
  <2>3. CASE l = Len(ms) + 1
    <3>1. q[k].edit.n \in WriteNames(ms) BY <1>1, <1>2, <2>1 DEF WriteNames
    <3>2. q[l].edit.n \in WriteName(m) BY <1>1, <2>3 DEF WriteName
    <3> QED BY <1>7, <3>1, <3>2 DEF Below
  <2> QED BY <1>4, <2>2, <2>3
<1> QED BY <1>6, <1>7 DEF q

LEMMA NamesOfTail ==
  ASSUME NEW S, NEW ms \in Seq(S), ms # <<>>
  PROVE  /\ Head(ms) \in S /\ Tail(ms) \in Seq(S)
         /\ WriteNames(ms) = WriteName(Head(ms)) \union WriteNames(Tail(ms))
         /\ WritesGrow(ms) => /\ WritesGrow(Tail(ms))
                              /\ Below(WriteName(Head(ms)), WriteNames(Tail(ms)))
<1> DEFINE q == Tail(ms)
<1>1. /\ Head(ms) \in S /\ q \in Seq(S) /\ Len(q) = Len(ms) - 1
      /\ \A k \in 1..Len(q) : q[k] = ms[k + 1] BY HeadTailProperties
<1>2. Len(ms) \in Nat \ {0} /\ DOMAIN ms = 1..Len(ms) BY LenProperties, EmptySeq
<1>3. Head(ms) = ms[1] OBVIOUS
<1> HIDE DEF q
<1>4. DOMAIN q = 1..Len(ms) - 1 BY <1>1, LenProperties
<1>5. \A k \in DOMAIN q : k + 1 \in DOMAIN ms /\ q[k] = ms[k + 1] BY <1>1, <1>2, <1>4
<1>6. \A k \in DOMAIN ms : k = 1 \/ (k - 1 \in DOMAIN q /\ q[k - 1] = ms[k]) BY <1>1, <1>2, <1>4
<1>7. 1 \in DOMAIN ms BY <1>2
<1>8. WriteNames(ms) = WriteName(Head(ms)) \union WriteNames(q)
  <2>1. WriteNames(q) \subseteq WriteNames(ms) BY <1>5 DEF WriteNames
  <2>2. WriteName(Head(ms)) \subseteq WriteNames(ms) BY <1>3, <1>7 DEF WriteNames, WriteName
  <2>3. WriteNames(ms) \subseteq WriteName(Head(ms)) \union WriteNames(q)
    BY <1>3, <1>6 DEF WriteNames, WriteName
  <2> QED BY <2>1, <2>2, <2>3
<1>9. ASSUME WritesGrow(ms)
      PROVE  WritesGrow(q) /\ Below(WriteName(Head(ms)), WriteNames(q))
  <2>1. ASSUME NEW k \in DOMAIN q, NEW l \in DOMAIN q, k < l,
               q[k].kind = "write", q[l].kind = "write"
        PROVE  q[k].edit.n < q[l].edit.n
    <3>1. k + 1 < l + 1 BY <1>2, <1>4, <2>1
    <3> QED BY <1>5, <1>9, <2>1, <3>1 DEF WritesGrow
  <2>2. ASSUME NEW k \in DOMAIN q, q[k].kind = "write", ms[1].kind = "write"
        PROVE  ms[1].edit.n < q[k].edit.n
    <3>1. 1 < k + 1 BY <1>2, <1>4, <2>2
    <3> QED BY <1>5, <1>7, <1>9, <2>2, <3>1 DEF WritesGrow
  <2>3. WritesGrow(q) BY <2>1 DEF WritesGrow
  <2>4. Below(WriteName(Head(ms)), WriteNames(q))
    BY <1>3, <2>2 DEF Below, WriteName, WriteNames
  <2> QED BY <2>3, <2>4
<1> QED BY <1>1, <1>8, <1>9 DEF q

\* One more accepted edit.
LEMMA NamesOfLog ==
  ASSUME NEW es \in Seq(EditSet), NEW e \in EditSet
  PROVE  LET mine == IF IsMine(e) THEN {e.n} ELSE {} IN
         /\ Append(es, e) \in Seq(EditSet)
         /\ MineIn(Append(es, e)) = MineIn(es) \union mine
         /\ MineGrow(es) /\ Below(MineIn(es), mine) => MineGrow(Append(es, e))
<1> DEFINE q    == Append(es, e)
           mine == IF IsMine(e) THEN {e.n} ELSE {}
<1>1. /\ q \in Seq(EditSet) /\ Len(q) = Len(es) + 1 /\ q[Len(es) + 1] = e
      /\ \A k \in 1..Len(es) : q[k] = es[k]
  BY AppendProperties
<1>2. Len(es) \in Nat /\ DOMAIN es = 1..Len(es) BY LenProperties
<1> HIDE DEF q
<1>3. DOMAIN q = 1..Len(es) + 1 BY <1>1, LenProperties
<1>4. \A k \in DOMAIN q : k \in DOMAIN es \/ k = Len(es) + 1 BY <1>2, <1>3
<1>5. DOMAIN es \subseteq DOMAIN q /\ Len(es) + 1 \in DOMAIN q BY <1>2, <1>3
<1>6. MineIn(q) = MineIn(es) \union mine BY <1>1, <1>2, <1>4, <1>5 DEF MineIn
<1>7. ASSUME MineGrow(es), Below(MineIn(es), mine) PROVE MineGrow(q)
  <2> SUFFICES ASSUME NEW k \in DOMAIN q, NEW l \in DOMAIN q, k < l, IsMine(q[k]), IsMine(q[l])
               PROVE  q[k].n < q[l].n BY DEF MineGrow
  <2>1. k \in DOMAIN es BY <1>2, <1>3
  <2>2. CASE l \in DOMAIN es BY <1>1, <1>2, <1>7, <2>1, <2>2 DEF MineGrow
  <2>3. CASE l = Len(es) + 1
    <3>1. q[k].n \in MineIn(es) BY <1>1, <1>2, <2>1 DEF MineIn
    <3>2. q[l].n \in mine BY <1>1, <2>3
    <3> QED BY <1>7, <3>1, <3>2 DEF Below
  <2> QED BY <1>4, <2>2, <2>3
<1> HIDE DEF mine
<1>8. q \in Seq(EditSet) BY <1>1
<1> QED BY <1>6, <1>7, <1>8 DEF q, mine

\* Some writes more.
LEMMA NamesOfConcat ==
  ASSUME NEW S, NEW ms \in Seq(S), NEW ws \in Seq(S), \A k \in DOMAIN ws : ws[k].kind = "write"
  PROVE  /\ ms \o ws \in Seq(S)
         /\ WriteNames(ms \o ws) = WriteNames(ms) \union NamesIn(ws)
         /\ WritesGrow(ms) /\ BufferGrows(ws) /\ Below(WriteNames(ms), NamesIn(ws))
              => WritesGrow(ms \o ws)
<1> DEFINE q == ms \o ws
<1>1. Len(ms) \in Nat /\ DOMAIN ms = 1..Len(ms) /\ Len(ws) \in Nat /\ DOMAIN ws = 1..Len(ws)
  BY LenProperties
<1>2. /\ q \in Seq(S) /\ Len(q) = Len(ms) + Len(ws)
      /\ \A k \in 1..Len(ms) + Len(ws) : q[k] = IF k <= Len(ms) THEN ms[k] ELSE ws[k - Len(ms)]
  BY ConcatProperties
<1> HIDE DEF q
<1>3. DOMAIN q = 1..Len(ms) + Len(ws) BY <1>2, LenProperties
<1>4. \A k \in DOMAIN ms : k \in DOMAIN q /\ q[k] = ms[k] BY <1>1, <1>2, <1>3
<1>5. \A k \in DOMAIN ws : k + Len(ms) \in DOMAIN q /\ q[k + Len(ms)] = ws[k]
  BY <1>1, <1>2, <1>3
<1>6. \A k \in DOMAIN q : \/ k \in DOMAIN ms
                          \/ k - Len(ms) \in DOMAIN ws /\ q[k] = ws[k - Len(ms)]
  BY <1>1, <1>2, <1>3
<1>7. WriteNames(q) = WriteNames(ms) \union NamesIn(ws)
  <2>1. WriteNames(ms) \subseteq WriteNames(q) BY <1>4 DEF WriteNames
  <2>2. NamesIn(ws) \subseteq WriteNames(q) BY <1>5 DEF WriteNames, NamesIn
  <2>3. WriteNames(q) \subseteq WriteNames(ms) \union NamesIn(ws)
    BY <1>4, <1>6 DEF WriteNames, NamesIn
  <2> QED BY <2>1, <2>2, <2>3
<1>8. ASSUME WritesGrow(ms), BufferGrows(ws), Below(WriteNames(ms), NamesIn(ws))
      PROVE  WritesGrow(q)
  <2> SUFFICES ASSUME NEW k \in DOMAIN q, NEW l \in DOMAIN q, k < l,
                      q[k].kind = "write", q[l].kind = "write"
               PROVE  q[k].edit.n < q[l].edit.n BY DEF WritesGrow
  <2>1. CASE l \in DOMAIN ms
    <3>1. k \in DOMAIN ms BY <1>1, <1>3, <2>1
    <3> QED BY <1>4, <1>8, <2>1, <3>1 DEF WritesGrow
  <2>2. CASE l \notin DOMAIN ms
    <3>1. l - Len(ms) \in DOMAIN ws /\ q[l] = ws[l - Len(ms)] BY <1>6, <2>2
    <3>2. CASE k \in DOMAIN ms
      <4>1. q[k].edit.n \in WriteNames(ms) BY <1>4, <3>2 DEF WriteNames
      <4>2. q[l].edit.n \in NamesIn(ws) BY <3>1 DEF NamesIn
      <4> QED BY <1>8, <4>1, <4>2 DEF Below
    <3>3. CASE k \notin DOMAIN ms
      <4>1. k - Len(ms) \in DOMAIN ws /\ q[k] = ws[k - Len(ms)] BY <1>6, <3>3
      <4>2. k - Len(ms) < l - Len(ms) BY <1>1, <1>3
      <4> QED BY <1>8, <3>1, <4>1, <4>2 DEF BufferGrows
    <3> QED BY <3>2, <3>3
  <2> QED BY <2>1, <2>2
<1> QED BY <1>2, <1>7, <1>8 DEF q

LEMMA NamesOfNone ==
  /\ WriteNames(<<>>) = {} /\ NamesIn(<<>>) = {} /\ EditNames(<<>>) = {} /\ MineIn(<<>>) = {}
  /\ WritesGrow(<<>>) /\ BufferGrows(<<>>) /\ EditsGrow(<<>>) /\ MineGrow(<<>>)
<1>1. DOMAIN <<>> = {} OBVIOUS
<1> QED BY <1>1 DEF WriteNames, NamesIn, EditNames, MineIn, WritesGrow, BufferGrows, EditsGrow, MineGrow


-----------------------------------------------------------------------------
(* What the operators do to the buffer of a tab and to what it sends *)

Tab(t) == t = [buffer |-> t.buffer, screen |-> t.screen, journal |-> t.journal, undo |-> t.undo,
               again |-> t.again, up |-> t.up]
TabOK(t) ==
  /\ Tab(t)
  /\ t.buffer \in Buffers /\ t.undo \in {"none", "waiting", "sent"} /\ t.again \in Nat
  /\ t.up \in Seq(UpSet) /\ (t.undo = "none" => t.again = 0)

SameWrites(u, v) == WriteNames(v) = WriteNames(u) /\ (WritesGrow(u) => WritesGrow(v))

\* Edits leave the buffer, those named in `gone' at least; an undo may be sent.
Among(b, c) == \A k \in DOMAIN c : \E l \in DOMAIN b : c[k] = b[l]
Shrinks(t, r, gone) ==
  /\ TabOK(r) /\ SameWrites(t.up, r.up) /\ (t.undo = "none" => r.undo = "none")
  /\ Among(t.buffer, r.buffer) /\ (BufferGrows(t.buffer) => BufferGrows(r.buffer))
  /\ NamesIn(r.buffer) \intersect gone = {}

LEMMA AmongNames ==
  ASSUME NEW b, NEW c, Among(b, c)
  PROVE  /\ NamesIn(c) \subseteq NamesIn(b) /\ Waiting(c) \subseteq Waiting(b)
         /\ InFlight(c) \subseteq InFlight(b)
  BY DEF Among, NamesIn, Waiting, InFlight

LEMMA NamesOfStates ==
  ASSUME NEW b \in Buffers
  PROVE  NamesIn(b) = Waiting(b) \union InFlight(b) /\ NamesIn(b) \subseteq Int
<1> DEFINE W == [edit : EditSet, state : {"queued", "inflight"}, redraw : BOOLEAN]
<1>1. b \in Seq(W) BY DEF Buffers
<1> HIDE DEF W
<1>2. \A k \in DOMAIN b : b[k] \in W BY <1>1, LenProperties, ElementOfSeq
<1>3. \A k \in DOMAIN b : b[k].state \in {"queued", "inflight"} /\ b[k].edit.n \in Int
  BY <1>2 DEF W, EditSet
<1> QED BY <1>3 DEF NamesIn, Waiting, InFlight

LEMMA ShrinksAgain ==
  ASSUME NEW t, NEW r, NEW q, NEW g, NEW h, Shrinks(t, r, g), Shrinks(r, q, h)
  PROVE  Shrinks(t, q, g \union h)
<1>1. Among(t.buffer, q.buffer) BY DEF Shrinks, Among
<1>2. NamesIn(q.buffer) \subseteq NamesIn(r.buffer) BY AmongNames DEF Shrinks
<1>3. SameWrites(t.up, q.up) BY DEF Shrinks, SameWrites
<1> QED BY <1>1, <1>2, <1>3 DEF Shrinks

LEMMA ShrinksNot == ASSUME NEW t, TabOK(t) PROVE Shrinks(t, t, {})
  BY DEF Shrinks, Among, SameWrites

\* The fields the proofs are about are the same.
LEMMA ShrinksSame ==
  ASSUME NEW t, NEW r, NEW q, NEW g, Shrinks(t, r, g), TabOK(q),
         q.buffer = r.buffer, q.up = r.up, q.undo = r.undo
  PROVE  Shrinks(t, q, g)
  BY DEF Shrinks

LEMMA UndoRequested ==
  ASSUME NEW u \in Seq(UpSet)
  PROVE  Append(u, UndoRequest) \in Seq(UpSet) /\ SameWrites(u, Append(u, UndoRequest))
<1>1. UndoRequest \in UpSet BY DEF UpSet, UndoRequest
<1>2. WriteName(UndoRequest) = {} BY DEF WriteName, UndoRequest
<1>3. Below(WriteNames(u), {}) BY DEF Below
<1>4. /\ WriteNames(Append(u, UndoRequest)) = WriteNames(u) \union WriteName(UndoRequest)
      /\ WritesGrow(u) /\ Below(WriteNames(u), WriteName(UndoRequest))
           => WritesGrow(Append(u, UndoRequest))
  BY <1>1, NamesOfAppend
<1>5. Append(u, UndoRequest) \in Seq(UpSet) BY <1>1, AppendProperties
<1> QED BY <1>2, <1>3, <1>4, <1>5 DEF SameWrites

LEMMA FlushShrinks ==
  ASSUME NEW t, TabOK(t)
  PROVE  /\ Shrinks(t, FlushPendingUndo(t), {}) /\ FlushPendingUndo(t).buffer = t.buffer
<1> DEFINE r == FlushPendingUndo(t)
<1>1. CASE t.undo = "waiting" /\ t.buffer = <<>>
  <2>1. r = [t EXCEPT !.undo = "sent", !.up = Append(t.up, UndoRequest)]
    BY <1>1 DEF FlushPendingUndo
  <2> DEFINE q == [t EXCEPT !.undo = "sent"]
  <2>2. r.buffer = t.buffer /\ r.undo = "sent" /\ r.up = Append(t.up, UndoRequest) /\ r.again = t.again
    BY <2>1 DEF TabOK, Tab
  <2>3. Tab(r)
    <3>1. Tab(q) BY DEF TabOK, Tab
    <3>2. r = [q EXCEPT !.up = Append(t.up, UndoRequest)] BY <2>1
    <3> HIDE DEF q, r
    <3> QED BY <3>1, <3>2 DEF Tab
  <2> HIDE DEF r
  <2>4. Append(t.up, UndoRequest) \in Seq(UpSet) /\ SameWrites(t.up, Append(t.up, UndoRequest))
    BY UndoRequested DEF TabOK
  <2>5. TabOK(r) BY <2>2, <2>3, <2>4 DEF TabOK
  <2>6. Shrinks(t, r, {}) BY <1>1, <2>2, <2>4, <2>5 DEF Shrinks, Among
  <2> QED BY <2>2, <2>6 DEF r
<1>2. CASE ~(t.undo = "waiting" /\ t.buffer = <<>>)
  <2>1. r = t BY <1>2 DEF FlushPendingUndo
  <2> QED BY <2>1, ShrinksNot
<1> QED BY <1>1, <1>2

\* A tab with some of its edits.
LEMMA WithoutSome ==
  ASSUME NEW t, TabOK(t), NEW S
  PROVE  LET r == [t EXCEPT !.buffer = Only(t.buffer, S)] IN
         /\ TabOK(r) /\ r.buffer = Only(t.buffer, S)
         /\ Shrinks(t, r, {}) /\ \A k \in DOMAIN r.buffer : r.buffer[k] \in S
         /\ \A k \in DOMAIN t.buffer : t.buffer[k] \in S => t.buffer[k].edit.n \in NamesIn(r.buffer)
<1> DEFINE b == Only(t.buffer, S)
           r == [t EXCEPT !.buffer = b]
<1>1. b \in Buffers /\ OnlyOf(b, t.buffer, S, Len(t.buffer)) BY OnlyKeeps DEF TabOK
<1>2. Len(t.buffer) \in Nat /\ DOMAIN t.buffer = 1..Len(t.buffer)
  BY LenProperties DEF TabOK, Buffers
<1> HIDE DEF b
<1>4. Tab(r) /\ r.buffer = b /\ r.undo = t.undo /\ r.up = t.up /\ r.again = t.again
  BY DEF TabOK, Tab
<1> HIDE DEF r
<1>5. TabOK(r) BY <1>1, <1>4 DEF TabOK
<1>6. Among(t.buffer, b) BY <1>1, <1>2 DEF OnlyOf, Among
<1>7. Shrinks(t, r, {}) BY <1>1, <1>4, <1>5, <1>6 DEF Shrinks, OnlyOf, SameWrites
<1>8. \A k \in DOMAIN b : b[k] \in S BY <1>1 DEF OnlyOf
<1>9. \A k \in DOMAIN t.buffer : t.buffer[k] \in S => t.buffer[k].edit.n \in NamesIn(b)
  BY <1>1, <1>2 DEF OnlyOf, NamesIn
<1> QED BY <1>4, <1>5, <1>7, <1>8, <1>9 DEF r, b

LEMMA ResolveShrinks ==
  ASSUME NEW t, TabOK(t), NEW n
  PROVE  /\ Shrinks(t, ResolveBufferedWrite(t, n), {n})
         /\ NamesIn(t.buffer) \ {n} \subseteq NamesIn(ResolveBufferedWrite(t, n).buffer)
<1>1. CASE n \notin NamesIn(t.buffer)
  <2>1. ResolveBufferedWrite(t, n) = t BY <1>1 DEF ResolveBufferedWrite
  <2> QED BY <1>1, <2>1, ShrinksNot DEF Shrinks
<1>2. CASE n \in NamesIn(t.buffer)
  <2> DEFINE S == {w \in Range(t.buffer) : w.edit.n \notin {n}}
             r == [t EXCEPT !.buffer = Only(t.buffer, S)]
  <2>1. ResolveBufferedWrite(t, n) = FlushPendingUndo(r)
    BY <1>2 DEF ResolveBufferedWrite, WritesBut
  <2>2. /\ TabOK(r) /\ Shrinks(t, r, {}) /\ \A k \in DOMAIN r.buffer : r.buffer[k] \in S
        /\ \A k \in DOMAIN t.buffer : t.buffer[k] \in S => t.buffer[k].edit.n \in NamesIn(r.buffer)
    <3> HIDE DEF S
    <3> QED BY WithoutSome
  <2> HIDE DEF r
  <2>3. NamesIn(r.buffer) \intersect {n} = {} BY <2>2 DEF NamesIn
  <2>4. \A k \in DOMAIN t.buffer : t.buffer[k].edit.n # n => t.buffer[k] \in S
    BY DEF Range
  <2>5. NamesIn(t.buffer) \ {n} \subseteq NamesIn(r.buffer)
    <3>1. SUFFICES ASSUME NEW k \in DOMAIN t.buffer, t.buffer[k].edit.n # n
                   PROVE  t.buffer[k].edit.n \in NamesIn(r.buffer)
      BY DEF NamesIn
    <3> QED BY <2>2, <2>4, <3>1
  <2>6. Shrinks(r, FlushPendingUndo(r), {}) /\ FlushPendingUndo(r).buffer = r.buffer
    BY <2>2, FlushShrinks
  <2>7. Shrinks(t, FlushPendingUndo(r), {} \union {}) BY <2>2, <2>6, ShrinksAgain
  <2> QED BY <2>1, <2>3, <2>5, <2>6, <2>7 DEF Shrinks
<1> QED BY <1>1, <1>2

LEMMA PruneShrinks ==
  ASSUME NEW t, TabOK(t), NEW e
  PROVE  Shrinks(t, PruneBufferedWrites(t, e), {})
<1>1. CASE t.buffer = <<>>
  <2>1. PruneBufferedWrites(t, e) = t BY <1>1 DEF PruneBufferedWrites
  <2> QED BY <2>1, ShrinksNot
<1>2. CASE t.buffer # <<>> /\ e.type = "clear"
  <2> DEFINE r == [t EXCEPT !.buffer = <<>>, !.undo = "none", !.again = 0]
  <2>1. PruneBufferedWrites(t, e) = r BY <1>2 DEF PruneBufferedWrites
  <2> DEFINE q == [t EXCEPT !.buffer = <<>>]
             p == [q EXCEPT !.undo = "none"]
  <2>2. /\ r.buffer = <<>> /\ r.undo = "none" /\ r.up = t.up /\ r.again = 0
    BY DEF TabOK, Tab
  <2>3. Tab(r)
    <3>1. Tab(q) BY DEF TabOK, Tab
    <3>2. r = [p EXCEPT !.again = 0] OBVIOUS
    <3> HIDE DEF q, r
    <3>3. Tab(p) BY <3>1 DEF Tab
    <3> HIDE DEF p
    <3> QED BY <3>2, <3>3 DEF Tab
  <2> HIDE DEF r
  <2>4. <<>> \in Buffers /\ DOMAIN <<>> = {} BY EmptySeq DEF Buffers
  <2>5. TabOK(r) BY <2>2, <2>3, <2>4 DEF TabOK
  <2>6. Shrinks(t, r, {}) BY <2>2, <2>4, <2>5, NamesOfNone DEF Shrinks, Among, SameWrites
  <2> QED BY <2>1, <2>6
<1>3. CASE t.buffer # <<>> /\ e.type # "clear"
  <2> DEFINE S == {w \in Range(t.buffer) : ~Concerns(w.edit, Invalidated(e))}
             r == [t EXCEPT !.buffer = Only(t.buffer, S)]
  <2>1. PruneBufferedWrites(t, e) = r BY <1>3 DEF PruneBufferedWrites
  <2> HIDE DEF S
  <2>2. Shrinks(t, r, {}) BY WithoutSome
  <2> QED BY <2>1, <2>2
<1> QED BY <1>1, <1>2, <1>3

MineName(e) == IF IsMine(e) THEN {e.n} ELSE {}

LEMMA HandleShrinks ==
  ASSUME NEW t, TabOK(t), NEW e
  PROVE  Shrinks(t, HandleMessage(t, e), MineName(e))
<1> DEFINE resolved == IF IsMine(e) THEN ResolveBufferedWrite(t, e.n) ELSE t
           pruned   == PruneBufferedWrites(resolved, e)
           r        == [pruned EXCEPT !.screen = Draw(pruned.screen, e)]
<1>1. HandleMessage(t, e) = r BY DEF HandleMessage
<1>2. Shrinks(t, resolved, MineName(e))
  <2>1. CASE IsMine(e) BY <2>1, ResolveShrinks DEF MineName
  <2>2. CASE ~IsMine(e) BY <2>2, ShrinksNot DEF MineName
  <2> QED BY <2>1, <2>2
<1> HIDE DEF resolved
<1>3. TabOK(resolved) BY <1>2 DEF Shrinks
<1>4. Shrinks(resolved, pruned, {}) BY <1>3, PruneShrinks
<1> HIDE DEF pruned
<1>5. Shrinks(t, pruned, MineName(e) \union {}) BY <1>2, <1>4, ShrinksAgain
<1>6. TabOK(pruned) BY <1>4 DEF Shrinks
<1>7. /\ Tab(r) /\ r.buffer = pruned.buffer /\ r.undo = pruned.undo /\ r.up = pruned.up
      /\ r.again = pruned.again
  <2>1. Tab(pruned) BY <1>6 DEF TabOK
  <2>2. r = [pruned EXCEPT !.screen = Draw(pruned.screen, e)] OBVIOUS
  <2> HIDE DEF r
  <2> QED BY <2>1, <2>2 DEF Tab
<1> HIDE DEF r
<1>8. TabOK(r) BY <1>6, <1>7 DEF TabOK
<1>9. Shrinks(t, pruned, MineName(e)) BY <1>5
<1>10. Shrinks(t, r, MineName(e)) BY <1>7, <1>8, <1>9, ShrinksSame
<1> QED BY <1>1, <1>10

\* What HandleAll goes through.
HandledFunction(f, t, edits, n) ==
  f = [k \in 0..n |-> IF k = 0 THEN t ELSE HandleMessage(f[k - 1], edits[k])]

LEMMA HandledExists ==
  ASSUME NEW t, NEW edits, NEW n \in Nat PROVE \E f : HandledFunction(f, t, edits, n)
<1> DEFINE T == {m \in Nat : ~ \E f : HandledFunction(f, t, edits, m)}
<1> SUFFICES ASSUME T # {} PROVE FALSE OBVIOUS
<1>1. PICK m \in T : \A k \in T : m <= k
  <2>1. T \subseteq Nat OBVIOUS
  <2> HIDE DEF T
  <2> QED BY <2>1, Least
<1>2. CASE m = 0
  <2> DEFINE f == [k \in 0..0 |-> t]
  <2>1. HandledFunction(f, t, edits, 0) BY DEF HandledFunction
  <2> QED BY <1>2, <2>1
<1>3. CASE m # 0
  <2>1. m - 1 \in Nat /\ m - 1 \notin T BY <1>1, <1>3
  <2>2. PICK f : HandledFunction(f, t, edits, m - 1) BY <2>1
  <2> DEFINE last == HandleMessage(f[m - 1], edits[m])
             g    == [k \in 0..m |-> IF k = m THEN last ELSE f[k]]
  <2>3. \A k \in 0..(m - 1) : f[k] = IF k = 0 THEN t ELSE HandleMessage(f[k - 1], edits[k])
    BY <2>2 DEF HandledFunction
  <2>4. \A k \in 0..m : g[k] = IF k = 0 THEN t ELSE HandleMessage(g[k - 1], edits[k])
    BY <1>3, <2>1, <2>3
  <2>5. HandledFunction(g, t, edits, m) BY <2>4 DEF HandledFunction
  <2> QED BY <2>5
<1> QED BY <1>2, <1>3

LEMMA HandledSteps ==
  ASSUME NEW t, NEW edits, Len(edits) \in Nat
  PROVE  \E f : /\ f[0] = t /\ HandleAll(t, edits) = f[Len(edits)]
                /\ \A k \in 1..Len(edits) : f[k] = HandleMessage(f[k - 1], edits[k])
<1> DEFINE f == CHOOSE f : HandledFunction(f, t, edits, Len(edits))
<1>1. HandledFunction(f, t, edits, Len(edits)) BY HandledExists
<1>2. HandleAll(t, edits) = f[Len(edits)] BY DEF HandleAll, HandledFunction
<1> HIDE DEF f
<1>3. \A m \in 0..Len(edits) : f[m] = IF m = 0 THEN t ELSE HandleMessage(f[m - 1], edits[m])
  BY <1>1, Zenon DEF HandledFunction
<1>4. f[0] = t
  <2>1. 0 \in 0..Len(edits) OBVIOUS
  <2> QED BY <1>3, <2>1
<1>5. ASSUME NEW k \in 1..Len(edits) PROVE f[k] = HandleMessage(f[k - 1], edits[k])
  <2>1. k \in 0..Len(edits) /\ k # 0 OBVIOUS
  <2> QED BY <1>3, <2>1, Zenon
<1> QED BY <1>2, <1>4, <1>5

\* After a replay the tab keeps none of the edits that are in it.
LEMMA HandleAllShrinks ==
  ASSUME NEW t, TabOK(t), NEW edits \in Seq(EditSet)
  PROVE  Shrinks(t, HandleAll(t, edits), MineIn(edits))
<1>1. Len(edits) \in Nat /\ DOMAIN edits = 1..Len(edits) BY LenProperties
<1>2. PICK f : /\ f[0] = t /\ HandleAll(t, edits) = f[Len(edits)]
               /\ \A k \in 1..Len(edits) : f[k] = HandleMessage(f[k - 1], edits[k])
  BY <1>1, HandledSteps
<1> DEFINE Upto(n) == UNION {MineName(edits[k]) : k \in 1..n}
           Good(n) == Shrinks(t, f[n], Upto(n))
           T       == {n \in 0..Len(edits) : ~Good(n)}
<1> HIDE DEF Upto
<1>3. ASSUME T # {} PROVE FALSE
  <2>1. PICK n \in T : \A m \in T : n <= m
    <3>1. T \subseteq Nat BY <1>1
    <3> HIDE DEF T
    <3> QED BY <1>3, <3>1, Least
  <2>2. CASE n = 0
    <3>1. Upto(0) = {} BY SMT DEF Upto
    <3>2. Good(0) BY <1>2, <3>1, ShrinksNot
    <3> QED BY <2>1, <2>2, <3>2
  <2>3. CASE n # 0
    <3>1. n - 1 \in 0..Len(edits) /\ n \in 1..Len(edits) BY <1>1, <2>1, <2>3
    <3>2. Good(n - 1) BY <2>1, <3>1
    <3>3. \A k \in 1..n : k \in 1..n - 1 \/ k = n BY <3>1
    <3>4. Upto(n) \subseteq Upto(n - 1) \union MineName(edits[n]) BY <3>3, Zenon DEF Upto
    <3>5. TabOK(f[n - 1]) BY <3>2 DEF Shrinks
    <3>6. Shrinks(f[n - 1], f[n], MineName(edits[n])) BY <1>2, <3>1, <3>5, HandleShrinks
    <3>7. Shrinks(t, f[n], Upto(n - 1) \union MineName(edits[n])) BY <3>2, <3>6, ShrinksAgain
    <3>8. Good(n) BY <3>4, <3>7 DEF Shrinks
    <3> QED BY <2>1, <3>8
  <2> QED BY <2>2, <2>3
<1>4. Good(Len(edits)) BY <1>1, <1>3
<1>5. MineIn(edits) \subseteq Upto(Len(edits)) BY <1>1 DEF MineIn, MineName, Upto
<1> QED BY <1>2, <1>4, <1>5 DEF Shrinks

\* One edit of the buffer.
Write == [edit : EditSet, state : {"queued", "inflight"}, redraw : BOOLEAN]

LEMMA BufferOfWrites ==
  ASSUME NEW b \in Buffers
  PROVE  /\ Len(b) \in Nat /\ DOMAIN b = 1..Len(b) /\ \A k \in DOMAIN b : b[k] \in Write
         /\ Buffers = Seq(Write)
<1>1. b \in Seq(Write) /\ Buffers = Seq(Write) BY DEF Buffers, Write
<1>2. Len(b) \in Nat /\ DOMAIN b = 1..Len(b) BY <1>1, LenProperties
<1> QED BY <1>1, <1>2, ElementOfSeq

LEMMA EmittedWrite ==
  ASSUME NEW w \in Write
  PROVE  Emitted(w) \in Write /\ Emitted(w).edit = w.edit /\ Emitted(w).state = "inflight"
  BY DEF Write, Emitted

\* The names of the writes that wait in the first places of the buffer.
SentUpTo(b, last) == {b[k].edit.n : k \in {k \in 1..last : b[k].state = "queued"}}

LEMMA PumpedBuffer ==
  ASSUME NEW b \in Buffers, NEW last \in 0..Len(b)
  PROVE  LET c == [k \in DOMAIN b |-> IF k <= last THEN Emitted(b[k]) ELSE b[k]] IN
         /\ c \in Buffers /\ NamesIn(c) = NamesIn(b) /\ Waiting(c) \subseteq Waiting(b)
         /\ InFlight(c) \subseteq InFlight(b) \union SentUpTo(b, last)
         /\ BufferGrows(b) => BufferGrows(c) /\ Below(SentUpTo(b, last), Waiting(c))
<1> DEFINE c == [k \in DOMAIN b |-> IF k <= last THEN Emitted(b[k]) ELSE b[k]]
<1>1. /\ Len(b) \in Nat /\ DOMAIN b = 1..Len(b) /\ \A k \in DOMAIN b : b[k] \in Write
      /\ Buffers = Seq(Write)
  BY BufferOfWrites
<1>2. \A k \in DOMAIN b : /\ c[k] \in Write /\ c[k].edit = b[k].edit
                          /\ c[k].state = IF k <= last THEN "inflight" ELSE b[k].state
  BY <1>1, EmittedWrite
<1>3. DOMAIN c = DOMAIN b /\ c = [k \in 1..Len(b) |-> c[k]] BY <1>1
<1> HIDE DEF c
<1>4. c \in [1..Len(b) -> Write] BY <1>1, <1>2, <1>3
<1>5. c \in Buffers BY <1>1, <1>4, FunctionIsSeq
<1>6. NamesIn(c) = NamesIn(b) BY <1>2, <1>3 DEF NamesIn
<1>7. Waiting(c) \subseteq Waiting(b) BY <1>2, <1>3 DEF Waiting
<1>8. InFlight(c) \subseteq InFlight(b) \union SentUpTo(b, last)
  <2> SUFFICES ASSUME NEW k \in DOMAIN c, c[k].state = "inflight"
               PROVE  c[k].edit.n \in InFlight(b) \union SentUpTo(b, last)
    BY Zenon DEF InFlight
  <2>1. k \in DOMAIN b /\ b[k].state \in {"queued", "inflight"} BY <1>1, <1>3 DEF Write
  <2>2. CASE b[k].state = "inflight" BY <1>2, <2>1, <2>2 DEF InFlight
  <2>3. CASE b[k].state = "queued"
    <3>1. k <= last BY <1>2, <2>1, <2>3
    <3>2. k \in 1..last BY <1>1, <2>1, <3>1
    <3> QED BY <1>2, <2>1, <2>3, <3>2 DEF SentUpTo
  <2> QED BY <2>1, <2>2, <2>3
<1>9. ASSUME BufferGrows(b) PROVE BufferGrows(c) /\ Below(SentUpTo(b, last), Waiting(c))
  <2>1. BufferGrows(c) BY <1>2, <1>3, <1>9 DEF BufferGrows
  <2>2. SUFFICES ASSUME NEW k \in 1..last, NEW l \in DOMAIN b, c[l].state = "queued"
                 PROVE  b[k].edit.n < c[l].edit.n
    BY <1>3, <2>1 DEF Below, SentUpTo, Waiting
  <2>3. k \in DOMAIN b /\ k < l BY <1>1, <1>2, <2>2
  <2> QED BY <1>2, <1>9, <2>3 DEF BufferGrows
<1> QED BY <1>5, <1>6, <1>7, <1>8, <1>9 DEF c

LEMMA SentMessages ==
  ASSUME NEW b \in Buffers, NEW last \in 0..Len(b)
  PROVE  LET first == SubSeq(b, 1, last)
             sent  == Only(first, {w \in Range(first) : w.state = "queued"})
             ws    == [k \in DOMAIN sent |-> Message("write", sent[k].edit)]
         IN  /\ ws \in Seq(UpSet) /\ \A k \in DOMAIN ws : ws[k].kind = "write"
             /\ NamesIn(ws) = SentUpTo(b, last) /\ (BufferGrows(b) => BufferGrows(ws))
<1> DEFINE first == SubSeq(b, 1, last)
           S     == {w \in Range(first) : w.state = "queued"}
           sent  == Only(first, S)
           ws    == [k \in DOMAIN sent |-> Message("write", sent[k].edit)]
<1>1. /\ Len(b) \in Nat /\ DOMAIN b = 1..Len(b) /\ \A k \in DOMAIN b : b[k] \in Write
      /\ Buffers = Seq(Write)
  BY BufferOfWrites
<1>2. first \in Seq(Write) /\ Len(first) = last /\ \A k \in 1..last : first[k] = b[k]
  BY <1>1, InitialPart
<1> HIDE DEF first
<1>3. DOMAIN first = 1..last BY <1>2, LenProperties
<1>4. \A w : w \in S <=> (\E k \in 1..last : w = b[k]) /\ w.state = "queued" BY <1>2, <1>3 DEF Range
<1> HIDE DEF S
<1>5. sent \in Buffers /\ OnlyOf(sent, first, S, last) BY <1>1, <1>2, OnlyKeeps
<1> HIDE DEF sent
<1>6. /\ Len(sent) \in Nat /\ DOMAIN sent = 1..Len(sent) /\ \A k \in DOMAIN sent : sent[k] \in Write
  BY <1>5, BufferOfWrites
<1>7. /\ DOMAIN ws = 1..Len(sent)
      /\ \A k \in DOMAIN sent : ws[k].kind = "write" /\ ws[k].edit = sent[k].edit /\ ws[k] \in UpSet
  BY <1>6 DEF Message, UpSet, Write
<1>8. ws \in [1..Len(sent) -> UpSet] BY <1>6, <1>7
<1> HIDE DEF ws
<1>9. ws \in Seq(UpSet) BY <1>6, <1>8, FunctionIsSeq
<1>10. NamesIn(ws) = SentUpTo(b, last)
  <2>1. ASSUME NEW k \in DOMAIN sent PROVE sent[k].edit.n \in SentUpTo(b, last)
    <3>1. sent[k] \in S BY <1>5 DEF OnlyOf
    <3> QED BY <1>4, <3>1 DEF SentUpTo
  <2>2. ASSUME NEW m \in 1..last, b[m].state = "queued"
        PROVE  \E k \in DOMAIN sent : sent[k].edit.n = b[m].edit.n
    <3>1. first[m] \in S BY <1>2, <1>4, <2>2
    <3> QED BY <1>2, <1>5, <3>1 DEF OnlyOf
  <2>3. NamesIn(ws) \subseteq SentUpTo(b, last) BY <1>6, <1>7, <2>1 DEF NamesIn
  <2>4. SentUpTo(b, last) \subseteq NamesIn(ws) BY <1>6, <1>7, <2>2 DEF NamesIn, SentUpTo
  <2> QED BY <2>3, <2>4
<1>11. ASSUME BufferGrows(b) PROVE BufferGrows(ws)
  <2>1. BufferGrows(first) BY <1>1, <1>2, <1>3, <1>11 DEF BufferGrows
  <2>2. BufferGrows(sent) BY <1>5, <2>1 DEF OnlyOf
  <2> QED BY <1>6, <1>7, <2>2 DEF BufferGrows
<1> QED BY <1>6, <1>7, <1>9, <1>10, <1>11 DEF ws, sent, S, first

\* Sending: nothing leaves the buffer, and the writes that wait are sent in
\* their order, the first ones first.
Pumps(t, r, sent) ==
  /\ TabOK(r) /\ r.undo = t.undo /\ NamesIn(r.buffer) = NamesIn(t.buffer)
  /\ BufferGrows(r.buffer) /\ (WritesGrow(t.up) /\ Below(WriteNames(t.up), sent) => WritesGrow(r.up))
  /\ WriteNames(r.up) = WriteNames(t.up) \union sent
  /\ Waiting(r.buffer) \subseteq Waiting(t.buffer) /\ sent \subseteq Waiting(t.buffer)
  /\ InFlight(r.buffer) \subseteq InFlight(t.buffer) \union sent
  /\ Below(sent, Waiting(r.buffer))

LEMMA PumpSends ==
  ASSUME NEW t, TabOK(t), NEW last \in {0} \union Queued(t),
         BufferGrows(t.buffer)
  PROVE  /\ Pumps(t, PumpBufferedWrites(t, last), SentUpTo(t.buffer, last))
         /\ last = 0 => SentUpTo(t.buffer, last) = {}
<1> DEFINE b     == t.buffer
           first == SubSeq(b, 1, last)
           sent  == Only(first, {w \in Range(first) : w.state = "queued"})
           ws    == [k \in DOMAIN sent |-> Message("write", sent[k].edit)]
           c     == [k \in DOMAIN b |-> IF k <= last THEN Emitted(b[k]) ELSE b[k]]
           d     == FoldLeft(Redraw, t, sent)
           r     == [t EXCEPT !.buffer = c, !.up = t.up \o ws, !.screen = d.screen,
                              !.journal = d.journal]
           P     == SentUpTo(b, last)
<1>1. PumpBufferedWrites(t, last) = r BY DEF PumpBufferedWrites
<1>2. /\ b \in Buffers /\ Len(b) \in Nat /\ DOMAIN b = 1..Len(b)
      /\ \A k \in DOMAIN b : b[k] \in Write
  BY BufferOfWrites DEF TabOK
<1>3. last \in 0..Len(b) BY <1>2 DEF Queued
<1>4. /\ ws \in Seq(UpSet) /\ \A k \in DOMAIN ws : ws[k].kind = "write"
      /\ NamesIn(ws) = P /\ BufferGrows(ws)
  BY <1>2, <1>3, SentMessages
<1>5. /\ c \in Buffers /\ NamesIn(c) = NamesIn(b) /\ Waiting(c) \subseteq Waiting(b)
      /\ InFlight(c) \subseteq InFlight(b) \union P
      /\ BufferGrows(c) /\ Below(P, Waiting(c))
  BY <1>2, <1>3, PumpedBuffer
<1> HIDE DEF c, ws, d
<1>6. r.buffer = c /\ r.undo = t.undo /\ r.again = t.again /\ r.up = t.up \o ws
  BY DEF TabOK, Tab
<1>7. Tab(r)
  <2> DEFINE v  == t.up \o ws
             r1 == [t EXCEPT !.buffer = c]
             r2 == [r1 EXCEPT !.up = v]
             r3 == [r2 EXCEPT !.screen = d.screen]
  <2>1. r = [r3 EXCEPT !.journal = d.journal] BY DEF TabOK, Tab
  <2> HIDE DEF r, v
  <2>2. Tab(r1) BY DEF TabOK, Tab
  <2> HIDE DEF r1
  <2>3. Tab(r2) BY <2>2 DEF Tab
  <2> HIDE DEF r2
  <2>4. Tab(r3) BY <2>3 DEF Tab
  <2> HIDE DEF r3
  <2> QED BY <2>1, <2>4 DEF Tab
<1> HIDE DEF r
<1>8. P \subseteq Waiting(b) BY <1>2, <1>3 DEF SentUpTo, Waiting
<1>9. last = 0 => P = {} BY DEF SentUpTo
<1> HIDE DEF P
<1>10. /\ t.up \o ws \in Seq(UpSet) /\ WriteNames(t.up \o ws) = WriteNames(t.up) \union P
       /\ WritesGrow(t.up) /\ Below(WriteNames(t.up), P) => WritesGrow(t.up \o ws)
  <2>1. t.up \in Seq(UpSet) BY DEF TabOK
  <2> QED BY <1>4, <2>1, NamesOfConcat
<1>11. TabOK(r) BY <1>5, <1>6, <1>7, <1>10 DEF TabOK
<1>12. Pumps(t, r, P) BY <1>5, <1>6, <1>8, <1>10, <1>11 DEF Pumps
<1> QED BY <1>1, <1>9, <1>12 DEF P

LEMMA QueuesAll ==
  ASSUME NEW b \in Buffers, NEW edits \in Seq(EditSet)
  PROVE  LET c == b \o [k \in DOMAIN edits |-> QueuedWrite(edits[k])] IN
         /\ c \in Buffers /\ NamesIn(c) = NamesIn(b) \union EditNames(edits)
         /\ Waiting(c) = Waiting(b) \union EditNames(edits) /\ InFlight(c) = InFlight(b)
         /\ BufferGrows(b) /\ EditsGrow(edits) /\ Below(NamesIn(b), EditNames(edits))
              => BufferGrows(c)
<1> DEFINE ws == [k \in DOMAIN edits |-> QueuedWrite(edits[k])]
           c  == b \o ws
<1>1. /\ Len(b) \in Nat /\ DOMAIN b = 1..Len(b) /\ b \in Seq(Write)
      /\ Len(edits) \in Nat /\ DOMAIN edits = 1..Len(edits) /\ Buffers = Seq(Write)
      /\ \A k \in DOMAIN edits : edits[k] \in EditSet
  BY BufferOfWrites, LenProperties, ElementOfSeq
<1>2. \A k \in DOMAIN edits : /\ ws[k] \in Write /\ ws[k].edit = edits[k]
                              /\ ws[k].state = "queued"
  BY <1>1 DEF QueuedWrite, Write
<1>3. DOMAIN ws = 1..Len(edits) /\ ws \in [1..Len(edits) -> Write] BY <1>1, <1>2
<1> HIDE DEF ws
<1>4. ws \in Seq(Write) /\ Len(ws) = Len(edits) BY <1>1, <1>3, FunctionIsSeq
<1>5. /\ c \in Seq(Write) /\ Len(c) = Len(b) + Len(edits)
      /\ \A k \in 1..Len(b) + Len(edits) : c[k] = IF k <= Len(b) THEN b[k] ELSE ws[k - Len(b)]
  <2>1. b \in Seq(Write) BY <1>1
  <2>2. /\ c \in Seq(Write) /\ Len(c) = Len(b) + Len(ws)
        /\ \A k \in 1..Len(b) + Len(ws) : c[k] = IF k <= Len(b) THEN b[k] ELSE ws[k - Len(b)]
    BY <1>4, <2>1, ConcatProperties
  <2> HIDE DEF c
  <2> QED BY <1>4, <2>2
<1> HIDE DEF c
<1>6. DOMAIN c = 1..Len(b) + Len(edits) BY <1>5, LenProperties
<1>7. \A k \in DOMAIN b : k \in DOMAIN c /\ c[k] = b[k] BY <1>1, <1>5, <1>6
<1>8. \A k \in DOMAIN edits : /\ k + Len(b) \in DOMAIN c /\ c[k + Len(b)].edit = edits[k]
                              /\ c[k + Len(b)].state = "queued"
  BY <1>1, <1>2, <1>5, <1>6
<1>9. \A k \in DOMAIN c : \/ k \in DOMAIN b
                          \/ /\ k - Len(b) \in DOMAIN edits /\ c[k].edit = edits[k - Len(b)]
                             /\ c[k].state = "queued"
  BY <1>1, <1>2, <1>5, <1>6
<1>10. NamesIn(c) = NamesIn(b) \union EditNames(edits)
  <2>1. NamesIn(b) \subseteq NamesIn(c) BY <1>7 DEF NamesIn
  <2>2. EditNames(edits) \subseteq NamesIn(c) BY <1>8 DEF NamesIn, EditNames
  <2>3. NamesIn(c) \subseteq NamesIn(b) \union EditNames(edits)
    BY <1>7, <1>9 DEF NamesIn, EditNames
  <2> QED BY <2>1, <2>2, <2>3
<1>11. Waiting(c) = Waiting(b) \union EditNames(edits)
  <2>1. Waiting(b) \subseteq Waiting(c) BY <1>7 DEF Waiting
  <2>2. EditNames(edits) \subseteq Waiting(c) BY <1>8 DEF Waiting, EditNames
  <2>3. Waiting(c) \subseteq Waiting(b) \union EditNames(edits)
    BY <1>7, <1>9 DEF Waiting, EditNames
  <2> QED BY <2>1, <2>2, <2>3
<1>12. InFlight(c) = InFlight(b)
  <2>1. InFlight(b) \subseteq InFlight(c) BY <1>7 DEF InFlight
  <2>2. InFlight(c) \subseteq InFlight(b) BY <1>7, <1>9 DEF InFlight
  <2> QED BY <2>1, <2>2
<1>13. ASSUME BufferGrows(b), EditsGrow(edits), Below(NamesIn(b), EditNames(edits))
       PROVE  BufferGrows(c)
  <2> SUFFICES ASSUME NEW k \in DOMAIN c, NEW l \in DOMAIN c, k < l
               PROVE  c[k].edit.n < c[l].edit.n BY DEF BufferGrows
  <2>1. CASE l \in DOMAIN b
    <3>1. k \in DOMAIN b BY <1>1, <1>6, <2>1
    <3> QED BY <1>7, <1>13, <2>1, <3>1 DEF BufferGrows
  <2>2. CASE l \notin DOMAIN b
    <3>1. l - Len(b) \in DOMAIN edits /\ c[l].edit = edits[l - Len(b)] BY <1>9, <2>2
    <3>2. CASE k \in DOMAIN b
      <4>1. c[k].edit.n \in NamesIn(b) BY <1>7, <3>2 DEF NamesIn
      <4>2. c[l].edit.n \in EditNames(edits) BY <3>1 DEF EditNames
      <4> QED BY <1>13, <4>1, <4>2 DEF Below
    <3>3. CASE k \notin DOMAIN b
      <4>1. k - Len(b) \in DOMAIN edits /\ c[k].edit = edits[k - Len(b)] BY <1>9, <3>3
      <4>2. k - Len(b) < l - Len(b) BY <1>1, <1>6
      <4> QED BY <1>13, <3>1, <4>1, <4>2 DEF EditsGrow
    <3> QED BY <3>2, <3>3
  <2> QED BY <2>1, <2>2
<1> QED BY <1>1, <1>5, <1>10, <1>11, <1>12, <1>13 DEF c, ws

LEMMA QueuesOne ==
  ASSUME NEW b \in Buffers, NEW e \in EditSet
  PROVE  LET c == Append(b, QueuedWrite(e)) IN
         /\ c \in Buffers /\ NamesIn(c) = NamesIn(b) \union {e.n}
         /\ Waiting(c) = Waiting(b) \union {e.n} /\ InFlight(c) = InFlight(b)
         /\ BufferGrows(b) /\ Below(NamesIn(b), {e.n}) => BufferGrows(c)
<1> DEFINE w == QueuedWrite(e)
           c == Append(b, w)
<1>1. Len(b) \in Nat /\ DOMAIN b = 1..Len(b) /\ b \in Seq(Write) /\ Buffers = Seq(Write)
  BY BufferOfWrites
<1>2. w \in Write /\ w.edit = e /\ w.state = "queued" BY DEF QueuedWrite, Write
<1> HIDE DEF w
<1>3. /\ c \in Seq(Write) /\ Len(c) = Len(b) + 1 /\ c[Len(b) + 1] = w
      /\ \A k \in 1..Len(b) : c[k] = b[k]
  BY <1>1, <1>2, AppendProperties
<1> HIDE DEF c
<1>4. DOMAIN c = 1..Len(b) + 1 BY <1>3, LenProperties
<1>5. DOMAIN b \subseteq DOMAIN c /\ Len(b) + 1 \in DOMAIN c BY <1>1, <1>4
<1>6. \A k \in DOMAIN c : k \in DOMAIN b \/ k = Len(b) + 1 BY <1>1, <1>4
<1>7. NamesIn(c) = NamesIn(b) \union {e.n} BY <1>1, <1>2, <1>3, <1>5, <1>6 DEF NamesIn
<1>8. Waiting(c) = Waiting(b) \union {e.n} BY <1>1, <1>2, <1>3, <1>5, <1>6 DEF Waiting
<1>9. InFlight(c) = InFlight(b) BY <1>1, <1>2, <1>3, <1>5, <1>6 DEF InFlight
<1>10. ASSUME BufferGrows(b), Below(NamesIn(b), {e.n}) PROVE BufferGrows(c)
  <2> SUFFICES ASSUME NEW k \in DOMAIN c, NEW l \in DOMAIN c, k < l
               PROVE  c[k].edit.n < c[l].edit.n BY DEF BufferGrows
  <2>1. k \in DOMAIN b BY <1>1, <1>4
  <2>2. CASE l \in DOMAIN b BY <1>1, <1>3, <1>10, <2>1, <2>2 DEF BufferGrows
  <2>3. CASE l = Len(b) + 1 BY <1>1, <1>2, <1>3, <1>10, <2>1, <2>3 DEF Below, NamesIn
  <2> QED BY <1>6, <2>2, <2>3
<1> QED BY <1>1, <1>3, <1>7, <1>8, <1>9, <1>10 DEF c, w

\* One more edit that waits for a token.
LEMMA WaitsForToken ==
  ASSUME NEW es \in Seq(EditSet), NEW e \in EditSet
  PROVE  /\ Append(es, e) \in Seq(EditSet) /\ Append(es, e) # <<>>
         /\ EditNames(Append(es, e)) = EditNames(es) \union {e.n}
         /\ EditsGrow(es) /\ Below(EditNames(es), {e.n}) => EditsGrow(Append(es, e))
<1> DEFINE q == Append(es, e)
<1>1. /\ q \in Seq(EditSet) /\ Len(q) = Len(es) + 1 /\ q[Len(es) + 1] = e /\ q # <<>>
      /\ \A k \in 1..Len(es) : q[k] = es[k]
  BY AppendProperties
<1>2. Len(es) \in Nat /\ DOMAIN es = 1..Len(es) BY LenProperties
<1> HIDE DEF q
<1>3. DOMAIN q = 1..Len(es) + 1 BY <1>1, LenProperties
<1>4. \A k \in DOMAIN q : k \in DOMAIN es \/ k = Len(es) + 1 BY <1>2, <1>3
<1>5. DOMAIN es \subseteq DOMAIN q /\ Len(es) + 1 \in DOMAIN q BY <1>2, <1>3
<1>6. EditNames(q) = EditNames(es) \union {e.n} BY <1>1, <1>2, <1>4, <1>5 DEF EditNames
<1>7. ASSUME EditsGrow(es), Below(EditNames(es), {e.n}) PROVE EditsGrow(q)
  <2> SUFFICES ASSUME NEW k \in DOMAIN q, NEW l \in DOMAIN q, k < l
               PROVE  q[k].n < q[l].n BY DEF EditsGrow
  <2>1. k \in DOMAIN es BY <1>2, <1>3
  <2>2. CASE l \in DOMAIN es BY <1>1, <1>2, <1>7, <2>1, <2>2 DEF EditsGrow
  <2>3. CASE l = Len(es) + 1 BY <1>1, <1>2, <1>7, <2>1, <2>3 DEF Below, EditNames
  <2> QED BY <1>4, <2>2, <2>3
<1> QED BY <1>1, <1>6, <1>7 DEF q

-----------------------------------------------------------------------------
(* The messages that come *)

LEMMA FewMessages ==
  /\ Range(<<>>) = {} /\ (\A S : <<>> \in Seq(S))
  /\ \A m : /\ Range(<<m>>) = {m} /\ <<m>> # <<>> /\ Head(<<m>>) = m /\ Tail(<<m>>) = <<>>
            /\ \A S : m \in S => <<m>> \in Seq(S)
  /\ \A m, n : Range(<<m, n>>) = {m, n} /\ \A S : m \in S /\ n \in S => <<m, n>> \in Seq(S)
<1>1. Range(<<>>) = {} /\ (\A S : <<>> \in Seq(S)) BY EmptySeq DEF Range
<1>2. ASSUME NEW m
      PROVE  /\ Range(<<m>>) = {m} /\ <<m>> # <<>> /\ Head(<<m>>) = m /\ Tail(<<m>>) = <<>>
             /\ \A S : m \in S => <<m>> \in Seq(S)
  <2>1. DOMAIN <<m>> = {1} /\ <<m>>[1] = m OBVIOUS
  <2>2. Range(<<m>>) = {m} BY <2>1 DEF Range
  <2>3. \A S : m \in S => <<m>> \in Seq(S) OBVIOUS
  <2>4. <<m>> # <<>> /\ Head(<<m>>) = m /\ Tail(<<m>>) = <<>> OBVIOUS
  <2> QED BY <2>2, <2>3, <2>4
<1>3. ASSUME NEW m, NEW n
      PROVE  Range(<<m, n>>) = {m, n} /\ \A S : m \in S /\ n \in S => <<m, n>> \in Seq(S)
  <2>1. DOMAIN <<m, n>> = {1, 2} /\ <<m, n>>[1] = m /\ <<m, n>>[2] = n OBVIOUS
  <2>2. Range(<<m, n>>) = {m, n} BY <2>1 DEF Range
  <2> QED BY <2>2
<1> QED BY <1>1, <1>2, <1>3

-----------------------------------------------------------------------------
(* The steps of the tab that send nothing *)

LEMMA NowIsATab ==
  ASSUME WritesTypeOK, TokensAreRight
  PROVE  /\ TabOK(Now) /\ Now.buffer = buffer /\ Now.undo = undo /\ Now.again = again
         /\ Now.up = up
<1>1. /\ Now.buffer = buffer /\ Now.undo = undo /\ Now.again = again /\ Now.up = up
      /\ Tab(Now)
  BY DEF Now, Tab
<1> QED BY <1>1 DEF TabOK, WritesTypeOK, TokensAreRight

\* An answer to an edit, an edit of another user or the end of an undo: the
\* tab drops edits that are answered, or that it gives up.
LEMMA AnswerKeeps ==
  ASSUME SendInv, NEW r, NEW gone, Shrinks(Now, r, gone),
         buffer' = r.buffer, undo' = r.undo, again' = r.again, up' = r.up,
         Received, Head(down).kind # "batch",
         Head(down).kind = "rejected" => Head(down).n \in gone,
         NamesIn(buffer) \ NamesIn(r.buffer) \subseteq Committed \union refused \union abandoned',
         abandoned \subseteq abandoned', validated' = FALSE \/ validated' = validated,
         UNCHANGED <<guarded, link, conn, paused, challenged, drawn, closed, session, log,
                     refused, others>>
  PROVE  SendInv'
<1>1. /\ TabOK(r) /\ SameWrites(up, up') /\ Among(buffer, buffer')
      /\ (BufferGrows(buffer) => BufferGrows(buffer')) /\ NamesIn(buffer') \intersect gone = {}
      /\ undo = "none" => undo' = "none"
  BY NowIsATab DEF SendInv, Shrinks
<1>2. /\ NamesIn(buffer') \subseteq NamesIn(buffer) /\ Waiting(buffer') \subseteq Waiting(buffer)
      /\ InFlight(buffer') \subseteq InFlight(buffer)
  BY <1>1, AmongNames
<1>3. WriteNames(up') = WriteNames(up) /\ (WritesGrow(up) => WritesGrow(up'))
  BY <1>1 DEF SameWrites
<1>4. /\ Head(down) \in DownSet /\ down' = Tail(down) /\ down' \in Seq(DownSet)
      /\ Range(down) = {Head(down)} \union Range(down')
  BY RangeOfTail DEF SendInv, WritesTypeOK, Received
<1>5. link = "joined" /\ NoBatch(down) BY DEF SendInv, WritesTypeOK, AnswersAreRight, Received
<1>6. Committed' = Committed BY DEF Committed
<1>7. WritesTypeOK' BY <1>1, <1>4 DEF SendInv, WritesTypeOK, TabOK
<1>8. InOrder' BY <1>1, <1>2, <1>3, <1>6 DEF SendInv, InOrder, Below
<1>9. BufferFollows' BY <1>2, <1>3, <1>5, <1>6 DEF SendInv, BufferFollows, Below
<1>10. AnswersAreRight'
  <2>1. \A m \in Range(down') : Truthful(m)'
    BY <1>4 DEF SendInv, AnswersAreRight, Truthful
  <2>2. NoBatch(down') BY <1>4, <1>5 DEF NoBatch
  <2>3. ASSUME NEW n \in NamesIn(buffer') \intersect refused PROVE n \in Rejected(down')
    <3>1. PICK m \in Range(down) : m.kind = "rejected" /\ m.n = n
      BY <1>2, <2>3 DEF SendInv, AnswersAreRight, Rejected
    <3>2. m # Head(down) BY <1>1, <2>3, <3>1
    <3> QED BY <1>4, <3>1, <3>2 DEF Rejected
  <2> QED BY <1>5, <2>1, <2>2, <2>3 DEF AnswersAreRight
<1>11. TokensAreRight' BY <1>1, <1>5 DEF SendInv, TokensAreRight, TabOK
<1>12. NothingIsLost' BY <1>2, <1>3, <1>6 DEF SendInv, NothingIsLost
<1> QED BY <1>7, <1>8, <1>9, <1>10, <1>11, <1>12 DEF SendInv

LEMMA OwnBroadcastKeeps == ASSUME SendInv, OwnBroadcast PROVE SendInv'
<1> DEFINE n == Head(down).edit.n
           t == [Now EXCEPT !.journal = Promote(Now.journal, n)]
           r == ResolveBufferedWrite(t, n)
<1>1. /\ TabOK(Now) /\ Now.buffer = buffer /\ Now.undo = undo /\ Now.up = up
  BY NowIsATab DEF SendInv
<1>2. Shrinks(Now, t, {})
  <2>1. Tab(t) /\ t.buffer = Now.buffer /\ t.undo = Now.undo /\ t.up = Now.up /\ t.again = Now.again
    BY <1>1 DEF TabOK, Tab
  <2>2. TabOK(t) BY <1>1, <2>1 DEF TabOK
  <2> HIDE DEF t
  <2> QED BY <1>1, <2>1, <2>2, ShrinksNot, ShrinksSame
<1>3. t.buffer = buffer BY <1>1 DEF TabOK, Tab
<1> HIDE DEF t
<1>4. Shrinks(t, r, {n}) /\ NamesIn(buffer) \ {n} \subseteq NamesIn(r.buffer)
  <2>1. TabOK(t) BY <1>2 DEF Shrinks
  <2> QED BY <1>3, <2>1, ResolveShrinks
<1>5. Shrinks(Now, r, {} \union {n}) BY <1>2, <1>4, ShrinksAgain
<1>6. /\ buffer' = r.buffer /\ undo' = r.undo /\ again' = r.again /\ up' = r.up
      /\ Received /\ Head(down).kind = "mine"
      /\ UNCHANGED <<guarded, link, conn, paused, validated, challenged, drawn, closed, session,
                     log, refused, others, abandoned>>
  BY DEF OwnBroadcast, Becomes, connection, turnstile, server, t
<1>7. n \in MineIn(log)
  <2>1. Head(down) \in Range(down) BY <1>6, RangeOfTail DEF SendInv, WritesTypeOK, Received
  <2> QED BY <1>6, <2>1 DEF SendInv, AnswersAreRight, Truthful
<1>8. NamesIn(buffer) \ NamesIn(r.buffer) \subseteq Committed \union refused \union abandoned'
  BY <1>4, <1>7 DEF Committed
<1> HIDE DEF r, n
<1> QED BY <1>5, <1>6, <1>8, AnswerKeeps

LEMMA OtherBroadcastKeeps == ASSUME SendInv, OtherBroadcast PROVE SendInv'
<1> DEFINE e == Head(down).edit
           t == PruneJournal(Now, e)
           r == HandleMessage(t, e)
<1>1. /\ TabOK(Now) /\ Now.buffer = buffer /\ Now.undo = undo /\ Now.up = up
  BY NowIsATab DEF SendInv
<1>2. Shrinks(Now, t, {})
  <2> DEFINE names == RejectedBy(Now.journal, e)
             p == [Now EXCEPT !.journal = Kept(Now.journal, names)]
  <2>1. t = [p EXCEPT !.screen = RollBack(Now.screen, Now.journal, names)]
    BY <1>1 DEF PruneJournal, TabOK, Tab
  <2>2. Tab(p) /\ p.buffer = Now.buffer /\ p.undo = Now.undo /\ p.up = Now.up /\ p.again = Now.again
    BY <1>1 DEF TabOK, Tab
  <2> HIDE DEF p, names, t
  <2>3. Tab(t) /\ t.buffer = Now.buffer /\ t.undo = Now.undo /\ t.up = Now.up /\ t.again = Now.again
    BY <2>1, <2>2 DEF Tab
  <2>4. TabOK(t) BY <1>1, <2>3 DEF TabOK
  <2> QED BY <1>1, <2>3, <2>4, ShrinksNot, ShrinksSame
<1>3. /\ buffer' = r.buffer /\ undo' = r.undo /\ again' = r.again /\ up' = r.up
      /\ abandoned' = abandoned \union (NamesIn(buffer) \ NamesIn(r.buffer))
      /\ Received /\ Head(down).kind = "theirs"
      /\ UNCHANGED <<guarded, link, conn, paused, validated, challenged, drawn, closed, session,
                     log, refused, others>>
  BY DEF OtherBroadcast, Becomes, GaveUp, connection, turnstile, server
<1> HIDE DEF t, e
<1>4. Shrinks(t, r, MineName(e))
  <2>1. TabOK(t) BY <1>2 DEF Shrinks
  <2> QED BY <2>1, HandleShrinks
<1> HIDE DEF r
<1>5. Shrinks(Now, r, {} \union MineName(e)) BY <1>2, <1>4, ShrinksAgain
<1> QED BY <1>3, <1>5, AnswerKeeps

LEMMA MutationRejectedKeeps == ASSUME SendInv, MutationRejected PROVE SendInv'
<1> DEFINE n == Head(down).n
           t == ResolveBufferedWrite(Now, n)
           names == IF n \in NamesIn(journal) THEN WithDependents(journal, {n}) ELSE {}
           p == [t EXCEPT !.journal = Kept(t.journal, names)]
           r == [p EXCEPT !.screen = RollBack(t.screen, journal, names)]
<1>1. /\ TabOK(Now) /\ Now.buffer = buffer /\ Now.undo = undo /\ Now.up = up
  BY NowIsATab DEF SendInv
<1>2. Shrinks(Now, t, {n}) /\ NamesIn(buffer) \ {n} \subseteq NamesIn(t.buffer)
  BY <1>1, ResolveShrinks
<1>3. Becomes([t EXCEPT !.journal = Kept(t.journal, names), !.screen = RollBack(t.screen, journal, names)])
  BY DEF MutationRejected
<1> HIDE DEF t, names
<1>4. TabOK(t) BY <1>2 DEF Shrinks
<1>5. Tab(p) /\ p.buffer = t.buffer /\ p.undo = t.undo /\ p.up = t.up /\ p.again = t.again
  BY <1>4 DEF TabOK, Tab
<1>6. Becomes(r) BY <1>3, <1>4 DEF TabOK, Tab, Becomes
<1> HIDE DEF p
<1>7. Tab(r) /\ r.buffer = t.buffer /\ r.undo = t.undo /\ r.up = t.up /\ r.again = t.again
  BY <1>5 DEF Tab
<1> HIDE DEF r
<1>8. TabOK(r) BY <1>4, <1>7 DEF TabOK
<1>9. Shrinks(Now, r, {n}) BY <1>2, <1>7, <1>8, ShrinksSame
<1>10. /\ buffer' = r.buffer /\ undo' = r.undo /\ again' = r.again /\ up' = r.up
       /\ Received /\ Head(down).kind = "rejected"
       /\ UNCHANGED <<guarded, link, conn, paused, validated, challenged, drawn, closed, session,
                      log, refused, others, abandoned>>
  BY <1>6 DEF MutationRejected, Becomes, connection, turnstile, server
<1>11. n \in refused
  <2>1. Head(down) \in Range(down) BY <1>10, RangeOfTail DEF SendInv, WritesTypeOK, Received
  <2> QED BY <1>10, <2>1 DEF SendInv, AnswersAreRight, Truthful
<1>12. NamesIn(buffer) \ NamesIn(r.buffer) \subseteq Committed \union refused \union abandoned'
  BY <1>2, <1>7, <1>11
<1>13. Head(down).n \in {n} OBVIOUS
<1> HIDE DEF n
<1> QED BY <1>9, <1>10, <1>12, <1>13, AnswerKeeps

LEMMA UndoAnswerKeeps == ASSUME SendInv, UndoAnswer PROVE SendInv'
<1>1. /\ TabOK(Now) /\ Now.buffer = buffer /\ Now.undo = undo /\ Now.up = up /\ Now.again = again
  BY NowIsATab DEF SendInv
<1>2. /\ Received /\ Head(down).kind = "undone" /\ abandoned' = abandoned
      /\ UNCHANGED <<guarded, link, conn, paused, validated, challenged, drawn, closed, session,
                     log, refused, others>>
  BY DEF UndoAnswer, connection, turnstile, server
<1>3. CASE again = 0
  <2> DEFINE r == [Now EXCEPT !.undo = "none"]
  <2>1. Becomes(r) BY <1>3 DEF UndoAnswer
  <2>2. Tab(r) /\ r.buffer = buffer /\ r.undo = "none" /\ r.up = up /\ r.again = again
    BY <1>1 DEF TabOK, Tab
  <2> HIDE DEF r
  <2>3. TabOK(r) BY <1>1, <1>3, <2>2 DEF TabOK
  <2>4. Shrinks(Now, r, {}) BY <1>1, <2>2, <2>3 DEF Shrinks, Among, SameWrites
  <2>5. buffer' = r.buffer /\ undo' = r.undo /\ again' = r.again /\ up' = r.up BY <2>1 DEF Becomes
  <2>6. NamesIn(buffer) \ NamesIn(r.buffer) = {} BY <2>2
  <2> QED BY <1>2, <2>4, <2>5, <2>6, AnswerKeeps
<1>4. CASE again # 0
  <2> DEFINE t == [Now EXCEPT !.undo = "waiting", !.again = Now.again - 1]
             p == [Now EXCEPT !.undo = "waiting"]
             r == FlushPendingUndo(t)
  <2>1. Becomes(r) BY <1>4 DEF UndoAnswer
  <2>2. Tab(p) /\ p.buffer = buffer /\ p.undo = "waiting" /\ p.up = up /\ p.again = again
    BY <1>1 DEF TabOK, Tab
  <2>3. t = [p EXCEPT !.again = Now.again - 1] BY <1>1 DEF TabOK, Tab
  <2>4. again - 1 \in Nat /\ undo # "none" BY <1>4 DEF SendInv, WritesTypeOK, TokensAreRight
  <2> HIDE DEF t, p
  <2>5. Tab(t) /\ t.buffer = buffer /\ t.undo = "waiting" /\ t.up = up /\ t.again = again - 1
    BY <1>1, <2>2, <2>3 DEF Tab
  <2>6. TabOK(t) BY <1>1, <2>4, <2>5 DEF TabOK
  <2>7. Shrinks(t, r, {}) /\ r.buffer = t.buffer BY <2>6, FlushShrinks
  <2> HIDE DEF r
  <2>8. Shrinks(Now, r, {}) BY <1>1, <2>4, <2>5, <2>7 DEF Shrinks
  <2>9. buffer' = r.buffer /\ undo' = r.undo /\ again' = r.again /\ up' = r.up BY <2>1 DEF Becomes
  <2>10. NamesIn(buffer) \ NamesIn(r.buffer) = {} BY <2>5, <2>7
  <2> QED BY <1>2, <2>8, <2>9, <2>10, AnswerKeeps
<1> QED BY <1>3, <1>4

LEMMA PauseEndsKeeps == ASSUME SendInv, PauseEnds PROVE SendInv'
<1>1. /\ paused /\ ~paused' /\ paused' \in BOOLEAN
      /\ UNCHANGED <<guarded, link, conn, validated, buffer, challenged, undo, again, drawn,
                     abandoned, up, down, closed, session, log, refused, others>>
  BY DEF PauseEnds, turnstile, tab, server
<1>2. Committed' = Committed BY <1>1 DEF Committed
<1>3. WritesTypeOK' BY <1>1 DEF SendInv, WritesTypeOK
<1>4. InOrder' BY <1>1, <1>2 DEF SendInv, InOrder
<1>5. BufferFollows' BY <1>1, <1>2 DEF SendInv, BufferFollows
<1>6. AnswersAreRight' BY <1>1 DEF SendInv, AnswersAreRight, Truthful
<1>7. TokensAreRight' BY <1>1 DEF SendInv, TokensAreRight
<1>8. NothingIsLost' BY <1>1, <1>2 DEF SendInv, NothingIsLost
<1> QED BY <1>3, <1>4, <1>5, <1>6, <1>7, <1>8 DEF SendInv

\* The tab asks, or presses a key: one more message that is not an edit.
LEMMA RequestKeeps ==
  ASSUME SendInv, SameWrites(up, up'), up' \in Seq(UpSet),
         validated' = FALSE \/ validated' = validated, undo' \in {"none", "waiting", "sent"}, again' \in Nat,
         undo' = "none" => again' = 0, challenged # <<>> => undo' = "none",
         UNCHANGED <<guarded, link, conn, paused, buffer, challenged, drawn, abandoned, down,
                     closed, session, log, refused, others>>
  PROVE  SendInv'
<1>1. WriteNames(up') = WriteNames(up) /\ (WritesGrow(up) => WritesGrow(up')) BY DEF SameWrites
<1>2. Committed' = Committed BY DEF Committed
<1>3. WritesTypeOK' BY DEF SendInv, WritesTypeOK
<1>4. InOrder' BY <1>1, <1>2 DEF SendInv, InOrder
<1>5. BufferFollows' BY <1>1, <1>2 DEF SendInv, BufferFollows
<1>6. AnswersAreRight' BY DEF SendInv, AnswersAreRight, Truthful
<1>7. TokensAreRight' BY DEF SendInv, TokensAreRight, WritesTypeOK
<1>8. NothingIsLost' BY <1>1, <1>2 DEF SendInv, NothingIsLost
<1> QED BY <1>3, <1>4, <1>5, <1>6, <1>7, <1>8 DEF SendInv

LEMMA AskTokenKeeps == ASSUME SendInv, AskToken PROVE SendInv'
<1> DEFINE m == [kind |-> "token"]
<1>1. /\ up' = Append(up, m)
      /\ UNCHANGED <<guarded, link, conn, paused, validated, buffer, challenged, undo, again, drawn,
                     abandoned, down, closed, session, log, refused, others>>
  BY DEF AskToken, connection, tab, server
<1>2. m \in UpSet /\ WriteName(m) = {} BY DEF UpSet, WriteName
<1> HIDE DEF m
<1>3. up \in Seq(UpSet) BY DEF SendInv, WritesTypeOK
<1>4. Below(WriteNames(up), {}) BY DEF Below
<1>5. up' \in Seq(UpSet) BY <1>1, <1>2, <1>3, AppendProperties
<1>6. SameWrites(up, up')
  <2>1. /\ WriteNames(Append(up, m)) = WriteNames(up) \union WriteName(m)
        /\ WritesGrow(up) /\ Below(WriteNames(up), WriteName(m)) => WritesGrow(Append(up, m))
    BY <1>2, <1>3, NamesOfAppend
  <2> QED BY <1>1, <1>2, <1>4, <2>1 DEF SameWrites
<1> QED BY <1>1, <1>5, <1>6, RequestKeeps DEF SendInv, WritesTypeOK, TokensAreRight

LEMMA ValidationEndsKeeps ==
  ASSUME SendInv, ValidationEnds \/ ServerValidationEnds PROVE SendInv'
<1>1. /\ validated' = FALSE \/ validated' = validated
      /\ UNCHANGED <<guarded, link, conn, paused, buffer, challenged, undo, again, drawn,
                     abandoned, up, down, closed, session, log, refused, others>>
  BY DEF ValidationEnds, ServerValidationEnds, connection, tab, server
<1>2. SameWrites(up, up') BY <1>1 DEF SameWrites
<1> QED BY <1>1, <1>2, RequestKeeps DEF SendInv, WritesTypeOK, TokensAreRight

LEMMA PressUndoKeeps == ASSUME SendInv, Strict, PressUndo PROVE SendInv'
<1>1. /\ TabOK(Now) /\ Now.buffer = buffer /\ Now.undo = undo /\ Now.up = up /\ Now.again = again
  BY NowIsATab DEF SendInv
<1>2. /\ challenged = <<>>
      /\ UNCHANGED <<guarded, link, conn, paused, validated, challenged, drawn,
                     abandoned, down, closed, session, log, refused, others>>
  BY DEF PressUndo, Strict, connection, turnstile, server
<1>3. validated \in BOOLEAN BY DEF SendInv, WritesTypeOK
<1>4. CASE undo = "none"
  <2> DEFINE t == [Now EXCEPT !.undo = "waiting"]
             r == FlushPendingUndo(t)
  <2>1. Becomes(r) BY <1>4 DEF PressUndo
  <2>2. Tab(t) /\ t.buffer = buffer /\ t.undo = "waiting" /\ t.up = up /\ t.again = again
    BY <1>1 DEF TabOK, Tab
  <2> HIDE DEF t
  <2>3. TabOK(t) BY <1>1, <2>2 DEF TabOK
  <2>4. Shrinks(t, r, {}) /\ r.buffer = t.buffer BY <2>3, FlushShrinks
  <2> HIDE DEF r
  <2>5. buffer' = r.buffer /\ undo' = r.undo /\ again' = r.again /\ up' = r.up BY <2>1 DEF Becomes
  <2>6. TabOK(r) /\ SameWrites(up, up') BY <2>2, <2>4, <2>5 DEF Shrinks
  <2> QED BY <1>2, <1>3, <2>2, <2>4, <2>5, <2>6, RequestKeeps DEF TabOK
<1>5. CASE undo # "none"
  <2> DEFINE r == [Now EXCEPT !.again = Now.again + 1]
  <2>1. Becomes(r) BY <1>5 DEF PressUndo
  <2>2. r.buffer = buffer /\ r.undo = undo /\ r.up = up /\ r.again = again + 1
    BY <1>1 DEF TabOK, Tab
  <2> HIDE DEF r
  <2>3. buffer' = buffer /\ undo' = undo /\ again' = again + 1 /\ up' = up BY <2>1, <2>2 DEF Becomes
  <2>4. SameWrites(up, up') BY <2>3 DEF SameWrites
  <2>5. again' \in Nat /\ undo' \in {"none", "waiting", "sent"} /\ up' \in Seq(UpSet)
    BY <2>3 DEF SendInv, WritesTypeOK
  <2> QED BY <1>2, <1>3, <1>5, <2>3, <2>4, <2>5, RequestKeeps
<1> QED BY <1>4, <1>5

LEMMA RateLimitedKeeps == ASSUME SendInv, RateLimited PROVE SendInv'
<1>1. /\ Received /\ Head(down).kind = "limited" /\ paused'
      /\ buffer' = [k \in DOMAIN buffer |-> [buffer[k] EXCEPT !.state = "queued", !.redraw = TRUE]]
      /\ UNCHANGED <<guarded, link, conn, validated, challenged, undo, again, drawn,
                     abandoned, up, closed, session, log, refused, others>>
      /\ paused' \in BOOLEAN
  BY DEF RateLimited, turnstile, server
<1>2. /\ Head(down) \in DownSet /\ down' = Tail(down) /\ down' \in Seq(DownSet)
      /\ Range(down) = {Head(down)} \union Range(down')
  BY <1>1, RangeOfTail DEF SendInv, WritesTypeOK, Received
<1>3. link = "joined" /\ NoBatch(down)
  BY <1>1 DEF SendInv, WritesTypeOK, AnswersAreRight, Received
<1>4. closed BY <1>1, <1>2 DEF SendInv, AnswersAreRight, Truthful
<1>5. ~guarded BY <1>4 DEF SendInv, TokensAreRight
<1>6. /\ buffer \in Buffers /\ Len(buffer) \in Nat /\ DOMAIN buffer = 1..Len(buffer)
      /\ Buffers = Seq(Write) /\ \A k \in DOMAIN buffer : buffer[k] \in Write
  BY BufferOfWrites DEF SendInv, WritesTypeOK
<1>7. \A k \in DOMAIN buffer : /\ buffer'[k] \in Write /\ buffer'[k].edit = buffer[k].edit
                               /\ buffer'[k].state = "queued"
  BY <1>1, <1>6 DEF Write
<1>8. DOMAIN buffer' = DOMAIN buffer /\ buffer' \in [1..Len(buffer) -> Write]
  BY <1>1, <1>6, <1>7
<1>9. buffer' \in Buffers BY <1>6, <1>8, FunctionIsSeq
<1>10. NamesIn(buffer') = NamesIn(buffer) /\ InFlight(buffer') = {}
  BY <1>7, <1>8 DEF NamesIn, InFlight
<1>11. BufferGrows(buffer) => BufferGrows(buffer') BY <1>7, <1>8 DEF BufferGrows
<1>12. Committed' = Committed BY <1>1 DEF Committed
<1>13. WritesTypeOK' BY <1>1, <1>2, <1>9 DEF SendInv, WritesTypeOK
<1>14. InOrder' BY <1>1, <1>10, <1>11, <1>12 DEF SendInv, InOrder
<1>15. BufferFollows' BY <1>1, <1>3, <1>4, <1>10, <1>12 DEF SendInv, BufferFollows
<1>16. AnswersAreRight'
  <2>1. \A m \in Range(down') : Truthful(m)'
    BY <1>1, <1>2 DEF SendInv, AnswersAreRight, Truthful
  <2>2. NoBatch(down') BY <1>2, <1>3 DEF NoBatch
  <2>3. Rejected(down) \subseteq Rejected(down') BY <1>1, <1>2 DEF Rejected
  <2> QED BY <1>1, <1>3, <1>10, <2>1, <2>2, <2>3 DEF SendInv, AnswersAreRight
<1>17. TokensAreRight' BY <1>1, <1>5 DEF SendInv, TokensAreRight
<1>18. NothingIsLost' BY <1>1, <1>10, <1>12 DEF SendInv, NothingIsLost
<1> QED BY <1>13, <1>14, <1>15, <1>16, <1>17, <1>18 DEF SendInv

-----------------------------------------------------------------------------
(* The steps of the tab that send *)

\* Edits N are queued, and some that wait are sent.
LEMMA SendKeeps ==
  ASSUME SendInv, NEW t, NEW r, NEW sent, NEW N, Pumps(t, r, sent),
         NamesIn(t.buffer) = NamesIn(buffer) \union N, t.up = up, t.undo = undo,
         Waiting(t.buffer) = Waiting(buffer) \union N, InFlight(t.buffer) = InFlight(buffer),
         buffer' = r.buffer, undo' = r.undo, again' = r.again, up' = r.up,
         link = "joined", ~paused \/ (sent = {} /\ N = {}),
         drawn' \in Nat, drawn <= drawn', N \subseteq 1..drawn', 1..drawn' \subseteq 1..drawn \union N,
         Below(Committed \union WriteNames(up) \union NamesIn(buffer) \union refused, N),
         challenged' = <<>> \/ (N = {} /\ challenged' = challenged /\ validated' = validated),
         EditNames(challenged) \subseteq EditNames(challenged') \union N, validated' \in BOOLEAN,
         down' \in Seq(DownSet), Range(down') \subseteq Range(down),
         Rejected(down) \subseteq Rejected(down'),
         UNCHANGED <<guarded, link, conn, paused, closed, session, log, refused, others, abandoned>>
  PROVE  SendInv'
<1>1. /\ TabOK(r) /\ undo' = undo /\ NamesIn(buffer') = NamesIn(buffer) \union N
      /\ BufferGrows(buffer') /\ WriteNames(up') = WriteNames(up) \union sent
      /\ WritesGrow(up) /\ Below(WriteNames(up), sent) => WritesGrow(up')
      /\ Waiting(buffer') \subseteq Waiting(buffer) \union N
      /\ sent \subseteq Waiting(buffer) \union N
      /\ InFlight(buffer') \subseteq InFlight(buffer) \union sent
      /\ Below(sent, Waiting(buffer'))
  BY DEF Pumps
<1>2. Committed' = Committed BY DEF Committed
<1>3. NamesIn(buffer) = Waiting(buffer) \union InFlight(buffer)
  BY NamesOfStates DEF SendInv, WritesTypeOK
<1>4. /\ drawn \in Nat
      /\ Committed \union WriteNames(up) \union NamesIn(buffer) \union EditNames(challenged)
           \union refused \subseteq 1..drawn
  BY DEF SendInv, InOrder, WritesTypeOK
<1>5. N \intersect refused = {} BY <1>4 DEF Below
<1>6. ASSUME ~closed
      PROVE  /\ Below(Committed \union WriteNames(up), Waiting(buffer) \union N)
             /\ WritesGrow(up) /\ Below(Committed, WriteNames(up))
  BY <1>6 DEF SendInv, InOrder, BufferFollows, Below
<1>7. ASSUME ~closed PROVE WritesGrow(up') /\ Below(Committed, WriteNames(up'))
  <2>1. Below(Committed \union WriteNames(up), sent) BY <1>1, <1>6, <1>7 DEF Below
  <2> QED BY <1>1, <1>6, <1>7, <2>1 DEF Below
<1>8. /\ challenged' \in Seq(EditSet) /\ EditsGrow(challenged')
      /\ EditNames(challenged') = {} \/ (N = {} /\ challenged' = challenged)
  BY NamesOfNone, EmptySeq DEF SendInv, WritesTypeOK, InOrder
<1>9. WritesTypeOK' BY <1>1, <1>8 DEF SendInv, WritesTypeOK, TabOK
<1>10. InOrder'
  <2>1. Below(Committed \union WriteNames(up') \union NamesIn(buffer') \union refused,
              EditNames(challenged'))
    <3>1. CASE EditNames(challenged') = {} BY <3>1 DEF Below
    <3>2. CASE N = {} /\ challenged' = challenged
      <4>1. WriteNames(up') \subseteq WriteNames(up) \union NamesIn(buffer)
        BY <1>1, <1>3, <3>2
      <4> QED BY <1>1, <3>2, <4>1 DEF SendInv, InOrder, Below
    <3> QED BY <1>8, <3>1, <3>2
  <2>2. Committed \union WriteNames(up') \union NamesIn(buffer') \union EditNames(challenged')
          \union refused \subseteq 1..drawn'
    <3>1. 1..drawn \subseteq 1..drawn' BY <1>4
    <3>2. EditNames(challenged') \subseteq 1..drawn BY <1>4, <1>8
    <3> QED BY <1>1, <1>3, <1>4, <3>1, <3>2
  <2> QED BY <1>1, <1>2, <1>7, <1>8, <2>1, <2>2 DEF SendInv, InOrder
<1>11. BufferFollows'
  <2>1. ASSUME ~closed PROVE Below(Committed \union WriteNames(up'), Waiting(buffer'))
    BY <1>1, <1>6, <2>1 DEF Below
  <2>2. ASSUME ~closed, ~guarded
        PROVE  InFlight(buffer') \subseteq Committed \union WriteNames(up') \union refused
    BY <1>1, <2>2 DEF SendInv, BufferFollows
  <2>3. ASSUME ~guarded PROVE Below(Committed, NamesIn(buffer') \ (Committed \union refused))
    BY <1>1, <2>3 DEF SendInv, BufferFollows, Below
  <2>4. ASSUME paused PROVE InFlight(buffer') = {} /\ sent = {} /\ N = {}
    BY <1>1, <2>4 DEF SendInv, BufferFollows
  <2>5. ASSUME paused, ~closed
        PROVE  WriteNames(up') = {} /\ NamesIn(buffer') \intersect refused = {}
    BY <1>1, <2>4, <2>5 DEF SendInv, BufferFollows
  <2> QED BY <1>2, <2>1, <2>2, <2>3, <2>4, <2>5 DEF BufferFollows
<1>12. AnswersAreRight'
  <2>1. \A m \in Range(down') : Truthful(m)' BY DEF SendInv, AnswersAreRight, Truthful
  <2>2. NoBatch(down') BY DEF SendInv, AnswersAreRight, NoBatch
  <2>3. NamesIn(buffer') \intersect refused \subseteq Rejected(down')
    BY <1>1, <1>5 DEF SendInv, AnswersAreRight
  <2> QED BY <2>1, <2>2, <2>3 DEF AnswersAreRight
<1>13. TokensAreRight' BY <1>1 DEF SendInv, TokensAreRight, TabOK
<1>14. NothingIsLost' BY <1>1, <1>2, <1>3 DEF SendInv, NothingIsLost
<1> QED BY <1>9, <1>10, <1>11, <1>12, <1>13, <1>14 DEF SendInv

LEMMA PumpKeeps == ASSUME SendInv, Pump PROVE SendInv'
<1>1. /\ TabOK(Now) /\ Now.buffer = buffer /\ Now.undo = undo /\ Now.up = up
  BY NowIsATab DEF SendInv
<1>2. /\ link = "joined" /\ ~paused
      /\ UNCHANGED <<guarded, link, conn, paused, validated, challenged, drawn, abandoned, down,
                     closed, session, log, refused, others>>
  BY DEF Pump, CanBufferWrites, connection, turnstile, server
<1>3. PICK last \in Queued(Now) : Becomes(PumpBufferedWrites(Now, last)) BY DEF Pump
<1> DEFINE r    == PumpBufferedWrites(Now, last)
           sent == SentUpTo(Now.buffer, last)
<1>4. BufferGrows(buffer) BY DEF SendInv, InOrder
<1>5. Pumps(Now, r, sent) BY <1>1, <1>4, PumpSends
<1>6. buffer' = r.buffer /\ undo' = r.undo /\ again' = r.again /\ up' = r.up BY <1>3 DEF Becomes
<1>7. drawn \in Nat /\ validated \in BOOLEAN /\ down \in Seq(DownSet) BY DEF SendInv, WritesTypeOK
<1> DEFINE N == {}
<1>8. /\ NamesIn(Now.buffer) = NamesIn(buffer) \union N
      /\ Waiting(Now.buffer) = Waiting(buffer) \union N /\ InFlight(Now.buffer) = InFlight(buffer)
      /\ N = {} /\ challenged' = challenged /\ validated' = validated
      /\ EditNames(challenged) \subseteq EditNames(challenged') \union N
      /\ N \subseteq 1..drawn' /\ 1..drawn' \subseteq 1..drawn \union N
  BY <1>1, <1>2
<1>9. /\ Below(Committed \union WriteNames(up) \union NamesIn(buffer) \union refused, N)
      /\ drawn' \in Nat /\ drawn <= drawn' /\ validated' \in BOOLEAN
      /\ down' \in Seq(DownSet) /\ Range(down') \subseteq Range(down)
      /\ Rejected(down) \subseteq Rejected(down')
  BY <1>2, <1>7 DEF Below
<1> HIDE DEF r, sent, N
<1> QED BY <1>1, <1>2, <1>5, <1>6, <1>8, <1>9, SendKeeps

\* The new edit is none of those that have been drawn.
LEMMA NewName ==
  ASSUME SendInv
  PROVE  /\ drawn + 1 \in Nat /\ drawn \in Nat
         /\ Below(Committed \union WriteNames(up) \union NamesIn(buffer) \union refused
                    \union EditNames(challenged), {drawn + 1})
         /\ {drawn + 1} \subseteq 1..drawn + 1 /\ 1..drawn + 1 \subseteq 1..drawn \union {drawn + 1}
<1>1. /\ drawn \in Nat
      /\ Committed \union WriteNames(up) \union NamesIn(buffer) \union EditNames(challenged)
           \union refused \subseteq 1..drawn
  BY DEF SendInv, InOrder, WritesTypeOK
<1> QED BY <1>1 DEF Below

LEMMA DrawAndSendKeeps == ASSUME SendInv, DrawAndSend PROVE SendInv'
<1> DEFINE on(i)     == {d \in EditsOf(buffer) \union Range(challenged) : d.item = i}
           rests(i)  == {d.n : d \in on(i)} \union UNION {d.rests : d \in on(i)}
           E(y, i)   == Edit(drawn + 1, y, i, 0, rests(i))
           shown(e)  == [Now EXCEPT !.screen = Draw(Now.screen, e)]
           Q(e)      == [shown(e) EXCEPT !.buffer = Buffered(shown(e), e)]
<1>1. PICK y \in Types, i \in Item :
        IF guarded /\ ~validated
        THEN /\ challenged' = Append(challenged, E(y, i))
             /\ Becomes([shown(E(y, i)) EXCEPT
                           !.journal = Track(shown(E(y, i)).journal, E(y, i), CaptureRollback(screen, E(y, i)))])
        ELSE \E last \in {0} \union Queued(Q(E(y, i))) :
               /\ Becomes([PumpBufferedWrites(Q(E(y, i)), last) EXCEPT
                             !.journal = Track(PumpBufferedWrites(Q(E(y, i)), last).journal, E(y, i),
                                               CaptureRollback(screen, E(y, i)))])
               /\ UNCHANGED challenged
  BY ZenonT(60) DEF DrawAndSend
<1>2. /\ link = "joined" /\ ~paused /\ undo = "none" /\ drawn' = drawn + 1
      /\ UNCHANGED <<guarded, link, conn, paused, validated, abandoned, down,
                     closed, session, log, refused, others>>
  BY DEF DrawAndSend, CanBufferWrites, connection, turnstile, server
<1>3. E(y, i) \in EditSet
  <2>1. EditsOf(buffer) \subseteq EditSet
    BY BufferOfWrites DEF SendInv, WritesTypeOK, EditsOf, Write
  <2>2. Range(challenged) \subseteq EditSet
    BY LenProperties, ElementOfSeq DEF SendInv, WritesTypeOK, Range
  <2>3. on(i) \subseteq EditSet BY <2>1, <2>2
  <2> HIDE DEF on
  <2>4. \A d \in EditSet : d.n \in Int /\ d.rests \subseteq Int BY DEF EditSet
  <2>5. rests(i) \subseteq Int BY <2>3, <2>4
  <2>6. drawn + 1 \in Int BY NewName
  <2> HIDE DEF rests
  <2> QED BY <2>5, <2>6 DEF EditSet, Edit
<1> DEFINE e == E(y, i)
<1>4. e.n = drawn + 1 BY DEF Edit
<1>5. e \in EditSet BY <1>3
<1> DEFINE h == CaptureRollback(screen, e)
           s == shown(e)
           t == Q(e)
<1>6. /\ TabOK(Now) /\ Now.buffer = buffer /\ Now.undo = undo /\ Now.up = up /\ Now.again = again
  BY NowIsATab DEF SendInv
<1>7. Tab(s) /\ s.buffer = buffer /\ s.undo = undo /\ s.up = up /\ s.again = again
  BY <1>6 DEF TabOK, Tab
<1>8. IF guarded /\ ~validated
      THEN challenged' = Append(challenged, e) /\ Becomes([s EXCEPT !.journal = Track(s.journal, e, h)])
      ELSE \E last \in {0} \union Queued(t) :
             /\ Becomes([PumpBufferedWrites(t, last) EXCEPT
                           !.journal = Track(PumpBufferedWrites(t, last).journal, e, h)])
             /\ UNCHANGED challenged
  BY <1>1
<1>9. t = [s EXCEPT !.buffer = Append(s.buffer, QueuedWrite(e))] BY DEF Buffered
<1> HIDE DEF e, h, s, t, E, Q, shown
<1>10. /\ Below(Committed \union WriteNames(up) \union NamesIn(buffer) \union refused
                  \union EditNames(challenged), {e.n})
       /\ drawn' \in Nat /\ drawn <= drawn' /\ {e.n} \subseteq 1..drawn' /\ 1..drawn \subseteq 1..drawn'
       /\ 1..drawn' \subseteq 1..drawn \union {e.n}
  BY <1>2, <1>4, NewName
<1>11. CASE guarded /\ ~validated
  <2> DEFINE r == [s EXCEPT !.journal = Track(s.journal, e, h)]
  <2>1. Becomes(r) /\ challenged' = Append(challenged, e) BY <1>8, <1>11
  <2>2. r.buffer = buffer /\ r.undo = undo /\ r.up = up /\ r.again = again BY <1>7 DEF Tab
  <2> HIDE DEF r
  <2>3. buffer' = buffer /\ undo' = undo /\ up' = up /\ again' = again BY <2>1, <2>2 DEF Becomes
  <2>4. /\ challenged' \in Seq(EditSet) /\ EditNames(challenged') = EditNames(challenged) \union {e.n}
        /\ EditsGrow(challenged) /\ Below(EditNames(challenged), {e.n}) => EditsGrow(challenged')
    BY <1>5, <2>1, WaitsForToken DEF SendInv, WritesTypeOK
  <2>5. Committed' = Committed BY <1>2 DEF Committed
  <2>6. WritesTypeOK' BY <1>2, <1>10, <2>3, <2>4 DEF SendInv, WritesTypeOK
  <2>7. InOrder'
    <3>1. EditsGrow(challenged') BY <1>10, <2>4 DEF SendInv, InOrder, Below
    <3>2. Below(Committed \union WriteNames(up) \union NamesIn(buffer) \union refused,
                EditNames(challenged'))
      BY <1>10, <2>4 DEF SendInv, InOrder, Below
    <3>3. Committed \union WriteNames(up) \union NamesIn(buffer) \union EditNames(challenged')
            \union refused \subseteq 1..drawn'
      BY <1>10, <2>4 DEF SendInv, InOrder
    <3> QED BY <1>2, <2>3, <2>5, <3>1, <3>2, <3>3 DEF SendInv, InOrder
  <2>8. BufferFollows' BY <1>2, <2>3, <2>5 DEF SendInv, BufferFollows
  <2>9. AnswersAreRight' BY <1>2, <2>3 DEF SendInv, AnswersAreRight, Truthful
  <2>10. TokensAreRight' BY <1>2, <1>11, <2>3 DEF SendInv, TokensAreRight
  <2>11. NothingIsLost' BY <1>2, <1>10, <2>3, <2>4, <2>5 DEF SendInv, NothingIsLost
  <2> QED BY <2>6, <2>7, <2>8, <2>9, <2>10, <2>11 DEF SendInv
<1>12. CASE ~(guarded /\ ~validated)
  <2>1. challenged = <<>> BY <1>12 DEF SendInv, TokensAreRight
  <2>2. PICK last \in {0} \union Queued(t) :
          /\ Becomes([PumpBufferedWrites(t, last) EXCEPT
                        !.journal = Track(PumpBufferedWrites(t, last).journal, e, h)])
          /\ challenged' = challenged
    BY <1>8, <1>12
  <2> DEFINE b == Append(buffer, QueuedWrite(e))
  <2>3. /\ b \in Buffers /\ NamesIn(b) = NamesIn(buffer) \union {e.n}
        /\ Waiting(b) = Waiting(buffer) \union {e.n} /\ InFlight(b) = InFlight(buffer)
        /\ BufferGrows(buffer) /\ Below(NamesIn(buffer), {e.n}) => BufferGrows(b)
    BY <1>5, QueuesOne DEF SendInv, WritesTypeOK
  <2> HIDE DEF b
  <2>4. t = [s EXCEPT !.buffer = b] BY <1>7, <1>9 DEF b
  <2>5. Tab(t) /\ t.buffer = b /\ t.undo = undo /\ t.up = up /\ t.again = again
    BY <1>7, <2>4 DEF Tab
  <2>6. TabOK(t) BY <1>6, <2>3, <2>5 DEF TabOK
  <2>7. BufferGrows(t.buffer) BY <1>10, <2>3, <2>5 DEF SendInv, InOrder, Below
  <2> DEFINE p    == PumpBufferedWrites(t, last)
             sent == SentUpTo(t.buffer, last)
             r    == [p EXCEPT !.journal = Track(p.journal, e, h)]
  <2>8. Pumps(t, p, sent) BY <2>6, <2>7, PumpSends
  <2>9. Becomes(r) BY <2>2
  <2> HIDE DEF p
  <2>10. Tab(r) /\ r.buffer = p.buffer /\ r.undo = p.undo /\ r.up = p.up /\ r.again = p.again
    BY <2>8 DEF Pumps, TabOK, Tab
  <2> HIDE DEF r
  <2>11. TabOK(r) BY <2>8, <2>10 DEF Pumps, TabOK
  <2>12. Pumps(t, r, sent) BY <2>8, <2>10, <2>11 DEF Pumps
  <2>13. buffer' = r.buffer /\ undo' = r.undo /\ again' = r.again /\ up' = r.up
    BY <2>9 DEF Becomes
  <2> DEFINE N == {e.n}
  <2>14. /\ NamesIn(t.buffer) = NamesIn(buffer) \union N /\ t.up = up /\ t.undo = undo
         /\ Waiting(t.buffer) = Waiting(buffer) \union N /\ InFlight(t.buffer) = InFlight(buffer)
    BY <2>3, <2>5
  <2>15. /\ drawn' \in Nat /\ drawn <= drawn' /\ N \subseteq 1..drawn'
         /\ 1..drawn' \subseteq 1..drawn \union N
         /\ Below(Committed \union WriteNames(up) \union NamesIn(buffer) \union refused, N)
    BY <1>10 DEF Below
  <2>16. /\ challenged' = <<>> /\ EditNames(challenged) \subseteq EditNames(challenged') \union N
         /\ validated' \in BOOLEAN /\ down' \in Seq(DownSet) /\ Range(down') \subseteq Range(down)
         /\ Rejected(down) \subseteq Rejected(down')
    BY <1>2, <2>1, <2>2 DEF SendInv, WritesTypeOK
  <2> HIDE DEF N, sent
  <2> QED BY <1>2, <2>12, <2>13, <2>14, <2>15, <2>16, SendKeeps
<1> QED BY <1>11, <1>12

LEMMA TurnstileAnswerKeeps == ASSUME SendInv, TurnstileAnswer PROVE SendInv'
<1>1. /\ TabOK(Now) /\ Now.buffer = buffer /\ Now.undo = undo /\ Now.up = up /\ Now.again = again
  BY NowIsATab DEF SendInv
<1>2. /\ Received /\ Head(down).kind = "validation" /\ validated' = Head(down).ok
      /\ UNCHANGED <<guarded, link, conn, paused, drawn, abandoned, closed, session, log, refused,
                     others>>
  BY DEF TurnstileAnswer, connection, server
<1>3. /\ Head(down) \in DownSet /\ down' = Tail(down) /\ down' \in Seq(DownSet)
      /\ Range(down) = {Head(down)} \union Range(down')
  BY <1>2, RangeOfTail DEF SendInv, WritesTypeOK, Received
<1>4. link = "joined" BY <1>2 DEF SendInv, WritesTypeOK, AnswersAreRight, Received
<1>5. /\ validated' \in BOOLEAN /\ Range(down') \subseteq Range(down)
      /\ Rejected(down) \subseteq Rejected(down')
  BY <1>2, <1>3 DEF Rejected, DownSet
<1>6. /\ drawn \in Nat /\ buffer \in Buffers /\ challenged \in Seq(EditSet)
      /\ BufferGrows(buffer) /\ EditsGrow(challenged)
      /\ Below(Committed \union WriteNames(up) \union NamesIn(buffer) \union refused,
               EditNames(challenged))
      /\ EditNames(challenged) \subseteq 1..drawn
  BY DEF SendInv, WritesTypeOK, InOrder
<1> DEFINE b == buffer \o [k \in DOMAIN challenged |-> QueuedWrite(challenged[k])]
           N == EditNames(challenged)
<1>7. /\ b \in Buffers /\ NamesIn(b) = NamesIn(buffer) \union N
      /\ Waiting(b) = Waiting(buffer) \union N /\ InFlight(b) = InFlight(buffer) /\ BufferGrows(b)
  <2>1. Below(NamesIn(buffer), N) BY <1>6 DEF Below
  <2> QED BY <1>6, <2>1, QueuesAll
<1>8. CASE Head(down).ok
  <2> DEFINE t == SendAll(Now, challenged)
  <2>1. PICK last \in {0} \union (IF CanBufferWrites THEN Queued(t) ELSE {}) :
          Becomes(PumpBufferedWrites(t, last)) /\ challenged' = <<>>
    BY <1>8 DEF TurnstileAnswer
  <2> DEFINE r    == PumpBufferedWrites(t, last)
             sent == SentUpTo(t.buffer, last)
  <2>2. /\ TabOK(t) /\ t.up = up /\ t.undo = undo /\ BufferGrows(t.buffer)
        /\ NamesIn(t.buffer) = NamesIn(buffer) \union N
        /\ Waiting(t.buffer) = Waiting(buffer) \union N /\ InFlight(t.buffer) = InFlight(buffer)
        /\ CanBufferWrites \/ N = {}
    <3>1. CASE ~CanBufferWrites \/ undo # "none"
      <4>1. t = Now BY <1>1, <3>1 DEF SendAll
      <4>2. challenged = <<>> BY <3>1 DEF SendInv, TokensAreRight, CanBufferWrites
      <4>3. N = {} BY <4>2, NamesOfNone
      <4> HIDE DEF t, N, b
      <4> QED BY <1>1, <1>6, <4>1, <4>3
    <3>2. CASE CanBufferWrites /\ undo = "none"
      <4> HIDE DEF b, N
      <4>1. t = [Now EXCEPT !.buffer = b] BY <1>1, <3>2 DEF SendAll, b
      <4> HIDE DEF t
      <4>2. Tab(t) /\ t.buffer = b /\ t.undo = undo /\ t.up = up /\ t.again = again
        BY <1>1, <4>1 DEF TabOK, Tab
      <4>3. TabOK(t) BY <1>1, <1>7, <4>2 DEF TabOK
      <4> QED BY <1>7, <3>2, <4>2, <4>3
    <3> QED BY <3>1, <3>2
  <2>3. last \in {0} \union Queued(t) BY <2>1
  <2>4. CanBufferWrites => ~paused BY DEF CanBufferWrites
  <2>5. last # 0 => CanBufferWrites BY <2>1
  <2>6. Below(Committed \union WriteNames(up) \union NamesIn(buffer) \union refused, N) BY <1>6
  <2> HIDE DEF t, N, b
  <2>7. Pumps(t, r, sent) /\ (last = 0 => sent = {}) BY <2>2, <2>3, PumpSends
  <2>8. buffer' = r.buffer /\ undo' = r.undo /\ again' = r.again /\ up' = r.up
    BY <2>1 DEF Becomes
  <2>9. ~paused \/ (sent = {} /\ N = {}) BY <2>2, <2>4, <2>5, <2>7
  <2>10. /\ drawn' \in Nat /\ drawn <= drawn' /\ N \subseteq 1..drawn'
         /\ 1..drawn' \subseteq 1..drawn \union N
         /\ EditNames(challenged) \subseteq EditNames(challenged') \union N
    BY <1>2, <1>6 DEF N
  <2> HIDE DEF r, sent
  <2> QED BY <1>2, <1>3, <1>4, <1>5, <2>1, <2>2, <2>6, <2>7, <2>8, <2>9, <2>10, SendKeeps
<1>9. CASE ~Head(down).ok
  <2>1. Becomes(Now) /\ challenged' = challenged BY <1>9 DEF TurnstileAnswer
  <2>2. buffer' = buffer /\ undo' = undo /\ up' = up /\ again' = again BY <1>1, <2>1 DEF Becomes
  <2>3. Shrinks(Now, Now, {}) BY <1>1, ShrinksNot
  <2>4. validated' = FALSE BY <1>2, <1>5, <1>9
  <2>5. challenged' = challenged /\ abandoned' = abandoned BY <1>2, <2>1
  <2>6. NamesIn(buffer) \ NamesIn(Now.buffer) = {} BY <1>1
  <2>7. buffer' = Now.buffer /\ undo' = Now.undo /\ up' = Now.up /\ again' = Now.again
    BY <2>1 DEF Becomes
  <2> QED BY <1>2, <2>3, <2>4, <2>5, <2>6, <2>7, AnswerKeeps
<1> QED BY <1>8, <1>9

LEMMA ReplayKeeps == ASSUME SendInv, Replay PROVE SendInv'
<1> DEFINE edits == Head(down).edits
           t     == HandleAll(Now, edits)
<1>1. /\ TabOK(Now) /\ Now.buffer = buffer /\ Now.undo = undo /\ Now.up = up /\ Now.again = again
  BY NowIsATab DEF SendInv
<1>2. /\ Received /\ Head(down).kind = "batch" /\ link' = "joined"
      /\ UNCHANGED <<guarded, conn, paused, validated, challenged, drawn, closed, session, log,
                     refused, others>>
  BY DEF Replay, turnstile, server
<1>3. PICK last \in {0} \union (IF paused THEN {} ELSE Queued(t)) :
        Becomes(PumpBufferedWrites(t, last)) /\ GaveUp(t)
  BY DEF Replay
<1>4. /\ Head(down) \in DownSet /\ down' = Tail(down) /\ down' \in Seq(DownSet)
      /\ Range(down) = {Head(down)} \union Range(down')
  BY <1>2, RangeOfTail DEF SendInv, WritesTypeOK, Received
<1>5. link = "waiting" /\ NoBatch(down')
  <2>1. Head(down) \in Range(down) BY <1>4
  <2> QED BY <1>2, <1>4, <2>1 DEF SendInv, AnswersAreRight, NoBatch
<1>6. edits \in Seq(EditSet) BY <1>2, <1>4 DEF DownSet
<1>7. Shrinks(Now, t, MineIn(edits)) BY <1>1, <1>6, HandleAllShrinks
<1>8. /\ WriteNames(up) = {} /\ NamesIn(buffer) \intersect refused = {} /\ InFlight(buffer) = {}
      /\ ~guarded => Below(Committed, NamesIn(buffer) \ (Committed \union refused))
      /\ NamesIn(buffer) \intersect WriteNames(session) = {}
      /\ NamesIn(buffer) \intersect MineIn(log) \subseteq EditNames(edits)
      /\ guarded => buffer = <<>> /\ ~paused /\ ~closed
      /\ challenged = <<>>
  BY <1>5 DEF SendInv, BufferFollows, AnswersAreRight, TokensAreRight
<1>9. MineIn(log) \intersect EditNames(edits) \subseteq MineIn(edits)
  BY DEF MineIn, EditNames, IsMine
<1> HIDE DEF t
<1>10. /\ TabOK(t) /\ BufferGrows(t.buffer) /\ WritesGrow(t.up) /\ WriteNames(t.up) = {}
       /\ NamesIn(t.buffer) \subseteq NamesIn(buffer) /\ InFlight(t.buffer) = {}
       /\ NamesIn(t.buffer) \intersect MineIn(edits) = {} /\ (undo = "none" => t.undo = "none")
  <2>1. /\ TabOK(t) /\ SameWrites(up, t.up) /\ Among(buffer, t.buffer)
        /\ (BufferGrows(buffer) => BufferGrows(t.buffer))
        /\ NamesIn(t.buffer) \intersect MineIn(edits) = {} /\ (undo = "none" => t.undo = "none")
    BY <1>1, <1>7 DEF Shrinks
  <2>2. NamesIn(t.buffer) \subseteq NamesIn(buffer) /\ InFlight(t.buffer) \subseteq InFlight(buffer)
    BY <2>1, AmongNames
  <2>3. WritesGrow(t.up)
    <3>1. WriteNames(t.up) = {} BY <1>8, <2>1 DEF SameWrites
    <3> QED BY <3>1 DEF WritesGrow, WriteNames
  <2> QED BY <1>8, <2>1, <2>2, <2>3 DEF SendInv, InOrder, SameWrites
<1> HIDE DEF edits
<1>11. NamesIn(t.buffer) \intersect Committed = {}
  <2>1. NamesIn(t.buffer) \intersect WriteNames(session) = {} BY <1>8, <1>10
  <2>2. NamesIn(t.buffer) \intersect MineIn(log) \subseteq MineIn(edits) BY <1>8, <1>9, <1>10
  <2>3. NamesIn(t.buffer) \intersect MineIn(log) = {} BY <1>10, <2>2
  <2> QED BY <2>1, <2>3 DEF Committed
<1>12. Below(Committed, NamesIn(t.buffer))
  <2>1. CASE guarded
    <3>1. NamesIn(t.buffer) = {} BY <1>8, <1>10, <2>1, NamesOfNone
    <3> QED BY <3>1 DEF Below
  <2>2. CASE ~guarded BY <1>8, <1>10, <1>11, <2>2 DEF Below
  <2> QED BY <2>1, <2>2
<1> DEFINE r    == PumpBufferedWrites(t, last)
           sent == SentUpTo(t.buffer, last)
<1>13. Pumps(t, r, sent) /\ (last = 0 => sent = {})
  <2>1. last \in {0} \union Queued(t) BY <1>3
  <2> QED BY <1>10, <2>1, PumpSends
<1>14. /\ buffer' = r.buffer /\ undo' = r.undo /\ again' = r.again /\ up' = r.up
       /\ abandoned' = abandoned \union (NamesIn(buffer) \ NamesIn(t.buffer))
  BY <1>3 DEF Becomes, GaveUp
<1>15. paused => sent = {} BY <1>3, <1>13
<1> HIDE DEF r, sent
<1>16. /\ TabOK(r) /\ undo' = t.undo /\ NamesIn(buffer') = NamesIn(t.buffer)
       /\ BufferGrows(buffer') /\ WritesGrow(up') /\ WriteNames(up') = sent
       /\ Waiting(buffer') \subseteq Waiting(t.buffer) /\ sent \subseteq Waiting(t.buffer)
       /\ InFlight(buffer') \subseteq sent /\ Below(sent, Waiting(buffer'))
  <2>1. Below({}, sent) BY DEF Below
  <2> QED BY <1>10, <1>13, <1>14, <2>1 DEF Pumps
<1>17. NamesIn(t.buffer) = Waiting(t.buffer) \union InFlight(t.buffer)
  BY <1>10, NamesOfStates DEF TabOK
<1>18. Committed' = Committed BY <1>2 DEF Committed
<1>19. WritesTypeOK' BY <1>2, <1>4, <1>14, <1>16 DEF SendInv, WritesTypeOK, TabOK
<1>20. InOrder'
  <2>1. Below(Committed, WriteNames(up')) BY <1>12, <1>16, <1>17 DEF Below
  <2>2. EditNames(challenged') = {} BY <1>2, <1>8, NamesOfNone
  <2>3. Below(Committed \union WriteNames(up') \union NamesIn(buffer') \union refused,
              EditNames(challenged'))
    BY <2>2 DEF Below
  <2>4. Committed \union WriteNames(up') \union NamesIn(buffer') \union EditNames(challenged')
          \union refused \subseteq 1..drawn
    BY <1>10, <1>16, <1>17, <2>2 DEF SendInv, InOrder
  <2> QED BY <1>2, <1>16, <1>18, <2>1, <2>3, <2>4 DEF SendInv, InOrder
<1>21. BufferFollows'
  <2>1. Below(Committed \union WriteNames(up'), Waiting(buffer'))
    BY <1>12, <1>16, <1>17 DEF Below
  <2>2. Below(Committed, NamesIn(buffer') \ (Committed \union refused))
    BY <1>12, <1>16 DEF Below
  <2>3. NamesIn(buffer') \intersect refused = {} BY <1>8, <1>10, <1>16
  <2> QED BY <1>2, <1>15, <1>16, <1>18, <2>1, <2>2, <2>3 DEF BufferFollows
<1>22. AnswersAreRight'
  <2>1. \A m \in Range(down') : Truthful(m)'
    BY <1>2, <1>4 DEF SendInv, AnswersAreRight, Truthful
  <2>2. NamesIn(buffer') \intersect refused = {} BY <1>8, <1>10, <1>16
  <2> QED BY <1>2, <1>5, <2>1, <2>2 DEF AnswersAreRight
<1>23. TokensAreRight' BY <1>2, <1>8, <1>14, <1>16 DEF TokensAreRight, TabOK
<1>24. NothingIsLost'
  <2>1. NamesIn(buffer) \subseteq NamesIn(buffer') \union abandoned' BY <1>14, <1>16
  <2>2. abandoned \subseteq abandoned' BY <1>14
  <2>3. WriteNames(up') \subseteq NamesIn(buffer') BY <1>16, <1>17
  <2> QED BY <1>2, <1>8, <1>18, <2>1, <2>2, <2>3 DEF SendInv, NothingIsLost
<1> QED BY <1>19, <1>20, <1>21, <1>22, <1>23, <1>24 DEF SendInv

-----------------------------------------------------------------------------
(* The connection *)

LEMMA DisconnectedKeeps == ASSUME SendInv, Disconnected PROVE SendInv'
<1>1. /\ link # "down" /\ (closed => down = <<>>) /\ link' = "down" /\ closed' = FALSE
      /\ up' = <<>> /\ down' = <<>> /\ challenged' = <<>>
      /\ UNCHANGED <<guarded, conn, paused, validated, drawn, session, log, refused, others>>
  BY DEF Disconnected, server
<1>2. EditNames(challenged) \subseteq abandoned' /\ abandoned \subseteq abandoned'
  BY DEF Disconnected, EditNames, Range
<1>3. IF paused THEN buffer' = buffer /\ undo' = undo /\ again' = again
      ELSE buffer' = <<>> /\ undo' = "none" /\ again' = 0 /\ NamesIn(buffer) \subseteq abandoned'
  BY DEF Disconnected
<1>4. /\ WriteNames(up') = {} /\ WritesGrow(up') /\ EditNames(challenged') = {}
      /\ EditsGrow(challenged') /\ Range(down') = {}
      /\ up' \in Seq(UpSet) /\ down' \in Seq(DownSet) /\ challenged' \in Seq(EditSet)
  BY <1>1, NamesOfNone, FewMessages
<1>5. Committed' = Committed BY <1>1 DEF Committed
<1>6. NamesIn(buffer') \subseteq NamesIn(buffer) /\ buffer' \in Buffers /\ BufferGrows(buffer')
  <2>1. CASE paused BY <1>3, <2>1 DEF SendInv, WritesTypeOK, InOrder
  <2>2. CASE ~paused
    <3>1. buffer' = <<>> /\ <<>> \in Buffers BY <1>3, <2>2, EmptySeq DEF Buffers
    <3> QED BY <3>1, NamesOfNone
  <2> QED BY <2>1, <2>2
<1>7. InFlight(buffer') = {} /\ NamesIn(buffer') \intersect refused = {}
  <2>1. CASE paused
    <3>1. InFlight(buffer') = {} BY <1>3, <2>1 DEF SendInv, BufferFollows
    <3>2. CASE closed
      <4>1. Rejected(down) = {} BY <1>1, <3>2, FewMessages DEF Rejected
      <4> QED BY <1>3, <2>1, <3>1, <4>1 DEF SendInv, AnswersAreRight
    <3>3. CASE ~closed BY <1>3, <2>1, <3>1, <3>3 DEF SendInv, BufferFollows
    <3> QED BY <3>2, <3>3
  <2>2. CASE ~paused
    <3>1. InFlight(buffer') = {} BY <1>3, <2>2 DEF InFlight
    <3> QED BY <1>3, <2>2, <3>1, NamesOfNone
  <2> QED BY <2>1, <2>2
<1>8. undo' = "none" => again' = 0 BY <1>3 DEF SendInv, TokensAreRight
<1>9. guarded => buffer' = <<>> /\ ~paused BY <1>3 DEF SendInv, TokensAreRight
<1>10. WritesTypeOK'
  <2>1. undo' \in {"none", "waiting", "sent"} /\ again' \in Nat
    <3>1. CASE paused BY <1>3, <3>1 DEF SendInv, WritesTypeOK
    <3>2. CASE ~paused BY <1>3, <3>2
    <3> QED BY <3>1, <3>2
  <2>2. link' \in {"down", "waiting", "joined"} /\ closed' \in BOOLEAN BY <1>1
  <2> QED BY <1>1, <1>4, <1>6, <2>1, <2>2 DEF SendInv, WritesTypeOK
<1>11. InOrder'
  <2>1. Below(Committed, {}) /\ Below(Committed \union {} \union NamesIn(buffer') \union refused, {})
    BY DEF Below
  <2>2. Committed \union {} \union NamesIn(buffer') \union {} \union refused \subseteq 1..drawn
    BY <1>6 DEF SendInv, InOrder
  <2> QED BY <1>1, <1>4, <1>5, <1>6, <2>1, <2>2 DEF SendInv, InOrder
<1>12. BufferFollows'
  <2>1. ASSUME ~guarded PROVE Below(Committed, NamesIn(buffer') \ (Committed \union refused))
    BY <1>6, <2>1 DEF SendInv, BufferFollows, Below
  <2> QED BY <1>1, <1>4, <1>5, <1>7, <2>1 DEF BufferFollows
<1>13. AnswersAreRight' BY <1>1, <1>4, <1>7 DEF AnswersAreRight, NoBatch
<1>14. TokensAreRight' BY <1>1, <1>8, <1>9 DEF TokensAreRight
<1>15. NothingIsLost'
  <2>1. NamesIn(buffer) \subseteq NamesIn(buffer') \union abandoned' BY <1>3
  <2>2. WriteNames(up) \subseteq Committed \union NamesIn(buffer) \union refused \union abandoned
    BY DEF SendInv, NothingIsLost
  <2>3. 1..drawn \subseteq Committed \union WriteNames(up) \union NamesIn(buffer)
                    \union EditNames(challenged) \union refused \union abandoned
    BY DEF SendInv, NothingIsLost
  <2>4. 1..drawn \subseteq Committed \union NamesIn(buffer') \union refused \union abandoned'
    BY <1>2, <2>1, <2>2, <2>3
  <2> QED BY <1>1, <1>4, <1>5, <2>4 DEF NothingIsLost
<1> QED BY <1>10, <1>11, <1>12, <1>13, <1>14, <1>15 DEF SendInv

LEMMA ReconnectKeeps == ASSUME SendInv, Strict, Reconnect PROVE SendInv'
<1>1. PICK seq \in 0..Len(log) :
        /\ NamesIn(buffer) \intersect
             {e.n : e \in Range(SubSeq(log, 1, seq)) \union EditsIn(session)} = {}
        /\ down' = <<BatchAfter(seq)>>
  BY DEF Reconnect, Strict
<1>2. /\ link = "down" /\ link' = "waiting" /\ conn' = conn + 1 /\ validated' = FALSE
      /\ UNCHANGED <<guarded, paused, buffer, challenged, undo, again, drawn, abandoned, up,
                     closed, session, log, refused, others>>
  BY DEF Reconnect, server
<1> DEFINE m == BatchAfter(seq)
           before == SubSeq(log, 1, seq)
<1>3. log \in Seq(EditSet) /\ Len(log) \in Nat /\ DOMAIN log = 1..Len(log)
  BY LenProperties DEF SendInv, WritesTypeOK
<1>4. /\ m.edits \in Seq(EditSet) /\ Len(m.edits) = Len(log) - seq
      /\ \A k \in 1..Len(log) - seq : m.edits[k] = log[seq + k]
  <2>1. seq + 1 \in Nat \ {0} /\ Len(log) \in 0..Len(log) BY <1>3
  <2>2. /\ SubSeq(log, seq + 1, Len(log)) \in Seq(EditSet)
        /\ Len(SubSeq(log, seq + 1, Len(log))) =
             IF seq + 1 <= Len(log) THEN Len(log) - (seq + 1) + 1 ELSE 0
        /\ \A k \in 1..Len(log) - (seq + 1) + 1 :
             SubSeq(log, seq + 1, Len(log))[k] = log[seq + 1 + k - 1]
    BY <1>3, <2>1, SubSeqType
  <2>3. m.edits = SubSeq(log, seq + 1, Len(log)) BY DEF BatchAfter
  <2> HIDE DEF m
  <2>4. Len(m.edits) = Len(log) - seq
    <3>1. seq \in Nat /\ seq <= Len(log) BY <1>3
    <3>2. CASE seq + 1 <= Len(log) BY <1>3, <2>2, <2>3, <3>1, <3>2
    <3>3. CASE ~(seq + 1 <= Len(log))
      <4>1. Len(log) - seq = 0
        <5>1. \A a, b \in Nat : a <= b /\ ~(a + 1 <= b) => b - a = 0 OBVIOUS
        <5>2. Len(log) \in Nat BY <1>3
        <5> QED BY <3>1, <3>3, <5>1, <5>2, Zenon
      <4>2. Len(m.edits) = 0 BY <2>2, <2>3, <3>3
      <4> QED BY <4>1, <4>2
    <3> QED BY <3>2, <3>3
  <2>5. ASSUME NEW k \in 1..Len(log) - seq PROVE m.edits[k] = log[seq + k]
    <3>1. k \in 1..Len(log) - (seq + 1) + 1 /\ seq + 1 + k - 1 = seq + k BY <1>3, <2>5
    <3>2. SubSeq(log, seq + 1, Len(log))[k] = log[seq + 1 + k - 1] BY <2>2, <3>1, Zenon
    <3> QED BY <2>3, <3>1, <3>2
  <2> QED BY <2>2, <2>3, <2>4, <2>5
<1>5. m.kind = "batch" /\ m \in DownSet BY <1>4 DEF BatchAfter, DownSet
<1> HIDE DEF m
<1>6. /\ down' \in Seq(DownSet) /\ Range(down') = {m} /\ down' # <<>> /\ Head(down') = m
      /\ Tail(down') = <<>>
  BY <1>1, <1>5, FewMessages DEF m
<1>7. before \in Seq(EditSet) /\ DOMAIN before = 1..seq /\ \A k \in 1..seq : before[k] = log[k]
  BY <1>3, InitialPart, LenProperties
<1> HIDE DEF before
<1>8. NamesIn(buffer) \intersect WriteNames(session) = {}
  <2>1. WriteNames(session) \subseteq {e.n : e \in EditsIn(session)} BY DEF WriteNames, EditsIn
  <2> QED BY <1>1, <2>1
<1>9. NamesIn(buffer) \intersect MineIn(log) \subseteq EditNames(m.edits)
  <2> SUFFICES ASSUME NEW k \in DOMAIN log, log[k].n \in NamesIn(buffer)
               PROVE  log[k].n \in EditNames(m.edits)
    BY DEF MineIn
  <2>1. CASE k <= seq
    <3>1. k \in DOMAIN before /\ before[k] = log[k] BY <1>3, <1>7, <2>1
    <3>2. log[k] \in Range(before) BY <3>1 DEF Range
    <3> QED BY <1>1, <3>2 DEF before
  <2>2. CASE ~(k <= seq)
    <3>1. k - seq \in 1..Len(log) - seq /\ seq + (k - seq) = k BY <1>3, <2>2
    <3>2. DOMAIN m.edits = 1..Len(log) - seq BY <1>4, LenProperties
    <3>3. m.edits[k - seq] = log[k] BY <1>4, <3>1
    <3> QED BY <3>1, <3>2, <3>3 DEF EditNames
  <2> QED BY <2>1, <2>2
<1>10. Committed' = Committed BY <1>2 DEF Committed
<1>11. WritesTypeOK'
  <2>1. link' \in {"down", "waiting", "joined"} /\ conn' \in Nat /\ validated' \in BOOLEAN
    <3>1. conn \in Nat BY DEF SendInv, WritesTypeOK
    <3>2. conn' = conn + 1 /\ link' = "waiting" BY <1>2
    <3>3. validated' \in BOOLEAN BY <1>2
    <3>4. conn' \in Nat BY <3>1, <3>2
    <3> QED BY <3>2, <3>3, <3>4
  <2> QED BY <1>2, <1>6, <2>1 DEF SendInv, WritesTypeOK
<1>12. InOrder' BY <1>2, <1>10 DEF SendInv, InOrder
<1>13. BufferFollows' BY <1>2, <1>10 DEF SendInv, BufferFollows
<1>14. AnswersAreRight'
  <2>1. \A x \in Range(down') : Truthful(x)' BY <1>5, <1>6 DEF Truthful
  <2>2. NamesIn(buffer) \intersect refused = {} BY <1>2 DEF SendInv, BufferFollows
  <2>3. NoBatch(Tail(down')) BY <1>6, FewMessages DEF NoBatch
  <2> QED BY <1>2, <1>5, <1>6, <1>8, <1>9, <2>1, <2>2, <2>3 DEF AnswersAreRight
<1>15. TokensAreRight' BY <1>2 DEF SendInv, TokensAreRight
<1>16. NothingIsLost' BY <1>2, <1>10 DEF SendInv, NothingIsLost
<1> QED BY <1>11, <1>12, <1>13, <1>14, <1>15, <1>16 DEF SendInv

-----------------------------------------------------------------------------
(* The server *)

\* What the server sends.
LEMMA AnswersStay ==
  ASSUME SendInv, NEW ms \in Seq(DownSet), down' = down \/ down' = down \o ms,
         \A m \in Range(ms) : m.kind # "batch" /\ Truthful(m)',
         MineIn(log) \subseteq MineIn(log'), refused \subseteq refused', closed => closed',
         NamesIn(buffer) \intersect refused' \subseteq Rejected(down'),
         link = "waiting" => /\ NamesIn(buffer) \intersect WriteNames(session') = {}
                             /\ NamesIn(buffer) \intersect MineIn(log') \subseteq MineIn(log),
         UNCHANGED <<link, buffer>>
  PROVE  down' \in Seq(DownSet) /\ AnswersAreRight'
<1>1. down \in Seq(DownSet) /\ AnswersAreRight BY DEF SendInv, WritesTypeOK
<1>2. /\ down' \in Seq(DownSet) /\ Range(down') \subseteq Range(down) \union Range(ms)
      /\ down # <<>> => /\ down' # <<>> /\ Head(down') = Head(down)
                        /\ Range(Tail(down')) \subseteq Range(Tail(down)) \union Range(ms)
  <2>1. CASE down' = down BY <1>1, <2>1
  <2>2. CASE down' = down \o ms
    <3>1. /\ down \o ms \in Seq(DownSet) /\ Range(down \o ms) = Range(down) \union Range(ms)
          /\ down # <<>> => /\ down \o ms # <<>> /\ Head(down \o ms) = Head(down)
                            /\ Range(Tail(down \o ms)) = Range(Tail(down)) \union Range(ms)
      BY <1>1, RangeOfConcat
    <3> QED BY <2>2, <3>1
  <2> QED BY <2>1, <2>2
<1>3. ASSUME NEW m \in Range(down') PROVE Truthful(m)'
  <2>1. CASE m \in Range(ms) BY <2>1
  <2>2. CASE m \in Range(down) BY <1>1, <2>2 DEF AnswersAreRight, Truthful
  <2> QED BY <1>2, <2>1, <2>2
<1>4. CASE link = "waiting"
  <2>1. NoBatch(Tail(down')) BY <1>1, <1>2, <1>4 DEF AnswersAreRight, NoBatch
  <2> QED BY <1>1, <1>2, <1>3, <1>4, <2>1 DEF AnswersAreRight
<1>5. CASE link # "waiting"
  <2>1. NoBatch(down') BY <1>1, <1>2, <1>5 DEF AnswersAreRight, NoBatch
  <2> QED BY <1>2, <1>3, <1>5, <2>1 DEF AnswersAreRight
<1> QED BY <1>4, <1>5

LEMMA MoreRejections ==
  ASSUME NEW d \in Seq(DownSet), NEW ms \in Seq(DownSet)
  PROVE  Rejected(d \o ms) = Rejected(d) \union Rejected(ms)
<1>1. Range(d \o ms) = Range(d) \union Range(ms) BY RangeOfConcat
<1> QED BY <1>1 DEF Rejected

LEMMA TakesOne ==
  ASSUME SendInv, Takes
  PROVE  /\ link # "down" /\ ~closed /\ Head(up) \in UpSet /\ up' \in Seq(UpSet)
         /\ WriteNames(up) = WriteName(Head(up)) \union WriteNames(up')
         /\ WritesGrow(up') /\ Below(WriteName(Head(up)), WriteNames(up'))
<1>1. /\ link # "down" /\ ~closed /\ up # <<>> /\ up' = Tail(up) /\ up \in Seq(UpSet)
      /\ WritesGrow(up)
  BY DEF Takes, SendInv, WritesTypeOK, InOrder
<1>2. /\ Head(up) \in UpSet /\ Tail(up) \in Seq(UpSet)
      /\ WriteNames(up) = WriteName(Head(up)) \union WriteNames(Tail(up))
      /\ WritesGrow(up) => /\ WritesGrow(Tail(up))
                           /\ Below(WriteName(Head(up)), WriteNames(Tail(up)))
  BY <1>1, NamesOfTail
<1> QED BY <1>1, <1>2

\* One more write or undo in the session queue.
LEMMA QueuesInSession ==
  ASSUME SendInv, NEW j \in Jobs
  PROVE  /\ Append(session, j) \in Seq(Jobs)
         /\ WriteNames(Append(session, j)) = WriteNames(session) \union WriteName(j)
         /\ Below(WriteNames(session), WriteName(j)) => WritesGrow(Append(session, j))
<1>1. session \in Seq(Jobs) /\ WritesGrow(session) BY DEF SendInv, WritesTypeOK, InOrder
<1>2. Append(session, j) \in Seq(Jobs) BY <1>1, AppendProperties
<1>3. /\ WriteNames(Append(session, j)) = WriteNames(session) \union WriteName(j)
      /\ WritesGrow(session) /\ Below(WriteNames(session), WriteName(j))
           => WritesGrow(Append(session, j))
  BY <1>1, NamesOfAppend
<1> QED BY <1>1, <1>2, <1>3

LEMMA ServerGetsWriteKeeps == ASSUME SendInv, ServerGetsWrite PROVE SendInv'
<1> DEFINE e == Head(up).edit
<1>1. /\ Takes /\ Head(up).kind = "write"
      /\ UNCHANGED <<guarded, link, conn, paused, validated, buffer, challenged, undo, again, drawn,
                     abandoned, closed, log, others>>
  BY DEF ServerGetsWrite, connection, turnstile, tab
<1>2. /\ link # "down" /\ ~closed /\ Head(up) \in UpSet /\ up' \in Seq(UpSet)
      /\ WriteNames(up) = WriteName(Head(up)) \union WriteNames(up')
      /\ WritesGrow(up') /\ Below(WriteName(Head(up)), WriteNames(up'))
  BY <1>1, TakesOne
<1>3. WriteName(Head(up)) = {e.n} /\ e \in EditSet BY <1>1, <1>2 DEF WriteName, UpSet
<1>4. \/ guarded /\ ~valid /\ UNCHANGED <<down, session, refused>>
      \/ /\ ~guarded \/ valid
         /\ session' = Append(session, [kind |-> "write", edit |-> e, conn |-> conn])
         /\ UNCHANGED <<down, refused>>
      \/ /\ ~guarded \/ valid
         /\ refused' = refused \union {e.n} /\ Sends(<<Rejection(e)>>) /\ session' = session
  BY DEF ServerGetsWrite, Refuse
<1> HIDE DEF e
<1>5. WriteNames(up) = {e.n} \union WriteNames(up') /\ Below({e.n}, WriteNames(up'))
  BY <1>2, <1>3
<1>6. link = "joined" /\ ~paused
  BY <1>2, <1>5 DEF SendInv, BufferFollows, WritesTypeOK
<1>7. NamesIn(buffer) = Waiting(buffer) \union InFlight(buffer)
  BY NamesOfStates DEF SendInv, WritesTypeOK
<1>8. TokensAreRight' BY <1>1 DEF SendInv, TokensAreRight
<1>9. CASE guarded /\ ~valid /\ UNCHANGED <<down, session, refused>>
  <2>1. Committed' = Committed BY <1>1, <1>9 DEF Committed
  <2>2. WritesTypeOK' BY <1>1, <1>2, <1>9 DEF SendInv, WritesTypeOK
  <2>3. InOrder' BY <1>1, <1>2, <1>5, <1>9, <2>1 DEF SendInv, InOrder, Below
  <2>4. BufferFollows' BY <1>1, <1>5, <1>6, <1>9, <2>1 DEF SendInv, BufferFollows, Below
  <2>5. AnswersAreRight' BY <1>1, <1>9 DEF SendInv, AnswersAreRight, Truthful
  <2>6. NothingIsLost' BY <1>1, <1>5, <1>9, <2>1 DEF SendInv, NothingIsLost
  <2> QED BY <1>8, <2>2, <2>3, <2>4, <2>5, <2>6 DEF SendInv
<1>10. CASE /\ session' = Append(session, [kind |-> "write", edit |-> e, conn |-> conn])
            /\ UNCHANGED <<down, refused>>
  <2> DEFINE j == [kind |-> "write", edit |-> e, conn |-> conn]
  <2>1. j \in Jobs /\ WriteName(j) = {e.n}
    BY <1>3 DEF Jobs, WriteName, SendInv, WritesTypeOK
  <2>2. session' = Append(session, j) BY <1>10
  <2> HIDE DEF j
  <2>3. /\ session' \in Seq(Jobs) /\ WriteNames(session') = WriteNames(session) \union {e.n}
        /\ Below(WriteNames(session), {e.n}) => WritesGrow(session')
    BY <2>1, <2>2, QueuesInSession
  <2>4. Below(Committed, WriteNames(up)) BY <1>2 DEF SendInv, InOrder
  <2>5. Committed' = Committed \union {e.n} BY <1>1, <2>3 DEF Committed
  <2>6. Below(Committed, {e.n}) BY <1>5, <2>4 DEF Below
  <2>7. WritesTypeOK' BY <1>1, <1>2, <1>10, <2>3 DEF SendInv, WritesTypeOK
  <2>8. InOrder'
    <3>1. WritesGrow(session') BY <2>3, <2>6 DEF Below, Committed
    <3>2. Below(MineIn(log), WriteNames(session')) BY <2>3, <2>6 DEF SendInv, InOrder, Below, Committed
    <3>3. Below(Committed', WriteNames(up')) BY <1>5, <2>4, <2>5 DEF Below
    <3>4. Committed' \union WriteNames(up') = Committed \union WriteNames(up) BY <1>5, <2>5
    <3> HIDE DEF Committed
    <3>5. Below(Committed' \union WriteNames(up') \union NamesIn(buffer) \union refused,
                EditNames(challenged))
      BY <3>4 DEF SendInv, InOrder
    <3>6. Committed' \union WriteNames(up') \union NamesIn(buffer) \union EditNames(challenged)
            \union refused \subseteq 1..drawn
      BY <3>4 DEF SendInv, InOrder
    <3> QED BY <1>1, <1>2, <1>10, <3>1, <3>2, <3>3, <3>5, <3>6 DEF SendInv, InOrder
  <2>9. BufferFollows'
    <3>1. Committed' \union WriteNames(up') = Committed \union WriteNames(up) BY <1>5, <2>5
    <3>2. ASSUME ~guarded
          PROVE  Below(Committed', NamesIn(buffer) \ (Committed' \union refused))
      <4> SUFFICES ASSUME NEW n \in NamesIn(buffer), n \notin Committed' \union refused
                   PROVE  Below(Committed', {n}) BY DEF Below
      <4>1. Below(Committed, {n}) BY <2>5, <3>2 DEF SendInv, BufferFollows, Below
      <4>2. e.n < n
        <5>1. CASE n \in Waiting(buffer)
          BY <1>2, <1>5, <1>6, <5>1 DEF SendInv, BufferFollows, Below
        <5>2. CASE n \in InFlight(buffer)
          <6>1. n \in Committed \union WriteNames(up) \union refused
            BY <1>2, <1>6, <3>2, <5>2 DEF SendInv, BufferFollows
          <6>2. n \in WriteNames(up') BY <1>5, <2>5, <6>1
          <6> QED BY <1>5, <6>2 DEF Below
        <5> QED BY <1>7, <5>1, <5>2
      <4> QED BY <2>5, <4>1, <4>2 DEF Below
    <3> QED BY <1>1, <1>2, <1>6, <1>10, <3>1, <3>2 DEF SendInv, BufferFollows
  <2>10. AnswersAreRight' BY <1>1, <1>6, <1>10 DEF SendInv, AnswersAreRight, Truthful
  <2>11. NothingIsLost' BY <1>1, <1>5, <1>10, <2>5 DEF SendInv, NothingIsLost
  <2> QED BY <1>8, <2>7, <2>8, <2>9, <2>10, <2>11 DEF SendInv
<1>11. CASE refused' = refused \union {e.n} /\ Sends(<<Rejection(e)>>) /\ session' = session
  <2> DEFINE m == Rejection(e)
             ms == <<m>>
  <2>1. m.kind = "rejected" /\ m.n = e.n /\ m \in DownSet BY <1>3 DEF Rejection, DownSet, EditSet
  <2>2. down' = down \o ms BY <1>2, <1>11 DEF Sends
  <2> HIDE DEF m
  <2>3. ms \in Seq(DownSet) /\ Range(ms) = {m} BY <2>1, FewMessages
  <2> HIDE DEF ms
  <2>4. Committed' = Committed BY <1>1, <1>11 DEF Committed
  <2>5. \A x \in Range(ms) : x.kind # "batch" /\ Truthful(x)' BY <1>11, <2>1, <2>3 DEF Truthful
  <2>6. Rejected(down') = Rejected(down) \union {e.n}
    <3>1. Rejected(ms) = {e.n} BY <2>1, <2>3 DEF Rejected
    <3> QED BY <2>2, <2>3, <3>1, MoreRejections DEF SendInv, WritesTypeOK
  <2>7. NamesIn(buffer) \intersect refused' \subseteq Rejected(down')
    BY <1>11, <2>6 DEF SendInv, AnswersAreRight
  <2>8. down' \in Seq(DownSet) /\ AnswersAreRight'
    BY <1>1, <1>6, <1>11, <2>2, <2>3, <2>5, <2>7, AnswersStay
  <2>9. WritesTypeOK' BY <1>1, <1>2, <1>11, <2>8 DEF SendInv, WritesTypeOK
  <2>10. InOrder'
    <3>1. refused' \union WriteNames(up') = refused \union WriteNames(up) BY <1>5, <1>11
    <3>2. Below(Committed \union WriteNames(up') \union NamesIn(buffer) \union refused',
                EditNames(challenged))
      BY <3>1 DEF SendInv, InOrder, Below
    <3>3. Committed \union WriteNames(up') \union NamesIn(buffer) \union EditNames(challenged)
            \union refused' \subseteq 1..drawn
      BY <3>1 DEF SendInv, InOrder
    <3>4. Below(Committed, WriteNames(up')) BY <1>2, <1>5 DEF SendInv, InOrder, Below
    <3> QED BY <1>1, <1>2, <1>11, <2>4, <3>2, <3>3, <3>4 DEF SendInv, InOrder
  <2>11. BufferFollows'
    BY <1>1, <1>2, <1>5, <1>6, <1>11, <2>4 DEF SendInv, BufferFollows, Below
  <2>12. NothingIsLost' BY <1>1, <1>5, <1>11, <2>4 DEF SendInv, NothingIsLost
  <2> QED BY <1>8, <2>8, <2>9, <2>10, <2>11, <2>12 DEF SendInv
<1> QED BY <1>4, <1>9, <1>10, <1>11

\* The server takes a message that is not an edit, or the last one of a connection.
LEMMA TakingKeeps ==
  ASSUME SendInv, Takes, NEW ms \in Seq(DownSet), down' = down \/ down' = down \o ms,
         \A m \in Range(ms) : m.kind # "batch" /\ Truthful(m)',
         session' \in Seq(Jobs), WriteNames(session') = WriteNames(session), WritesGrow(session'),
         (~closed' /\ WriteName(Head(up)) = {}) \/ (closed' /\ ~guarded), closed' \in BOOLEAN,
         UNCHANGED <<guarded, link, conn, paused, validated, buffer, challenged, undo, again, drawn,
                     abandoned, log, refused, others>>
  PROVE  SendInv'
<1>1. /\ link # "down" /\ ~closed /\ Head(up) \in UpSet /\ up' \in Seq(UpSet)
      /\ WriteNames(up) = WriteName(Head(up)) \union WriteNames(up')
      /\ WritesGrow(up') /\ Below(WriteName(Head(up)), WriteNames(up'))
  BY TakesOne
<1>2. WriteNames(up') \subseteq WriteNames(up) /\ (closed' \/ WriteNames(up') = WriteNames(up))
  BY <1>1
<1>3. Committed' = Committed BY DEF Committed
<1>4. NamesIn(buffer) \intersect refused' \subseteq Rejected(down')
  <2>1. NamesIn(buffer) \intersect refused \subseteq Rejected(down) BY DEF SendInv, AnswersAreRight
  <2>2. Rejected(down) \subseteq Rejected(down') BY MoreRejections DEF SendInv, WritesTypeOK
  <2> QED BY <2>1, <2>2
<1>5. link = "waiting" => NamesIn(buffer) \intersect WriteNames(session') = {}
  BY DEF SendInv, AnswersAreRight
<1>6. down' \in Seq(DownSet) /\ AnswersAreRight' BY <1>1, <1>4, <1>5, AnswersStay
<1>7. WritesTypeOK' BY <1>1, <1>6 DEF SendInv, WritesTypeOK
<1>8. InOrder' BY <1>1, <1>2, <1>3 DEF SendInv, InOrder, Below
<1>9. BufferFollows' BY <1>1, <1>2, <1>3 DEF SendInv, BufferFollows, Below
<1>10. TokensAreRight' BY DEF SendInv, TokensAreRight
<1>11. NothingIsLost'
  <2>1. WriteNames(up) \subseteq Committed \union NamesIn(buffer) \union refused \union abandoned
    BY DEF SendInv, NothingIsLost
  <2>2. 1..drawn \subseteq Committed \union NamesIn(buffer) \union EditNames(challenged)
                    \union refused \union abandoned
    BY <2>1 DEF SendInv, NothingIsLost
  <2> QED BY <1>2, <1>3, <2>1, <2>2 DEF NothingIsLost
<1> QED BY <1>6, <1>7, <1>8, <1>9, <1>10, <1>11 DEF SendInv

LEMMA ServerGetsUndoKeeps == ASSUME SendInv, ServerGetsUndo PROVE SendInv'
<1> DEFINE j == [kind |-> "undo", conn |-> conn]
<1>1. /\ Takes /\ Head(up).kind = "undo" /\ session' = Append(session, j)
      /\ UNCHANGED <<guarded, link, conn, paused, validated, buffer, challenged, undo, again, drawn,
                     abandoned, down, closed, log, refused, others>>
  BY DEF ServerGetsUndo, connection, turnstile, tab
<1>2. j \in Jobs /\ WriteName(j) = {} BY DEF Jobs, WriteName, SendInv, WritesTypeOK
<1> HIDE DEF j
<1>3. Below(WriteNames(session), {}) BY DEF Below
<1>4. /\ session' \in Seq(Jobs) /\ WriteNames(session') = WriteNames(session) /\ WritesGrow(session')
  BY <1>1, <1>2, <1>3, QueuesInSession
<1>5. (~closed' /\ WriteName(Head(up)) = {}) \/ (closed' /\ ~guarded)
  <2>1. ~closed' BY <1>1, TakesOne
  <2>2. WriteName(Head(up)) = {} BY <1>1 DEF WriteName
  <2> QED BY <2>1, <2>2
<1>6. closed' \in BOOLEAN BY <1>1 DEF SendInv, WritesTypeOK
<1> DEFINE ms == <<>>
<1>8. down' = down \/ down' = down \o ms BY <1>1
<1>7. ms \in Seq(DownSet) /\ \A m \in Range(ms) : m.kind # "batch" /\ Truthful(m)' BY FewMessages
<1> HIDE DEF ms
<1> QED BY <1>1, <1>4, <1>5, <1>6, <1>7, <1>8, TakingKeeps

LEMMA VerifyTokenKeeps == ASSUME SendInv, NEW ok \in BOOLEAN, VerifyToken(ok) PROVE SendInv'
<1> DEFINE m  == [kind |-> "validation", ok |-> ok]
           ms == <<m>>
<1>1. /\ Takes /\ Head(up).kind = "token" /\ Sends(ms)
      /\ UNCHANGED <<guarded, link, conn, paused, validated, buffer, challenged, undo, again, drawn,
                     abandoned, closed, session, log, refused, others>>
  BY DEF VerifyToken, connection, tab, server
<1>2. m \in DownSet /\ m.kind = "validation" BY DEF DownSet
<1> HIDE DEF m
<1>3. ms \in Seq(DownSet) /\ \A x \in Range(ms) : x.kind # "batch" /\ Truthful(x)'
  BY <1>2, FewMessages DEF Truthful
<1> HIDE DEF ms
<1>4. down' = down \/ down' = down \o ms BY <1>1 DEF Sends
<1>5. /\ session' \in Seq(Jobs) /\ WriteNames(session') = WriteNames(session) /\ WritesGrow(session')
      /\ closed' \in BOOLEAN
  BY <1>1 DEF SendInv, WritesTypeOK, InOrder
<1>6. (~closed' /\ WriteName(Head(up)) = {}) \/ (closed' /\ ~guarded)
  <2>1. ~closed' BY <1>1, TakesOne
  <2>2. WriteName(Head(up)) = {} BY <1>1 DEF WriteName
  <2> QED BY <2>1, <2>2
<1> QED BY <1>1, <1>3, <1>4, <1>5, <1>6, TakingKeeps

LEMMA LimitKeeps == ASSUME SendInv, Strict, Limit PROVE SendInv'
<1> DEFINE m  == [kind |-> "limited"]
           ms == <<m>>
<1>1. /\ Takes /\ Sends(ms) /\ ~guarded /\ closed' /\ closed' \in BOOLEAN
      /\ UNCHANGED <<guarded, link, conn, paused, validated, buffer, challenged, undo, again, drawn,
                     abandoned, session, log, refused, others>>
  BY DEF Limit, Strict, connection, turnstile, tab, server
<1>2. m \in DownSet /\ m.kind = "limited" BY DEF DownSet
<1> HIDE DEF m
<1>3. ms \in Seq(DownSet) /\ \A x \in Range(ms) : x.kind # "batch" /\ Truthful(x)'
  BY <1>1, <1>2, FewMessages DEF Truthful
<1> HIDE DEF ms
<1>4. down' = down \/ down' = down \o ms BY <1>1 DEF Sends
<1>5. session' \in Seq(Jobs) /\ WriteNames(session') = WriteNames(session) /\ WritesGrow(session')
  BY <1>1 DEF SendInv, WritesTypeOK, InOrder
<1> QED BY <1>1, <1>3, <1>4, <1>5, TakingKeeps

\* An edit is accepted, or an undo finds nothing to do.
LEMMA AcceptingKeeps ==
  ASSUME SendInv, NEW ms \in Seq(DownSet), down' = down \/ down' = down \o ms,
         \A m \in Range(ms) : m.kind # "batch" /\ Truthful(m)',
         log' \in Seq(EditSet), session' \in Seq(Jobs), others' \in Nat, Committed' = Committed,
         MineGrow(log'), WritesGrow(session'), Below(MineIn(log'), WriteNames(session')),
         MineIn(log) \subseteq MineIn(log'), WriteNames(session') \subseteq WriteNames(session),
         link = "waiting" => NamesIn(buffer) \intersect MineIn(log') \subseteq MineIn(log),
         UNCHANGED <<guarded, link, conn, paused, validated, buffer, challenged, undo, again, drawn,
                     abandoned, up, closed, refused>>
  PROVE  SendInv'
<1>1. NamesIn(buffer) \intersect refused' \subseteq Rejected(down')
  <2>1. NamesIn(buffer) \intersect refused \subseteq Rejected(down) BY DEF SendInv, AnswersAreRight
  <2>2. Rejected(down) \subseteq Rejected(down') BY MoreRejections DEF SendInv, WritesTypeOK
  <2> QED BY <2>1, <2>2
<1>2. link = "waiting" => NamesIn(buffer) \intersect WriteNames(session') = {}
  BY DEF SendInv, AnswersAreRight
<1>3. down' \in Seq(DownSet) /\ AnswersAreRight' BY <1>1, <1>2, AnswersStay
<1>4. WritesTypeOK' BY <1>3 DEF SendInv, WritesTypeOK
<1>5. InOrder' BY DEF SendInv, InOrder
<1>6. BufferFollows' BY DEF SendInv, BufferFollows
<1>7. TokensAreRight' BY DEF SendInv, TokensAreRight
<1>8. NothingIsLost' BY DEF SendInv, NothingIsLost
<1> QED BY <1>3, <1>4, <1>5, <1>6, <1>7, <1>8 DEF SendInv

LEMMA NextInSession ==
  ASSUME SendInv, session # <<>>, session' = Tail(session)
  PROVE  /\ Head(session) \in Jobs /\ session' \in Seq(Jobs) /\ WritesGrow(session')
         /\ WriteNames(session) = WriteName(Head(session)) \union WriteNames(session')
         /\ Below(WriteName(Head(session)), WriteNames(session'))
<1>1. session \in Seq(Jobs) /\ WritesGrow(session) BY DEF SendInv, WritesTypeOK, InOrder
<1> QED BY <1>1, NamesOfTail

\* An edit that is not this tab's.
LEMMA LogOfOthers ==
  ASSUME SendInv, NEW e \in EditSet, ~IsMine(e), log' = Append(log, e)
  PROVE  log' \in Seq(EditSet) /\ MineIn(log') = MineIn(log) /\ MineGrow(log')
<1>1. log \in Seq(EditSet) /\ MineGrow(log) BY DEF SendInv, WritesTypeOK, InOrder
<1> DEFINE mine == IF IsMine(e) THEN {e.n} ELSE {}
<1>2. /\ Append(log, e) \in Seq(EditSet)
      /\ MineIn(Append(log, e)) = MineIn(log) \union mine
      /\ MineGrow(log) /\ Below(MineIn(log), mine) => MineGrow(Append(log, e))
  BY <1>1, NamesOfLog
<1>3. mine = {} /\ Below(MineIn(log), {}) BY DEF Below
<1> QED BY <1>1, <1>2, <1>3

\* An edit of another user.
LEMMA EditOfOthers ==
  ASSUME NEW n \in Int, ~(n > 0), NEW y \in Types \union {"restore"}, NEW i \in Item, NEW v \in Int
  PROVE  Edit(n, y, i, v, {}) \in EditSet /\ ~IsMine(Edit(n, y, i, v, {}))
<1>1. {} \in SUBSET Int OBVIOUS
<1>2. Edit(n, y, i, v, {}) \in EditSet BY <1>1, Zenon DEF EditSet, Edit
<1>3. Edit(n, y, i, v, {}).n = n BY DEF Edit
<1> QED BY <1>2, <1>3 DEF IsMine

LEMMA OthersEditKeeps == ASSUME SendInv, OthersEdit PROVE SendInv'
<1>1. /\ others' = others + 1
      /\ UNCHANGED <<guarded, link, conn, paused, validated, buffer, challenged, undo, again, drawn,
                     abandoned, up, closed, session, refused>>
  BY DEF OthersEdit, connection, turnstile, tab
<1>2. PICK y \in Types, i \in Item :
        LET e == Edit(-others', y, i, 0, {}) IN
        log' = Append(log, e) /\ Sends(<<Message("theirs", e)>>)
  BY DEF OthersEdit, Accept
<1> DEFINE e  == Edit(-others', y, i, 0, {})
           m  == Message("theirs", e)
           ms == <<m>>
<1>3. log' = Append(log, e) /\ Sends(ms) BY <1>2
<1>4. others \in Nat /\ others' \in Nat /\ -others' \in Int /\ ~(-others' > 0)
  BY <1>1 DEF SendInv, WritesTypeOK
<1>5. e \in EditSet /\ ~IsMine(e) BY <1>4, EditOfOthers
<1> HIDE DEF e
<1>6. m \in DownSet /\ m.kind = "theirs" BY <1>5 DEF DownSet, Message
<1> HIDE DEF m
<1>7. ms \in Seq(DownSet) /\ \A x \in Range(ms) : x.kind # "batch" /\ Truthful(x)'
  BY <1>6, FewMessages DEF Truthful
<1> HIDE DEF ms
<1>8. down' = down \/ down' = down \o ms BY <1>3 DEF Sends
<1>9. log' \in Seq(EditSet) /\ MineIn(log') = MineIn(log) /\ MineGrow(log')
  BY <1>3, <1>5, LogOfOthers
<1>10. /\ session' \in Seq(Jobs) /\ WritesGrow(session') /\ Below(MineIn(log'), WriteNames(session'))
       /\ WriteNames(session') \subseteq WriteNames(session) /\ MineIn(log) \subseteq MineIn(log')
       /\ NamesIn(buffer) \intersect MineIn(log') \subseteq MineIn(log)
  BY <1>1, <1>9 DEF SendInv, WritesTypeOK, InOrder
<1>11. Committed' = Committed BY <1>1, <1>9 DEF Committed
<1> QED BY <1>1, <1>4, <1>7, <1>8, <1>9, <1>10, <1>11, AcceptingKeeps

LEMMA CommitUndoKeeps == ASSUME SendInv, CommitUndo PROVE SendInv'
<1>1. /\ session # <<>> /\ Head(session).kind = "undo" /\ session' = Tail(session)
      /\ UNCHANGED <<guarded, link, conn, paused, validated, buffer, challenged, undo, again, drawn,
                     abandoned, up, closed, refused>>
  BY DEF CommitUndo, connection, turnstile, tab
<1>2. /\ session' \in Seq(Jobs) /\ WritesGrow(session') /\ WriteNames(session) = WriteNames(session')
  BY <1>1, NextInSession DEF WriteName
<1> DEFINE done == [kind |-> "undone"]
<1>3. done \in DownSet /\ done.kind = "undone" BY DEF DownSet
<1>4. CASE /\ UNCHANGED <<log, others>>
           /\ Sends(IF Head(session).conn = conn /\ link # "down" /\ ~closed THEN <<done>> ELSE <<>>)
  <2> DEFINE ms == IF Head(session).conn = conn /\ link # "down" /\ ~closed THEN <<done>> ELSE <<>>
  <2> HIDE DEF done
  <2>1. ms \in Seq(DownSet) /\ \A x \in Range(ms) : x.kind # "batch" /\ Truthful(x)'
    BY <1>3, FewMessages DEF Truthful
  <2>2. Sends(ms) BY <1>4 DEF done
  <2> HIDE DEF ms
  <2>3. down' = down \/ down' = down \o ms BY <2>2 DEF Sends
  <2>4. /\ log' \in Seq(EditSet) /\ MineGrow(log') /\ Below(MineIn(log'), WriteNames(session'))
        /\ WriteNames(session') \subseteq WriteNames(session) /\ MineIn(log) \subseteq MineIn(log')
        /\ NamesIn(buffer) \intersect MineIn(log') \subseteq MineIn(log) /\ others' \in Nat
    BY <1>2, <1>4 DEF SendInv, WritesTypeOK, InOrder
  <2>5. Committed' = Committed BY <1>2, <1>4 DEF Committed
  <2> QED BY <1>1, <1>2, <2>1, <2>3, <2>4, <2>5, AcceptingKeeps
<1>5. CASE /\ others' = others + 1
           /\ \E i \in {e.item : e \in Range(log)}, gone \in BOOLEAN :
                LET e == Edit(-others', "restore", i, IF gone THEN 0 ELSE -others', {})
                IN  log' = Append(log, e) /\ Sends(<<Message("theirs", e), done>>)
  <2>1. PICK i \in {e.item : e \in Range(log)}, gone \in BOOLEAN :
          LET e == Edit(-others', "restore", i, IF gone THEN 0 ELSE -others', {})
          IN  log' = Append(log, e) /\ Sends(<<Message("theirs", e), done>>)
    BY <1>5
  <2> DEFINE e  == Edit(-others', "restore", i, IF gone THEN 0 ELSE -others', {})
             m  == Message("theirs", e)
             ms == <<m, done>>
  <2>2. log' = Append(log, e) /\ Sends(ms) BY <2>1
  <2>3. others \in Nat /\ others' \in Nat /\ -others' \in Int /\ ~(-others' > 0)
    BY <1>5 DEF SendInv, WritesTypeOK
  <2>4. i \in Item
    <3>1. PICK k \in DOMAIN log : i = log[k].item BY DEF Range
    <3>2. log[k] \in EditSet BY LenProperties, ElementOfSeq DEF SendInv, WritesTypeOK
    <3> QED BY <3>1, <3>2 DEF EditSet
  <2>5. e \in EditSet /\ ~IsMine(e) BY <2>3, <2>4, EditOfOthers
  <2> HIDE DEF e
  <2>6. m \in DownSet /\ m.kind = "theirs" BY <2>5 DEF DownSet, Message
  <2> HIDE DEF m, done
  <2>7. ms \in Seq(DownSet) /\ \A x \in Range(ms) : x.kind # "batch" /\ Truthful(x)'
    BY <1>3, <2>6, FewMessages DEF Truthful
  <2> HIDE DEF ms
  <2>8. down' = down \/ down' = down \o ms BY <2>2 DEF Sends
  <2>9. log' \in Seq(EditSet) /\ MineIn(log') = MineIn(log) /\ MineGrow(log')
    BY <2>2, <2>5, LogOfOthers
  <2>10. /\ Below(MineIn(log'), WriteNames(session'))
         /\ WriteNames(session') \subseteq WriteNames(session) /\ MineIn(log) \subseteq MineIn(log')
         /\ NamesIn(buffer) \intersect MineIn(log') \subseteq MineIn(log)
    BY <1>2, <2>9 DEF SendInv, InOrder
  <2>11. Committed' = Committed BY <1>2, <2>9 DEF Committed
  <2> QED BY <1>1, <1>2, <2>3, <2>7, <2>8, <2>9, <2>10, <2>11, AcceptingKeeps
<1> QED BY <1>4, <1>5 DEF CommitUndo, Accept

LEMMA CommitWriteKeeps == ASSUME SendInv, Strict, CommitWrite PROVE SendInv'
<1> DEFINE j == Head(session)
           e == j.edit
<1>1. /\ session # <<>> /\ j.kind = "write" /\ session' = Tail(session)
      /\ UNCHANGED <<guarded, link, conn, paused, validated, buffer, challenged, undo, again, drawn,
                     abandoned, up, closed, others>>
  BY DEF CommitWrite, connection, turnstile, tab
<1>2. /\ j \in Jobs /\ session' \in Seq(Jobs) /\ WritesGrow(session')
      /\ WriteNames(session) = WriteName(j) \union WriteNames(session')
      /\ Below(WriteName(j), WriteNames(session'))
  BY <1>1, NextInSession
<1>3. WriteName(j) = {e.n} /\ e \in EditSet BY <1>1, <1>2 DEF WriteName, Jobs
<1>4. \/ /\ log' = Append(log, e) /\ refused' = refused
         /\ Sends(<<Message(IF j.conn = conn THEN "mine" ELSE "theirs", e)>>)
      \/ /\ log' = log /\ refused' = refused \union {e.n}
         /\ (j.conn = conn /\ link # "down" /\ ~closed) \/ e.n \notin NamesIn(buffer)
         /\ IF j.conn = conn THEN Sends(<<Rejection(e)>>) ELSE UNCHANGED down
  BY DEF CommitWrite, Accept, Refuse, Strict
<1> HIDE DEF j, e
<1>5. /\ WriteNames(session) = {e.n} \union WriteNames(session')
      /\ Below({e.n}, WriteNames(session'))
  BY <1>2, <1>3
<1>6. /\ Below(MineIn(log), WriteNames(session)) /\ log \in Seq(EditSet) /\ MineGrow(log)
      /\ WriteNames(session) \subseteq 1..drawn
  BY DEF SendInv, WritesTypeOK, InOrder, Committed
<1>7. CASE /\ log' = Append(log, e) /\ refused' = refused
           /\ Sends(<<Message(IF j.conn = conn THEN "mine" ELSE "theirs", e)>>)
  <2> DEFINE kind == IF j.conn = conn THEN "mine" ELSE "theirs"
             m  == Message(kind, e)
             ms == <<m>>
  <2>1. /\ m.kind \in {"mine", "theirs"} /\ m.edit = e /\ m \in DownSet
    BY <1>3 DEF Message, DownSet
  <2>2. Sends(ms) BY <1>7
  <2> HIDE DEF m, kind
  <2>3. IsMine(e)
    <3>1. e.n \in 1..drawn /\ drawn \in Nat BY <1>5, <1>6 DEF SendInv, WritesTypeOK
    <3> QED BY <3>1 DEF IsMine
  <2>4. /\ log' \in Seq(EditSet) /\ MineIn(log') = MineIn(log) \union {e.n} /\ MineGrow(log')
    <3> DEFINE mine == IF IsMine(e) THEN {e.n} ELSE {}
    <3>1. /\ Append(log, e) \in Seq(EditSet)
          /\ MineIn(Append(log, e)) = MineIn(log) \union mine
          /\ MineGrow(log) /\ Below(MineIn(log), mine) => MineGrow(Append(log, e))
      BY <1>3, <1>6, NamesOfLog
    <3>2. mine = {e.n} /\ Below(MineIn(log), {e.n}) BY <1>5, <1>6, <2>3 DEF Below
    <3> QED BY <1>6, <1>7, <3>1, <3>2
  <2>5. ms \in Seq(DownSet) /\ \A x \in Range(ms) : x.kind # "batch" /\ Truthful(x)'
    BY <2>1, <2>4, FewMessages DEF Truthful
  <2> HIDE DEF ms
  <2>6. down' = down \/ down' = down \o ms BY <2>2 DEF Sends
  <2>7. Committed' = Committed BY <1>5, <2>4 DEF Committed
  <2>8. Below(MineIn(log'), WriteNames(session')) BY <1>5, <1>6, <2>4 DEF Below
  <2>9. link = "waiting" => NamesIn(buffer) \intersect MineIn(log') \subseteq MineIn(log)
    BY <1>5, <2>4 DEF SendInv, AnswersAreRight
  <2>10. WriteNames(session') \subseteq WriteNames(session) /\ MineIn(log) \subseteq MineIn(log')
    BY <1>5, <2>4
  <2>11. others' \in Nat BY <1>1 DEF SendInv, WritesTypeOK
  <2> QED BY <1>1, <1>2, <1>7, <2>4, <2>5, <2>6, <2>7, <2>8, <2>9, <2>10, <2>11, AcceptingKeeps
<1>8. CASE /\ log' = log /\ refused' = refused \union {e.n}
           /\ (j.conn = conn /\ link # "down" /\ ~closed) \/ e.n \notin NamesIn(buffer)
           /\ IF j.conn = conn THEN Sends(<<Rejection(e)>>) ELSE UNCHANGED down
  <2> DEFINE m == Rejection(e)
             ms == <<m>>
  <2>1. m.kind = "rejected" /\ m.n = e.n /\ m \in DownSet BY <1>3 DEF Rejection, DownSet, EditSet
  <2>2. /\ down' = down \/ down' = down \o ms
        /\ j.conn = conn /\ link # "down" /\ ~closed => down' = down \o ms
    BY <1>8 DEF Sends
  <2> HIDE DEF m
  <2>3. ms \in Seq(DownSet) /\ Range(ms) = {m} BY <2>1, FewMessages
  <2> HIDE DEF ms
  <2>4. /\ Committed' \subseteq Committed /\ Committed \subseteq Committed' \union {e.n}
        /\ Committed \union refused \subseteq Committed' \union refused'
        /\ refused \subseteq refused' /\ refused' \subseteq Committed \union refused
    BY <1>5, <1>8 DEF Committed
  <2>5. \A x \in Range(ms) : x.kind # "batch" /\ Truthful(x)' BY <1>8, <2>1, <2>3 DEF Truthful
  <2>6. NamesIn(buffer) \intersect refused' \subseteq Rejected(down')
    <3>1. /\ Rejected(down \o ms) = Rejected(down) \union {e.n}
      <4>1. Rejected(ms) = {e.n} BY <2>1, <2>3 DEF Rejected
      <4> QED BY <2>3, <4>1, MoreRejections DEF SendInv, WritesTypeOK
    <3>2. NamesIn(buffer) \intersect refused \subseteq Rejected(down) BY DEF SendInv, AnswersAreRight
    <3>3. CASE e.n \notin NamesIn(buffer) BY <1>8, <2>2, <3>1, <3>2, <3>3
    <3>4. CASE e.n \in NamesIn(buffer) BY <1>8, <2>2, <3>1, <3>2, <3>4
    <3> QED BY <3>3, <3>4
  <2>7. link = "waiting" => /\ NamesIn(buffer) \intersect WriteNames(session') = {}
                            /\ NamesIn(buffer) \intersect MineIn(log') \subseteq MineIn(log)
    BY <1>5, <1>8 DEF SendInv, AnswersAreRight
  <2>8. down' \in Seq(DownSet) /\ AnswersAreRight'
    BY <1>1, <1>8, <2>2, <2>3, <2>4, <2>5, <2>6, <2>7, AnswersStay
  <2>9. WritesTypeOK' BY <1>1, <1>2, <1>8, <2>8 DEF SendInv, WritesTypeOK
  <2>10. InOrder'
    <3>1. Below(MineIn(log), WriteNames(session')) BY <1>5, <1>6 DEF Below
    <3>2. ~closed => Below(Committed', WriteNames(up)) BY <2>4 DEF SendInv, InOrder, Below
    <3>3. Below(Committed' \union WriteNames(up) \union NamesIn(buffer) \union refused',
                EditNames(challenged))
      BY <2>4 DEF SendInv, InOrder, Below
    <3>4. Committed' \union WriteNames(up) \union NamesIn(buffer) \union EditNames(challenged)
            \union refused' \subseteq 1..drawn
      BY <2>4 DEF SendInv, InOrder
    <3> QED BY <1>1, <1>2, <1>8, <3>1, <3>2, <3>3, <3>4 DEF SendInv, InOrder
  <2>11. BufferFollows'
    <3>1. ASSUME link = "joined", ~closed
          PROVE  Below(Committed' \union WriteNames(up), Waiting(buffer))
      BY <2>4, <3>1 DEF SendInv, BufferFollows, Below
    <3>2. ASSUME link = "joined", ~closed, ~guarded
          PROVE  InFlight(buffer) \subseteq Committed' \union WriteNames(up) \union refused'
      BY <2>4, <3>2 DEF SendInv, BufferFollows
    <3>3. ASSUME ~guarded PROVE Below(Committed', NamesIn(buffer) \ (Committed' \union refused'))
      BY <2>4, <3>3 DEF SendInv, BufferFollows, Below
    <3>4. ASSUME link # "joined" \/ (paused /\ ~closed)
          PROVE  WriteNames(up) = {} /\ NamesIn(buffer) \intersect refused' = {}
      <4>1. WriteNames(up) = {} /\ NamesIn(buffer) \intersect refused = {}
        BY <3>4 DEF SendInv, BufferFollows
      <4>2. e.n \notin NamesIn(buffer)
        <5>1. CASE link = "down" BY <1>8, <5>1
        <5>2. CASE link = "waiting" BY <1>5, <5>2 DEF SendInv, AnswersAreRight
        <5>3. CASE link = "joined" /\ paused /\ ~closed
          <6>1. NamesIn(buffer) = Waiting(buffer)
            BY <5>3, NamesOfStates DEF SendInv, WritesTypeOK, BufferFollows
          <6>2. Below({e.n}, Waiting(buffer))
            BY <1>5, <5>3 DEF SendInv, BufferFollows, Committed, Below
          <6>3. e.n \in Int BY <1>3 DEF EditSet
          <6> QED BY <6>1, <6>2, <6>3 DEF Below
        <5> QED BY <3>4, <5>1, <5>2, <5>3 DEF SendInv, WritesTypeOK
      <4> QED BY <1>8, <4>1, <4>2
    <3> QED BY <1>1, <3>1, <3>2, <3>3, <3>4 DEF SendInv, BufferFollows
  <2>12. TokensAreRight' BY <1>1 DEF SendInv, TokensAreRight
  <2>13. NothingIsLost' BY <1>1, <2>4 DEF SendInv, NothingIsLost
  <2> QED BY <2>8, <2>9, <2>10, <2>11, <2>12, <2>13 DEF SendInv
<1> QED BY <1>4, <1>7, <1>8

-----------------------------------------------------------------------------
(* The theorem *)

LEMMA InitSends == Init => SendInv
<1> SUFFICES ASSUME Init PROVE SendInv OBVIOUS
<1>1. /\ guarded \in BOOLEAN /\ link = "joined" /\ conn = 0 /\ ~paused /\ paused \in BOOLEAN
      /\ ~validated /\ validated \in BOOLEAN /\ ~closed /\ closed \in BOOLEAN
      /\ buffer = <<>> /\ challenged = <<>> /\ undo = "none" /\ again = 0 /\ drawn = 0 /\ others = 0
      /\ up = <<>> /\ down = <<>> /\ session = <<>> /\ log = <<>> /\ refused = {} /\ abandoned = {}
  BY DEF Init
<1>2. /\ NamesIn(buffer) = {} /\ EditNames(challenged) = {} /\ WriteNames(up) = {}
      /\ WriteNames(session) = {} /\ MineIn(log) = {} /\ Committed = {}
      /\ MineGrow(log) /\ WritesGrow(session) /\ WritesGrow(up) /\ BufferGrows(buffer)
      /\ EditsGrow(challenged)
  BY <1>1, NamesOfNone DEF Committed
<1>3. Waiting(buffer) = {} /\ InFlight(buffer) = {}
  <2>1. DOMAIN buffer = {} BY <1>1
  <2> QED BY <2>1 DEF Waiting, InFlight
<1>4. Range(down) = {} /\ \A S : <<>> \in Seq(S) BY <1>1, FewMessages
<1>5. WritesTypeOK BY <1>1, <1>4 DEF WritesTypeOK, Buffers
<1>6. InOrder
  <2>1. \A S : Below(S, {}) BY DEF Below
  <2> QED BY <1>1, <1>2, <2>1 DEF InOrder
<1>7. BufferFollows BY <1>1, <1>2, <1>3 DEF BufferFollows, Below
<1>8. AnswersAreRight BY <1>1, <1>2, <1>4 DEF AnswersAreRight, NoBatch
<1>9. TokensAreRight BY <1>1 DEF TokensAreRight
<1>10. NothingIsLost
  <2>1. 1..drawn = {} BY <1>1
  <2> QED BY <1>2, <2>1 DEF NothingIsLost
<1> QED BY <1>5, <1>6, <1>7, <1>8, <1>9, <1>10 DEF SendInv

LEMMA StutterKeeps == ASSUME SendInv, UNCHANGED vars PROVE SendInv'
<1>1. UNCHANGED <<guarded, link, conn, paused, validated, buffer, challenged, undo, again, drawn,
                  abandoned, up, down, closed, session, log, refused, others>>
  BY DEF vars, connection, turnstile, tab, server
<1>2. SameWrites(up, up') BY <1>1 DEF SameWrites
<1> QED BY <1>1, <1>2, RequestKeeps DEF SendInv, WritesTypeOK, TokensAreRight

LEMMA NextKeeps == ASSUME SendInv, Strict, [Next]_vars PROVE SendInv'
<1>1. CASE DrawAndSend BY <1>1, DrawAndSendKeeps
<1>2. CASE Pump BY <1>2, PumpKeeps
<1>3. CASE PauseEnds BY <1>3, PauseEndsKeeps
<1>4. CASE PressUndo BY <1>4, PressUndoKeeps
<1>5. CASE AskToken BY <1>5, AskTokenKeeps
<1>6. CASE ValidationEnds \/ ServerValidationEnds BY <1>6, ValidationEndsKeeps
<1>7. CASE TabReceives
  BY <1>7, OwnBroadcastKeeps, OtherBroadcastKeeps, ReplayKeeps, MutationRejectedKeeps,
     RateLimitedKeeps, TurnstileAnswerKeeps, UndoAnswerKeeps DEF TabReceives
<1>8. CASE Disconnected BY <1>8, DisconnectedKeeps
<1>9. CASE Reconnect BY <1>9, ReconnectKeeps
<1>10. CASE ServerReceives
  BY <1>10, ServerGetsWriteKeeps, ServerGetsUndoKeeps, VerifyTokenKeeps, LimitKeeps DEF ServerReceives
<1>11. CASE Commit BY <1>11, CommitWriteKeeps, CommitUndoKeeps DEF Commit
<1>12. CASE OthersEdit BY <1>12, OthersEditKeeps
<1>13. CASE UNCHANGED vars BY <1>13, StutterKeeps
<1> QED
  BY <1>1, <1>2, <1>3, <1>4, <1>5, <1>6, <1>7, <1>8, <1>9, <1>10, <1>11, <1>12, <1>13 DEF Next

LEMMA InOrderWhenInvariant == SendInv => EditsArriveOnceInOrder
<1> SUFFICES ASSUME SendInv PROVE EditsArriveOnceInOrder OBVIOUS
<1>1. MineGrow(log) /\ 1..drawn \subseteq Committed \union WriteNames(up) \union NamesIn(buffer)
                          \union EditNames(challenged) \union refused \union abandoned
  BY DEF SendInv, InOrder, NothingIsLost
<1>2. MineIn(log) \subseteq {e.n : e \in Range(log)} BY DEF MineIn, Range
<1>3. WriteNames(up) \union WriteNames(session) \subseteq {e.n : e \in OnTheWay}
  BY DEF WriteNames, OnTheWay, EditsIn
<1>4. EditNames(challenged) \subseteq {e.n : e \in Range(challenged)} BY DEF EditNames, Range
<1>5. {e.n : e \in Range(log) \cup OnTheWay} = {e.n : e \in Range(log)} \union {e.n : e \in OnTheWay}
  OBVIOUS
<1>6. 1..drawn \subseteq {e.n : e \in Range(log) \cup OnTheWay} \cup NamesIn(buffer)
                          \cup {e.n : e \in Range(challenged)} \cup refused \cup abandoned
  BY <1>1, <1>2, <1>3, <1>4, <1>5 DEF Committed
<1> QED BY <1>1, <1>6 DEF EditsArriveOnceInOrder, MineGrow

\* Whatever the connection, the rate limits, the Turnstile and other users do,
\* what waits, what is on its way and what the server has of a tab's edits stay
\* in order, and what the tab believes of its buffer is so or will be answered.
THEOREM BufferStaysInOrder == ASSUME Strict PROVE Spec => []SendInv
<1>1. Init => SendInv BY InitSends
<1>2. SendInv /\ [Next]_vars => SendInv' BY NextKeeps
<1> QED BY <1>1, <1>2, PTL DEF Spec

\* The server accepts the edits a tab draws in the order they were drawn and
\* each once, although bufferedWrites are sent again after a rate limit and
\* those that wait for a Turnstile token are sent late; and every edit that was
\* drawn is accepted, refused, still on its way or given up with the connection.
THEOREM EditsArriveInOrder == ASSUME Strict PROVE Spec => []EditsArriveOnceInOrder
<1>1. SendInv => EditsArriveOnceInOrder BY InOrderWhenInvariant
<1> QED BY <1>1, BufferStaysInOrder, PTL
=============================================================================
