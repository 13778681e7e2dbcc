------------------------- MODULE BoardFollowProofs -------------------------
(***************************************************************************)
(* What a tab draws and what it is sent, for any number of tabs, edits,    *)
(* connections and faults: a tab shows the board as it was after some      *)
(* edit, with edits of its own ahead of their turn, and while it is        *)
(* connected what it has drawn, what it has queued and what is on the wire *)
(* lead up to the latest edit.  (Not a tab whose ban has ended, nor one    *)
(* that has kept a drain loop of an earlier connection: BoardReplay_       *)
(* stale_loops.)                                                           *)
(*                                                                         *)
(* And the log it is sent from: a baseline that the server has served and  *)
(* still pins can be replayed from, on a board that is never cleared.  (A  *)
(* cleared board has no file, which is served as baseline 0 whatever the   *)
(* log still holds: README, section 12.)                                   *)
(***************************************************************************)
EXTENDS BoardReplay, SequenceLemmas

-----------------------------------------------------------------------------
(* Types *)

Messages ==
  {m \in [kind : {"batch", "live"}, from : Nat, to : Nat, source : Conn \union {None},
           mutation : Nat] :
     m.from <= m.to /\ (m.kind = "live" => m.to = m.from + 1)}
Loops  == [phase : {"next", "draw", "waiting", "drawn"}, kind : {"batch", "live"},
           at : Nat, to : Nat]
Starts == [stage : {"ask", "stream", "auth"}, base : Nat, reuse : Conn \union {None}]
Connections == [state : {"closed", "connecting", "refused", "failed", "open", "lost"},
                base : Nat, wire : Seq(Messages), up : Seq(Nat)]
Places == [edit : Nat, own : BOOLEAN]
Tabs ==
  [view : Seq(Places), seq : Nat, awaiting : BOOLEAN, refresh : BOOLEAN,
   queue : Seq(Messages), processing : BOOLEAN, loops : Seq(Loops), pending : Seq(Nat),
   mounted : BOOLEAN, socket : Conn \union {None}, opened : BOOLEAN,
   starts : Seq(Starts), timers : Nat, access : {"none", "armed", "past"},
   overtaken : BOOLEAN]

ReplayTypeOK ==
  /\ latestSeq \in Nat /\ storedSeq \in Nat
  /\ conn \in [Client -> [Conn -> Connections]]
  /\ client \in [Client -> Tabs]

-----------------------------------------------------------------------------
(* What a tab draws *)

\* The places of the tab's own edits that have no number yet.
Open(v) == {p \in DOMAIN v : v[p].edit = None}

\* View v shows the edits up to n, each once; the tab's own may be ahead of
\* their turn, and get their numbers in the order they were drawn in.
Shows(v, n) ==
  /\ \A p \in DOMAIN v : v[p].edit <= n /\ (v[p].edit = None => v[p] = Sent)
  /\ \A m \in 1..n : \E p \in DOMAIN v : v[p].edit = m
  /\ \A p, q \in DOMAIN v : p < q =>
       /\ (v[p].edit = None /\ v[q].edit # None) => ~v[q].own
       /\ (v[p].edit # None /\ v[q].edit # None) =>
            \/ v[p].edit < v[q].edit
            \/ v[p].edit > v[q].edit /\ v[p].own /\ ~v[q].own

\* The edit up to which tab t has drawn: its loop has authoritativeSeq to set.
Showing(t) == IF t.loops # << >> /\ t.loops[1].phase = "drawn" THEN t.loops[1].at ELSE t.seq

\* The loop of tab t, of which there is one at most, draws the next edit, or
\* waits for its tool.
LoopOK(t, l) ==
  /\ l.phase = "waiting" => t.pending = <<l.at>>
  /\ l.phase # "waiting" => t.pending = << >>
  /\ l.phase # "next" => /\ l.at = t.seq + 1 /\ l.at <= l.to + 1
                         /\ l.kind = "live" => l.at = l.to
  /\ l.phase \in {"waiting", "drawn"} => l.at <= l.to

DrawsInOrder(t) ==
  /\ Shows(t.view, Showing(t))
  /\ Len(t.loops) <= 1 /\ (t.loops # << >> => t.processing)
  /\ t.loops = << >> => t.pending = << >>
  /\ \A i \in DOMAIN t.loops : LoopOK(t, t.loops[i])

-----------------------------------------------------------------------------
(* What a tab is sent *)

\* The edit a tab is at when its loop has done what it has taken.
Reaches(t) == IF t.loops # << >> /\ t.loops[1].phase # "next" THEN t.loops[1].to ELSE t.seq

\* Messages ms lead from edit n to edit e, each from where the last one ends.
Linked(ms, n)   == \A i \in DOMAIN ms : ms[i].from = IF i = 1 THEN n ELSE ms[i - 1].to
End(ms, n)      == IF ms = << >> THEN n ELSE ms[Len(ms)].to
Leads(ms, n, e) == Linked(ms, n) /\ End(ms, n) = e

\* Message m answers an edit sent by connection k; one of ms answers place p.
Answers(k, m)       == m.kind = "live" /\ m.source # None /\ m.source = k
HasAnswer(k, ms, p) == \E i \in DOMAIN ms : Answers(k, ms[i]) /\ ms[i].mutation = p

\* The answers among ms come in the order of the places Z that wait for one ...
InTurn(k, Z, ms) ==
  \A i \in DOMAIN ms : Answers(k, ms[i]) =>
    /\ ms[i].mutation \in Z
    /\ \A p \in Z : p < ms[i].mutation <=>
         \E j \in DOMAIN ms : j < i /\ Answers(k, ms[j]) /\ ms[j].mutation = p

\* ... and every place without an answer is on its way to the server, in order.
OnTheirWay(k, Z, ms, up) ==
  /\ \A i \in DOMAIN up :
       /\ up[i] \in Z
       /\ \A p \in Z : p < up[i] <=> HasAnswer(k, ms, p) \/ \E j \in DOMAIN up : j < i /\ up[j] = p
  /\ \A p \in Z : HasAnswer(k, ms, p) \/ \E j \in DOMAIN up : up[j] = p

\* Tab t has no connection and one way to get one: a timer, or a start.
IsOffline(t, xs) ==
  /\ \A k \in Conn : xs[k] = Unused
  /\ t.queue = << >> /\ t.loops = << >>
  /\ t.refresh \/ Open(t.view) = {}
  /\ \/ t.starts = << >> /\ t.timers = 1
     \/ /\ Len(t.starts) = 1 /\ t.timers = 0 /\ t.starts[1].reuse = t.socket
        /\ t.starts[1].stage = "auth" => t.starts[1].base = t.seq /\ Open(t.view) = {}

\* Tab t has one connection x, which nothing is about to replace; what has been
\* received by it and what is under way begins where the tab is.
IsOnline(t, xs, latest) ==
  /\ t.socket \in Conn /\ t.starts = << >> /\ t.timers = 0
  /\ \A k \in Conn \ {t.socket} : xs[k] = Unused
  /\ LET x == xs[t.socket] IN
       \/ /\ x.state \in {"connecting", "refused", "failed"} /\ x.base = t.seq
          /\ x.wire = << >> /\ x.up = << >> /\ t.queue = << >> /\ t.loops = << >>
          /\ Open(t.view) = {}
       \/ /\ x.state = "lost" /\ x.wire = << >> /\ Linked(t.queue, Reaches(t))
          /\ InTurn(t.socket, Open(t.view), t.queue)
       \/ /\ x.state = "open" /\ Leads(t.queue \o x.wire, Reaches(t), latest)
          /\ InTurn(t.socket, Open(t.view), t.queue \o x.wire)
          /\ OnTheirWay(t.socket, Open(t.view), t.queue \o x.wire, x.up)

Follows(t, xs, latest) == IsOffline(t, xs) \/ IsOnline(t, xs, latest)

\* The inductive invariant behind ShowsAPrefix and StreamIsComplete.
FollowInv ==
  /\ ReplayTypeOK
  /\ \A c \in Client : Undisturbed(client[c]) =>
       DrawsInOrder(client[c]) /\ Follows(client[c], conn[c], latestSeq)

-----------------------------------------------------------------------------
(* Sequences of edits and of messages *)

\* A sequence of one element, and what is left without it.
LEMMA OneElement ==
  ASSUME NEW S, NEW x \in S
  PROVE  <<x>> \in Seq(S) /\ Len(<<x>>) = 1 /\ <<x>>[1] = x /\ DOMAIN <<x>> = 1..1
  OBVIOUS

LEMMA AppendToNone ==
  ASSUME NEW S, NEW x \in S
  PROVE  Append(<< >>, x) = <<x>>
<1>1. << >> \in Seq(S) BY EmptySeq
<1>2. Append(<< >>, x) = << >> \o <<x>> BY <1>1, AppendIsConcat
<1>3. <<x>> \in Seq(S) BY OneElement
<1> QED BY <1>2, <1>3, ConcatEmptySeq

LEMMA RemoveAtType ==
  ASSUME NEW S, NEW s \in Seq(S), NEW i \in DOMAIN s
  PROVE  RemoveAt(s, i) \in Seq(S) /\ (Len(s) = 1 => RemoveAt(s, i) = << >>)
<1>1. Len(s) \in Nat /\ DOMAIN s = 1..Len(s) BY LenProperties
<1>2. \A k \in 1..Len(s) : s[k] \in S BY ElementOfSeq
<1>3. /\ SubSeq(s, 1, i - 1) \in Seq(S)
      /\ Len(SubSeq(s, 1, i - 1)) = IF 1 <= i - 1 THEN i - 1 - 1 + 1 ELSE 0
  <2>1. 1 \in Int /\ i - 1 \in Int /\ \A k \in 1..i - 1 : s[k] \in S BY <1>1, <1>2
  <2> QED BY <2>1, SubSeqProperties
<1>4. /\ SubSeq(s, i + 1, Len(s)) \in Seq(S)
      /\ Len(SubSeq(s, i + 1, Len(s))) = IF i + 1 <= Len(s) THEN Len(s) - (i + 1) + 1 ELSE 0
  <2>1. i + 1 \in Int /\ Len(s) \in Int /\ \A k \in i + 1..Len(s) : s[k] \in S BY <1>1, <1>2
  <2> QED BY <2>1, SubSeqProperties
<1>5. /\ RemoveAt(s, i) \in Seq(S)
      /\ Len(RemoveAt(s, i)) = Len(SubSeq(s, 1, i - 1)) + Len(SubSeq(s, i + 1, Len(s)))
  BY <1>3, <1>4, ConcatProperties DEF RemoveAt
<1>6. ASSUME Len(s) = 1 PROVE RemoveAt(s, i) = << >>
  <2>1. i = 1 BY <1>1, <1>6
  <2>2. Len(RemoveAt(s, i)) = 0 BY <1>3, <1>4, <1>5, <1>6, <2>1
  <2> QED BY <1>5, <2>2, EmptySeq
<1> QED BY <1>5, <1>6

\* A sequence of one element at most, looked at through its first place.
LEMMA AtMostOne ==
  ASSUME NEW S, NEW s \in Seq(S), Len(s) <= 1
  PROVE  /\ \A i \in DOMAIN s : i = 1 /\ Len(s) = 1
         /\ s # << >> => 1 \in DOMAIN s /\ s[1] \in S
         /\ \A x \in S : s # << >> =>
              /\ [s EXCEPT ![1] = x] \in Seq(S) /\ Len([s EXCEPT ![1] = x]) = 1
              /\ [s EXCEPT ![1] = x][1] = x
<1>1. Len(s) \in Nat /\ DOMAIN s = 1..Len(s) BY LenProperties
<1>2. s # << >> => Len(s) = 1 BY <1>1, EmptySeq
<1>3. ASSUME s # << >>, NEW x \in S
      PROVE  /\ [s EXCEPT ![1] = x] \in Seq(S) /\ Len([s EXCEPT ![1] = x]) = 1
             /\ [s EXCEPT ![1] = x][1] = x
  BY <1>2, <1>3, ExceptSeq
<1> QED BY <1>1, <1>2, <1>3, ElementOfSeq

\* A message leaves the head of the wire for the end of the queue ...
LEMMA MessageArrives ==
  ASSUME NEW q \in Seq(Messages), NEW w \in Seq(Messages), w # << >>
  PROVE  /\ Head(w) \in Messages /\ Tail(w) \in Seq(Messages)
         /\ Append(q, Head(w)) \in Seq(Messages)
         /\ Append(q, Head(w)) \o Tail(w) = q \o w
<1>1. Head(w) \in Messages /\ Tail(w) \in Seq(Messages) BY HeadTailProperties
<1>2. <<Head(w)>> \in Seq(Messages) BY <1>1, OneElement
<1>3. w = <<Head(w)>> \o Tail(w)
  <2>1. Len(w) \in Nat \ {0} BY EmptySeq
  <2>2. /\ Len(Tail(w)) = Len(w) - 1
        /\ \A i \in 1..Len(Tail(w)) : Tail(w)[i] = w[i + 1]
    BY HeadTailProperties
  <2> DEFINE u == <<Head(w)>> \o Tail(w)
  <2>3. /\ u \in Seq(Messages) /\ Len(u) = 1 + Len(Tail(w))
        /\ \A i \in 1..1 + Len(Tail(w)) :
             u[i] = IF i <= 1 THEN <<Head(w)>>[i] ELSE Tail(w)[i - 1]
    <3>1. Len(<<Head(w)>>) = 1 BY <1>1, OneElement
    <3> QED BY <1>1, <1>2, <3>1, ConcatProperties
  <2>4. <<Head(w)>>[1] = w[1] BY <2>1
  <2>5. \A i \in 1..Len(w) : u[i] = w[i] BY <2>1, <2>2, <2>3, <2>4
  <2>6. Len(u) = Len(w) BY <2>1, <2>2, <2>3
  <2> HIDE DEF u
  <2> QED BY <2>3, <2>5, <2>6, SeqEqual DEF u
<1>4. Append(q, Head(w)) = q \o <<Head(w)>> BY <1>1, AppendIsConcat
<1>5. (q \o <<Head(w)>>) \o Tail(w) = q \o (<<Head(w)>> \o Tail(w))
  BY <1>1, <1>2, ConcatAssociative
<1>6. Append(q, Head(w)) \in Seq(Messages) BY <1>1, AppendProperties
<1> QED BY <1>1, <1>3, <1>4, <1>5, <1>6

\* ... is taken from the head of the queue ...
LEMMA MessageIsTaken ==
  ASSUME NEW q \in Seq(Messages), NEW w \in Seq(Messages), q # << >>
  PROVE  Head(q \o w) = Head(q) /\ Tail(q \o w) = Tail(q) \o w /\ q \o w # << >>
<1>1. /\ Len(q) \in Nat \ {0} /\ Len(w) \in Nat BY EmptySeq, LenProperties
<1> DEFINE u == q \o w
<1>2. /\ u \in Seq(Messages) /\ Len(u) = Len(q) + Len(w)
      /\ \A i \in 1..Len(q) + Len(w) : u[i] = IF i <= Len(q) THEN q[i] ELSE w[i - Len(q)]
  BY ConcatProperties
<1>3. u # << >> BY <1>1, <1>2, EmptySeq
<1>4. Head(u) = u[1] /\ Head(q) = q[1] /\ u[1] = q[1] BY <1>1, <1>2
<1>5. /\ Tail(u) \in Seq(Messages) /\ Len(Tail(u)) = Len(u) - 1
      /\ \A i \in 1..Len(Tail(u)) : Tail(u)[i] = u[i + 1]
  <2> HIDE DEF u
  <2> QED BY <1>2, <1>3, HeadTailProperties
<1>6. /\ Tail(q) \in Seq(Messages) /\ Len(Tail(q)) = Len(q) - 1
      /\ \A i \in 1..Len(Tail(q)) : Tail(q)[i] = q[i + 1]
  BY HeadTailProperties
<1> DEFINE v == Tail(q) \o w
<1>7. /\ v \in Seq(Messages) /\ Len(v) = Len(q) - 1 + Len(w)
      /\ \A i \in 1..Len(q) - 1 + Len(w) :
           v[i] = IF i <= Len(q) - 1 THEN Tail(q)[i] ELSE w[i - (Len(q) - 1)]
  <2>1. /\ v \in Seq(Messages) /\ Len(v) = Len(Tail(q)) + Len(w)
        /\ \A i \in 1..Len(Tail(q)) + Len(w) :
             v[i] = IF i <= Len(Tail(q)) THEN Tail(q)[i] ELSE w[i - Len(Tail(q))]
    BY <1>6, ConcatProperties
  <2> QED BY <1>6, <2>1
<1> HIDE DEF u, v
<1>8. ASSUME NEW i \in 1..Len(v) PROVE Tail(u)[i] = v[i]
  <2>1. i \in 1..Len(Tail(u)) /\ i + 1 \in 1..Len(q) + Len(w) /\ i \in 1..Len(q) - 1 + Len(w)
    BY <1>1, <1>2, <1>5, <1>7
  <2>2. Tail(u)[i] = IF i + 1 <= Len(q) THEN q[i + 1] ELSE w[(i + 1) - Len(q)]
    BY <1>2, <1>5, <2>1
  <2>3. v[i] = IF i <= Len(q) - 1 THEN Tail(q)[i] ELSE w[i - (Len(q) - 1)] BY <1>7, <2>1
  <2>4. CASE i + 1 <= Len(q)
    <3>1. i <= Len(q) - 1 /\ i \in 1..Len(Tail(q)) BY <1>1, <1>6, <2>1, <2>4
    <3> QED BY <1>6, <2>2, <2>3, <2>4, <3>1
  <2>5. CASE ~ (i + 1 <= Len(q))
    <3>1. ~ (i <= Len(q) - 1) /\ (i + 1) - Len(q) = i - (Len(q) - 1) BY <1>1, <2>1, <2>5
    <3> QED BY <2>2, <2>3, <2>5, <3>1
  <2> QED BY <2>4, <2>5
<1>9. Len(Tail(u)) = Len(v) BY <1>1, <1>2, <1>5, <1>7
<1>10. Tail(u) = v BY <1>5, <1>7, <1>8, <1>9, SeqEqual
<1> QED BY <1>3, <1>4, <1>10 DEF u, v

\* ... and has been sent to the end of the wire.
LEMMA MessageIsSent ==
  ASSUME NEW q \in Seq(Messages), NEW w \in Seq(Messages), NEW m \in Messages
  PROVE  q \o w \in Seq(Messages) /\ q \o Append(w, m) = Append(q \o w, m)
<1>1. q \o w \in Seq(Messages) BY ConcatProperties
<1>2. Append(w, m) = w \o <<m>> /\ <<m>> \in Seq(Messages) BY AppendIsConcat, OneElement
<1>3. Append(q \o w, m) = (q \o w) \o <<m>> BY <1>1, AppendIsConcat
<1> QED BY <1>1, <1>2, <1>3, ConcatAssociative

\* The first message begins where the tab is, and the rest where it ends.
LEMMA LinkedTail ==
  ASSUME NEW ms \in Seq(Messages), ms # << >>, NEW n, Linked(ms, n)
  PROVE  /\ Head(ms).from = n /\ Linked(Tail(ms), Head(ms).to)
         /\ End(Tail(ms), Head(ms).to) = End(ms, n)
<1>1. Len(ms) \in Nat \ {0} /\ DOMAIN ms = 1..Len(ms) BY EmptySeq, LenProperties
<1> DEFINE u == Tail(ms)
<1>2. u \in Seq(Messages) /\ Len(u) = Len(ms) - 1 /\ \A i \in 1..Len(u) : u[i] = ms[i + 1]
  BY HeadTailProperties
<1>3. DOMAIN u = 1..Len(ms) - 1 BY <1>2, LenProperties
<1>4. Head(ms) = ms[1] /\ 1 \in DOMAIN ms BY <1>1
<1> HIDE DEF u
<1>5. (u = << >>) <=> (Len(ms) = 1)
  <2>1. Len(<< >>) = 0 /\ (u # << >> => Len(u) # 0) BY <1>2, EmptySeq
  <2> QED BY <1>1, <1>2, <2>1
<1>6. Head(ms).from = n BY <1>4 DEF Linked
<1>7. ASSUME NEW i \in DOMAIN u
      PROVE  u[i].from = IF i = 1 THEN Head(ms).to ELSE u[i - 1].to
  <2>1. i + 1 \in DOMAIN ms /\ i + 1 # 1 /\ u[i] = ms[i + 1] BY <1>1, <1>2, <1>3
  <2>2. u[i].from = ms[(i + 1) - 1].to BY <2>1 DEF Linked
  <2>3. (i + 1) - 1 = i /\ i \in 1..Len(ms) - 1 BY <1>3
  <2>4. CASE i = 1 BY <1>4, <2>2, <2>3, <2>4
  <2>5. CASE i # 1
    <3>1. i - 1 \in 1..Len(u) /\ (i - 1) + 1 = i BY <1>2, <2>3, <2>5, <1>1
    <3>2. u[i - 1] = ms[i] BY <1>2, <3>1
    <3> QED BY <2>2, <2>3, <2>5, <3>2
  <2> QED BY <2>4, <2>5
<1>8. End(u, Head(ms).to) = End(ms, n)
  <2>1. CASE Len(ms) = 1 BY <1>4, <1>5, <2>1 DEF End
  <2>2. CASE Len(ms) # 1
    <3>1. Len(u) \in 1..Len(u) /\ Len(u) + 1 = Len(ms) BY <1>1, <1>2, <2>2
    <3>2. u[Len(u)] = ms[Len(ms)] BY <1>2, <3>1
    <3> QED BY <1>5, <2>2, <3>2 DEF End
  <2> QED BY <2>1, <2>2
<1> QED BY <1>6, <1>7, <1>8 DEF Linked, u

LEMMA LeadsAppend ==
  ASSUME NEW ms \in Seq(Messages), NEW m \in Messages, NEW n, Leads(ms, n, m.from)
  PROVE  Leads(Append(ms, m), n, m.to)
<1>1. Len(ms) \in Nat /\ DOMAIN ms = 1..Len(ms) BY LenProperties
<1> DEFINE u == Append(ms, m)
<1>2. /\ u \in Seq(Messages) /\ u # << >> /\ Len(u) = Len(ms) + 1
      /\ \A i \in 1..Len(ms) : u[i] = ms[i]
      /\ u[Len(ms) + 1] = m
  BY AppendProperties
<1>3. DOMAIN u = 1..Len(ms) + 1 BY <1>2, LenProperties
<1>4. Len(ms) = 0 <=> ms = << >> BY EmptySeq
<1> HIDE DEF u
<1>5. ASSUME NEW i \in DOMAIN u PROVE u[i].from = IF i = 1 THEN n ELSE u[i - 1].to
  <2>1. CASE i = Len(ms) + 1
    <3>1. u[i].from = End(ms, n) BY <1>2, <2>1 DEF Leads
    <3>2. CASE ms = << >> BY <1>4, <2>1, <3>1, <3>2 DEF End
    <3>3. CASE ms # << >>
      <4>1. i # 1 /\ i - 1 = Len(ms) /\ Len(ms) \in 1..Len(ms) BY <1>1, <1>4, <2>1, <3>3
      <4>2. u[i - 1] = ms[Len(ms)] BY <1>2, <4>1
      <4> QED BY <3>1, <3>3, <4>1, <4>2 DEF End
    <3> QED BY <3>2, <3>3
  <2>2. CASE i # Len(ms) + 1
    <3>1. i \in DOMAIN ms /\ u[i] = ms[i] BY <1>1, <1>2, <1>3, <2>2
    <3>2. ms[i].from = IF i = 1 THEN n ELSE ms[i - 1].to BY <3>1 DEF Leads, Linked
    <3>3. i # 1 => i - 1 \in 1..Len(ms) BY <1>1, <3>1
    <3> QED BY <1>2, <3>1, <3>2, <3>3
  <2> QED BY <2>1, <2>2
<1>6. End(u, n) = m.to BY <1>2 DEF End
<1> QED BY <1>5, <1>6 DEF Leads, Linked, u

LEMMA LinkedFirst ==
  ASSUME NEW q \in Seq(Messages), NEW w \in Seq(Messages), NEW n, Linked(q \o w, n)
  PROVE  Linked(q, n)
<1>1. /\ Len(q) \in Nat /\ Len(w) \in Nat /\ DOMAIN q = 1..Len(q) BY LenProperties
<1> DEFINE u == q \o w
<1>2. /\ u \in Seq(Messages) /\ Len(u) = Len(q) + Len(w)
      /\ \A i \in 1..Len(q) + Len(w) : u[i] = IF i <= Len(q) THEN q[i] ELSE w[i - Len(q)]
  BY ConcatProperties
<1>3. DOMAIN u = 1..Len(q) + Len(w) BY <1>2, LenProperties
<1>4. Linked(u, n) OBVIOUS
<1> HIDE DEF u
<1>5. \A i \in 1..Len(q) : i \in DOMAIN u /\ u[i] = q[i] BY <1>1, <1>2, <1>3
<1>6. \A i \in 1..Len(q) : i # 1 => i - 1 \in 1..Len(q) BY <1>1
<1> QED BY <1>1, <1>4, <1>5, <1>6 DEF Linked

-----------------------------------------------------------------------------
(* The tab's own edits, on their way there and back *)

\* The messages of a sequence without its first, and with one more.
LEMMA TailOfMessages ==
  ASSUME NEW ms \in Seq(Messages), ms # << >>
  PROVE  /\ Len(ms) \in Nat \ {0} /\ DOMAIN ms = 1..Len(ms) /\ Head(ms) = ms[1]
         /\ Tail(ms) \in Seq(Messages) /\ DOMAIN Tail(ms) = 1..Len(ms) - 1
         /\ \A i \in 1..Len(ms) - 1 : Tail(ms)[i] = ms[i + 1]
<1>1. Len(ms) \in Nat \ {0} /\ DOMAIN ms = 1..Len(ms) BY EmptySeq, LenProperties
<1>2. /\ Tail(ms) \in Seq(Messages) /\ Len(Tail(ms)) = Len(ms) - 1
      /\ \A i \in 1..Len(Tail(ms)) : Tail(ms)[i] = ms[i + 1]
  BY HeadTailProperties
<1>3. DOMAIN Tail(ms) = 1..Len(ms) - 1 BY <1>2, LenProperties
<1>4. Head(ms) = ms[1] BY <1>1
<1> QED BY <1>1, <1>2, <1>3, <1>4

LEMMA AppendOfMessages ==
  ASSUME NEW ms \in Seq(Messages), NEW m \in Messages
  PROVE  /\ Len(ms) \in Nat /\ DOMAIN ms = 1..Len(ms)
         /\ Append(ms, m) \in Seq(Messages) /\ DOMAIN Append(ms, m) = 1..Len(ms) + 1
         /\ \A i \in 1..Len(ms) : Append(ms, m)[i] = ms[i]
         /\ Append(ms, m)[Len(ms) + 1] = m
<1>1. Len(ms) \in Nat /\ DOMAIN ms = 1..Len(ms) BY LenProperties
<1>2. /\ Append(ms, m) \in Seq(Messages) /\ Len(Append(ms, m)) = Len(ms) + 1
      /\ \A i \in 1..Len(ms) : Append(ms, m)[i] = ms[i]
      /\ Append(ms, m)[Len(ms) + 1] = m
  BY AppendProperties
<1>3. DOMAIN Append(ms, m) = 1..Len(ms) + 1 BY <1>2, LenProperties
<1> QED BY <1>1, <1>2, <1>3

LEMMA AnswerInTail ==
  ASSUME NEW k, NEW ms \in Seq(Messages), ms # << >>, NEW p
  PROVE  HasAnswer(k, ms, p) <=> \/ Answers(k, Head(ms)) /\ Head(ms).mutation = p
                                 \/ HasAnswer(k, Tail(ms), p)
<1> DEFINE u == Tail(ms)
           n == Len(ms)
<1>1. /\ n \in Nat \ {0} /\ DOMAIN ms = 1..n /\ Head(ms) = ms[1]
      /\ DOMAIN u = 1..n - 1 /\ \A i \in 1..n - 1 : u[i] = ms[i + 1]
  BY TailOfMessages
<1> HIDE DEF u, n
<1>2. ASSUME NEW i \in DOMAIN ms, Answers(k, ms[i]), ms[i].mutation = p
      PROVE  (Answers(k, Head(ms)) /\ Head(ms).mutation = p) \/ HasAnswer(k, u, p)
  <2>1. CASE i = 1 BY <1>1, <1>2, <2>1
  <2>2. CASE i # 1
    <3>1. i - 1 \in DOMAIN u /\ (i - 1) + 1 = i BY <1>1, <2>2
    <3>2. u[i - 1] = ms[i] BY <1>1, <3>1
    <3> QED BY <1>2, <3>1, <3>2 DEF HasAnswer
  <2> QED BY <2>1, <2>2
<1>3. ASSUME NEW i \in DOMAIN u, Answers(k, u[i]), u[i].mutation = p
      PROVE  HasAnswer(k, ms, p)
  <2>1. i + 1 \in DOMAIN ms /\ u[i] = ms[i + 1] BY <1>1
  <2> QED BY <1>3, <2>1 DEF HasAnswer
<1>4. 1 \in DOMAIN ms BY <1>1
<1> QED BY <1>1, <1>2, <1>3, <1>4 DEF HasAnswer, u

LEMMA AnswerInAppend ==
  ASSUME NEW k, NEW ms \in Seq(Messages), NEW m \in Messages, NEW p
  PROVE  HasAnswer(k, Append(ms, m), p) <=> \/ Answers(k, m) /\ m.mutation = p
                                            \/ HasAnswer(k, ms, p)
<1> DEFINE u == Append(ms, m)
           n == Len(ms)
<1>1. /\ n \in Nat /\ DOMAIN ms = 1..n /\ DOMAIN u = 1..n + 1
      /\ \A i \in 1..n : u[i] = ms[i]
      /\ u[n + 1] = m
  BY AppendOfMessages
<1> HIDE DEF u, n
<1>2. \A i \in DOMAIN u : i \in DOMAIN ms \/ i = n + 1 BY <1>1
<1>3. \A i \in DOMAIN ms : i \in DOMAIN u BY <1>1
<1>4. n + 1 \in DOMAIN u BY <1>1
<1> QED BY <1>1, <1>2, <1>3, <1>4 DEF HasAnswer, u

\* The first message is taken: somebody else's ...
LEMMA OthersTaken ==
  ASSUME NEW k, NEW Z, NEW ms \in Seq(Messages), ms # << >>, ~Answers(k, Head(ms)),
         InTurn(k, Z, ms)
  PROVE  InTurn(k, Z, Tail(ms))
<1> DEFINE u == Tail(ms)
           n == Len(ms)
<1>1. /\ n \in Nat \ {0} /\ DOMAIN ms = 1..n /\ Head(ms) = ms[1]
      /\ DOMAIN u = 1..n - 1 /\ \A i \in 1..n - 1 : u[i] = ms[i + 1]
  BY TailOfMessages
<1> HIDE DEF u, n
<1> SUFFICES ASSUME NEW i \in DOMAIN u, Answers(k, u[i])
             PROVE  /\ u[i].mutation \in Z
                    /\ \A p \in Z : p < u[i].mutation <=>
                         \E j \in DOMAIN u : j < i /\ Answers(k, u[j]) /\ u[j].mutation = p
  BY DEF InTurn, u
<1>2. i + 1 \in DOMAIN ms /\ u[i] = ms[i + 1] BY <1>1
<1>3. /\ u[i].mutation \in Z
      /\ \A p \in Z : p < u[i].mutation <=>
           \E j \in DOMAIN ms : j < i + 1 /\ Answers(k, ms[j]) /\ ms[j].mutation = p
  BY <1>2 DEF InTurn
<1>4. ASSUME NEW p \in Z
      PROVE  (\E j \in DOMAIN ms : j < i + 1 /\ Answers(k, ms[j]) /\ ms[j].mutation = p)
               <=> (\E j \in DOMAIN u : j < i /\ Answers(k, u[j]) /\ u[j].mutation = p)
  <2>1. ASSUME NEW j \in DOMAIN ms, j < i + 1, Answers(k, ms[j]), ms[j].mutation = p
        PROVE  \E h \in DOMAIN u : h < i /\ Answers(k, u[h]) /\ u[h].mutation = p
    <3>1. j # 1 BY <1>1, <2>1
    <3>2. j - 1 \in DOMAIN u /\ (j - 1) + 1 = j /\ j - 1 < i BY <1>1, <2>1, <3>1
    <3>3. u[j - 1] = ms[j] BY <1>1, <3>2
    <3> QED BY <2>1, <3>2, <3>3
  <2>2. ASSUME NEW j \in DOMAIN u, j < i, Answers(k, u[j]), u[j].mutation = p
        PROVE  \E h \in DOMAIN ms : h < i + 1 /\ Answers(k, ms[h]) /\ ms[h].mutation = p
    <3>1. j + 1 \in DOMAIN ms /\ u[j] = ms[j + 1] /\ j + 1 < i + 1 BY <1>1, <2>2
    <3> QED BY <2>2, <3>1
  <2> QED BY <2>1, <2>2
<1> QED BY <1>3, <1>4

\* ... or the answer to the first place that waits for one.
LEMMA OwnTaken ==
  ASSUME NEW k, NEW Z \in SUBSET Nat, NEW ms \in Seq(Messages), ms # << >>,
         Answers(k, Head(ms)), InTurn(k, Z, ms)
  PROVE  /\ Head(ms).mutation \in Z
         /\ \A p \in Z : ~ (p < Head(ms).mutation)
         /\ InTurn(k, Z \ {Head(ms).mutation}, Tail(ms))
<1> DEFINE u == Tail(ms)
           n == Len(ms)
           id == Head(ms).mutation
<1>1. /\ n \in Nat \ {0} /\ DOMAIN ms = 1..n /\ Head(ms) = ms[1]
      /\ DOMAIN u = 1..n - 1 /\ \A i \in 1..n - 1 : u[i] = ms[i + 1]
  BY TailOfMessages
<1>2. 1 \in DOMAIN ms /\ \A j \in DOMAIN ms : ~ (j < 1) BY <1>1
<1>3. id \in Z /\ \A p \in Z : ~ (p < id) BY <1>1, <1>2 DEF InTurn
<1> HIDE DEF u, n, id
<1>4. ASSUME NEW i \in DOMAIN u, Answers(k, u[i])
      PROVE  /\ u[i].mutation \in Z \ {id}
             /\ \A p \in Z \ {id} : p < u[i].mutation <=>
                  \E j \in DOMAIN u : j < i /\ Answers(k, u[j]) /\ u[j].mutation = p
  <2>2. i + 1 \in DOMAIN ms /\ u[i] = ms[i + 1] /\ 1 < i + 1 BY <1>1
  <2>3. /\ u[i].mutation \in Z
        /\ \A p \in Z : p < u[i].mutation <=>
             \E j \in DOMAIN ms : j < i + 1 /\ Answers(k, ms[j]) /\ ms[j].mutation = p
    BY <1>4, <2>2 DEF InTurn
  <2>4. id < u[i].mutation
    <3>1. Answers(k, ms[1]) /\ ms[1].mutation = id BY <1>1 DEF id
    <3> QED BY <1>2, <1>3, <2>2, <2>3, <3>1
  <2>5. u[i].mutation # id BY <1>3, <2>3, <2>4
  <2>6. ASSUME NEW p \in Z \ {id}
        PROVE  (\E j \in DOMAIN ms : j < i + 1 /\ Answers(k, ms[j]) /\ ms[j].mutation = p)
                 <=> (\E j \in DOMAIN u : j < i /\ Answers(k, u[j]) /\ u[j].mutation = p)
    <3>1. ASSUME NEW j \in DOMAIN ms, j < i + 1, Answers(k, ms[j]), ms[j].mutation = p
          PROVE  \E h \in DOMAIN u : h < i /\ Answers(k, u[h]) /\ u[h].mutation = p
      <4>1. j # 1 BY <1>1, <3>1 DEF id
      <4>2. j - 1 \in DOMAIN u /\ (j - 1) + 1 = j /\ j - 1 < i BY <1>1, <3>1, <4>1
      <4>3. u[j - 1] = ms[j] BY <1>1, <4>2
      <4> QED BY <3>1, <4>2, <4>3
    <3>2. ASSUME NEW j \in DOMAIN u, j < i, Answers(k, u[j]), u[j].mutation = p
          PROVE  \E h \in DOMAIN ms : h < i + 1 /\ Answers(k, ms[h]) /\ ms[h].mutation = p
      <4>1. j + 1 \in DOMAIN ms /\ u[j] = ms[j + 1] /\ j + 1 < i + 1 BY <1>1, <3>2
      <4> QED BY <3>2, <4>1
    <3> QED BY <3>1, <3>2
  <2> QED BY <2>3, <2>5, <2>6
<1>5. InTurn(k, Z \ {id}, u) BY <1>4 DEF InTurn
<1> QED BY <1>3, <1>5 DEF u, id

LEMMA OthersTakenOnTheirWay ==
  ASSUME NEW k, NEW Z, NEW ms \in Seq(Messages), ms # << >>, ~Answers(k, Head(ms)), NEW up,
         OnTheirWay(k, Z, ms, up)
  PROVE  OnTheirWay(k, Z, Tail(ms), up)
<1>1. \A p : HasAnswer(k, ms, p) <=> HasAnswer(k, Tail(ms), p) BY AnswerInTail
<1> QED BY <1>1 DEF OnTheirWay

LEMMA OwnTakenOnTheirWay ==
  ASSUME NEW k, NEW Z \in SUBSET Nat, NEW ms \in Seq(Messages), ms # << >>,
         Answers(k, Head(ms)), InTurn(k, Z, ms), NEW up, OnTheirWay(k, Z, ms, up)
  PROVE  OnTheirWay(k, Z \ {Head(ms).mutation}, Tail(ms), up)
<1> DEFINE id == Head(ms).mutation
           u == Tail(ms)
<1>1. \A p : HasAnswer(k, ms, p) <=> p = id \/ HasAnswer(k, u, p) BY AnswerInTail
<1>2. id \in Z BY OwnTaken
<1> HIDE DEF id, u
<1>3. ASSUME NEW i \in DOMAIN up
      PROVE  /\ up[i] \in Z \ {id}
             /\ \A p \in Z \ {id} : p < up[i] <=>
                  HasAnswer(k, u, p) \/ \E j \in DOMAIN up : j < i /\ up[j] = p
  <2>1. /\ up[i] \in Z
        /\ \A p \in Z : p < up[i] <=>
             HasAnswer(k, ms, p) \/ \E j \in DOMAIN up : j < i /\ up[j] = p
    BY DEF OnTheirWay
  <2>2. id < up[i] BY <1>1, <1>2, <2>1
  <2>3. up[i] # id BY <1>2, <2>1, <2>2
  <2> QED BY <1>1, <2>1, <2>3
<1>4. \A p \in Z \ {id} : HasAnswer(k, u, p) \/ \E j \in DOMAIN up : up[j] = p
  BY <1>1 DEF OnTheirWay
<1>5. OnTheirWay(k, Z \ {id}, u, up) BY <1>3, <1>4 DEF OnTheirWay
<1> QED BY <1>5 DEF id, u

\* One more message: somebody else's ...
LEMMA OthersSent ==
  ASSUME NEW k, NEW Z, NEW ms \in Seq(Messages), NEW m \in Messages, ~Answers(k, m), NEW up
  PROVE  /\ InTurn(k, Z, ms) => InTurn(k, Z, Append(ms, m))
         /\ OnTheirWay(k, Z, ms, up) => OnTheirWay(k, Z, Append(ms, m), up)
<1> DEFINE u == Append(ms, m)
           n == Len(ms)
<1>1. /\ n \in Nat /\ DOMAIN ms = 1..n /\ DOMAIN u = 1..n + 1
      /\ \A i \in 1..n : u[i] = ms[i]
      /\ u[n + 1] = m
  BY AppendOfMessages
<1>2. \A p : HasAnswer(k, u, p) <=> HasAnswer(k, ms, p) BY AnswerInAppend
<1> HIDE DEF u, n
<1>3. \A i \in DOMAIN u : Answers(k, u[i]) => i \in DOMAIN ms /\ u[i] = ms[i] BY <1>1
<1>4. \A i \in DOMAIN ms : i \in DOMAIN u /\ u[i] = ms[i] BY <1>1
<1>5. InTurn(k, Z, ms) => InTurn(k, Z, u) BY <1>3, <1>4 DEF InTurn
<1>6. OnTheirWay(k, Z, ms, up) => OnTheirWay(k, Z, u, up) BY <1>2 DEF OnTheirWay
<1> QED BY <1>5, <1>6 DEF u

\* ... or the answer to the first edit that is on its way to the server.
LEMMA OwnSent ==
  ASSUME NEW k, NEW Z \in SUBSET Nat, NEW ms \in Seq(Messages), NEW m \in Messages,
         NEW up \in Seq(Nat), up # << >>, Answers(k, m), m.mutation = Head(up),
         InTurn(k, Z, ms), OnTheirWay(k, Z, ms, up)
  PROVE  InTurn(k, Z, Append(ms, m)) /\ OnTheirWay(k, Z, Append(ms, m), Tail(up))
<1> DEFINE u == Append(ms, m)
           n == Len(ms)
           r == Len(up)
           v == Tail(up)
<1>1. /\ n \in Nat /\ DOMAIN ms = 1..n /\ DOMAIN u = 1..n + 1
      /\ \A i \in 1..n : u[i] = ms[i]
      /\ u[n + 1] = m
  BY AppendOfMessages
<1>2. /\ r \in Nat \ {0} /\ DOMAIN up = 1..r /\ Head(up) = up[1]
      /\ DOMAIN v = 1..r - 1 /\ \A i \in 1..r - 1 : v[i] = up[i + 1]
  <2>1. r \in Nat \ {0} /\ DOMAIN up = 1..r BY EmptySeq, LenProperties
  <2>2. v \in Seq(Nat) /\ Len(v) = r - 1 /\ \A i \in 1..Len(v) : v[i] = up[i + 1]
    BY HeadTailProperties
  <2>3. DOMAIN v = 1..r - 1 BY <2>2, LenProperties
  <2>4. Head(up) = up[1] BY <2>1
  <2> HIDE DEF v, r
  <2> QED BY <2>1, <2>2, <2>3, <2>4
<1>3. \A p : HasAnswer(k, u, p) <=> p = up[1] \/ HasAnswer(k, ms, p)
  BY <1>2, AnswerInAppend
<1> HIDE DEF u, n, v, r
<1>4. 1 \in DOMAIN up /\ \A j \in DOMAIN up : ~ (j < 1) BY <1>2
<1>5. up[1] \in Z /\ \A p \in Z : p < up[1] <=> HasAnswer(k, ms, p) BY <1>4 DEF OnTheirWay
<1>6. ASSUME NEW i \in DOMAIN u, Answers(k, u[i])
      PROVE  /\ u[i].mutation \in Z
             /\ \A p \in Z : p < u[i].mutation <=>
                  \E j \in DOMAIN u : j < i /\ Answers(k, u[j]) /\ u[j].mutation = p
  <2>1. CASE i = n + 1
    <3>1. u[i].mutation = up[1] BY <1>1, <1>2, <2>1
    <3>2. ASSUME NEW p
          PROVE  HasAnswer(k, ms, p) <=>
                   \E j \in DOMAIN u : j < i /\ Answers(k, u[j]) /\ u[j].mutation = p
      <4>1. \A j \in DOMAIN u : j < i => j \in DOMAIN ms /\ u[j] = ms[j] BY <1>1, <2>1
      <4>2. \A j \in DOMAIN ms : j \in DOMAIN u /\ j < i /\ u[j] = ms[j] BY <1>1, <2>1
      <4> QED BY <4>1, <4>2 DEF HasAnswer
    <3> QED BY <1>5, <3>1, <3>2
  <2>2. CASE i # n + 1
    <3>1. i \in DOMAIN ms /\ u[i] = ms[i] BY <1>1, <2>2
    <3>2. \A j \in DOMAIN u : j < i => j \in DOMAIN ms /\ u[j] = ms[j] BY <1>1, <3>1
    <3>3. \A j \in DOMAIN ms : j \in DOMAIN u /\ u[j] = ms[j] BY <1>1
    <3> QED BY <1>6, <3>1, <3>2, <3>3 DEF InTurn
  <2> QED BY <2>1, <2>2
<1>7. ASSUME NEW i \in DOMAIN v
      PROVE  /\ v[i] \in Z
             /\ \A p \in Z : p < v[i] <=>
                  HasAnswer(k, u, p) \/ \E j \in DOMAIN v : j < i /\ v[j] = p
  <2>1. i + 1 \in DOMAIN up /\ v[i] = up[i + 1] BY <1>2
  <2>2. /\ v[i] \in Z
        /\ \A p \in Z : p < v[i] <=>
             HasAnswer(k, ms, p) \/ \E j \in DOMAIN up : j < i + 1 /\ up[j] = p
    BY <2>1 DEF OnTheirWay
  <2>3. ASSUME NEW p
        PROVE  (\E j \in DOMAIN up : j < i + 1 /\ up[j] = p)
                 <=> p = up[1] \/ \E j \in DOMAIN v : j < i /\ v[j] = p
    <3>1. ASSUME NEW j \in DOMAIN up, j < i + 1, up[j] = p, j # 1
          PROVE  \E h \in DOMAIN v : h < i /\ v[h] = p
      <4>0. i \in 1..r - 1 /\ j \in 1..r /\ r \in Nat \ {0} BY <1>2
      <4>1. j - 1 \in 1..r - 1 /\ (j - 1) + 1 = j /\ j - 1 < i BY <3>1, <4>0
      <4>2. v[j - 1] = up[j] /\ j - 1 \in DOMAIN v BY <1>2, <4>1
      <4> QED BY <3>1, <4>1, <4>2
    <3>2. ASSUME NEW j \in DOMAIN v, j < i, v[j] = p
          PROVE  \E h \in DOMAIN up : h < i + 1 /\ up[h] = p
      <4>0. i \in 1..r - 1 /\ j \in 1..r - 1 /\ r \in Nat \ {0} BY <1>2
      <4>1. j + 1 \in 1..r /\ j + 1 < i + 1 BY <3>2, <4>0
      <4>2. j + 1 \in DOMAIN up /\ v[j] = up[j + 1] BY <1>2, <4>0, <4>1
      <4> QED BY <3>2, <4>1, <4>2
    <3>3. 1 \in DOMAIN up /\ 1 < i + 1
      <4>1. i \in 1..r - 1 /\ r \in Nat \ {0} BY <1>2
      <4>2. 1 < i + 1 BY <4>1
      <4> QED BY <1>4, <4>2
    <3> QED BY <3>1, <3>2, <3>3
  <2> QED BY <1>3, <2>2, <2>3
<1>8. ASSUME NEW p \in Z PROVE HasAnswer(k, u, p) \/ \E j \in DOMAIN v : v[j] = p
  <2>1. HasAnswer(k, ms, p) \/ \E j \in DOMAIN up : up[j] = p BY DEF OnTheirWay
  <2>2. ASSUME NEW j \in DOMAIN up, up[j] = p, j # 1 PROVE \E h \in DOMAIN v : v[h] = p
    <3>1. j - 1 \in DOMAIN v /\ (j - 1) + 1 = j BY <1>2, <2>2
    <3>2. v[j - 1] = up[j] BY <1>2, <3>1
    <3> QED BY <2>2, <3>1, <3>2
  <2> QED BY <1>3, <2>1, <2>2
<1>9. InTurn(k, Z, u) BY <1>6 DEF InTurn
<1>10. OnTheirWay(k, Z, u, v) BY <1>7, <1>8 DEF OnTheirWay
<1> QED BY <1>9, <1>10 DEF u, v

\* One more place that waits for an answer.
LEMMA PlaceAdded ==
  ASSUME NEW k, NEW Z \in SUBSET Nat, NEW ms \in Seq(Messages), NEW n \in Nat,
         \A p \in Z : p < n, InTurn(k, Z, ms)
  PROVE  InTurn(k, Z \union {n}, ms)
<1> SUFFICES ASSUME NEW i \in DOMAIN ms, Answers(k, ms[i])
             PROVE  /\ ms[i].mutation \in Z \union {n}
                    /\ \A p \in Z \union {n} : p < ms[i].mutation <=>
                         \E j \in DOMAIN ms : j < i /\ Answers(k, ms[j]) /\ ms[j].mutation = p
  BY DEF InTurn
<1>1. /\ ms[i].mutation \in Z
      /\ \A p \in Z : p < ms[i].mutation <=>
           \E j \in DOMAIN ms : j < i /\ Answers(k, ms[j]) /\ ms[j].mutation = p
  BY DEF InTurn
<1>2. ms[i].mutation \in Nat /\ ms[i].mutation < n BY <1>1
<1>3. ~ (n < ms[i].mutation) BY <1>2
<1>4. \A j \in DOMAIN ms : Answers(k, ms[j]) => ms[j].mutation # n
  <2>1. \A j \in DOMAIN ms : Answers(k, ms[j]) => ms[j].mutation \in Z BY DEF InTurn
  <2>2. n \notin Z
    <3>1. ~ (n < n) OBVIOUS
    <3> QED BY <3>1
  <2> QED BY <2>1, <2>2
<1> QED BY <1>1, <1>3, <1>4

LEMMA PlaceSent ==
  ASSUME NEW k, NEW Z \in SUBSET Nat, NEW ms \in Seq(Messages), NEW n \in Nat,
         NEW up \in Seq(Nat), \A p \in Z : p < n, InTurn(k, Z, ms), OnTheirWay(k, Z, ms, up)
  PROVE  OnTheirWay(k, Z \union {n}, ms, Append(up, n))
<1> DEFINE v == Append(up, n)
           r == Len(up)
<1>1. /\ r \in Nat /\ DOMAIN up = 1..r /\ DOMAIN v = 1..r + 1
      /\ \A i \in 1..r : v[i] = up[i]
      /\ v[r + 1] = n
  <2>1. r \in Nat /\ DOMAIN up = 1..r BY LenProperties
  <2>2. v \in Seq(Nat) /\ Len(v) = r + 1 /\ (\A i \in 1..r : v[i] = up[i]) /\ v[r + 1] = n
    BY AppendProperties
  <2>3. DOMAIN v = 1..r + 1 BY <2>2, LenProperties
  <2> QED BY <2>1, <2>2, <2>3
<1> HIDE DEF v, r
<1>2. n \notin Z
  <2>1. ~ (n < n) OBVIOUS
  <2> QED BY <2>1
<1>3. \A p : HasAnswer(k, ms, p) => p \in Z BY DEF HasAnswer, InTurn
<1>4. \A p : (\E j \in DOMAIN up : up[j] = p) => p \in Z BY DEF OnTheirWay
<1>5. ASSUME NEW i \in DOMAIN v
      PROVE  /\ v[i] \in Z \union {n}
             /\ \A p \in Z \union {n} : p < v[i] <=>
                  HasAnswer(k, ms, p) \/ \E j \in DOMAIN v : j < i /\ v[j] = p
  <2>1. CASE i = r + 1
    <3>1. v[i] = n /\ \A j \in DOMAIN v : j < i <=> j \in DOMAIN up BY <1>1, <2>1
    <3>2. \A j \in DOMAIN up : j \in DOMAIN v /\ v[j] = up[j] BY <1>1
    <3>3. \A p \in Z : HasAnswer(k, ms, p) \/ \E j \in DOMAIN v : j < i /\ v[j] = p
      BY <3>1, <3>2 DEF OnTheirWay
    <3>4. ~ (n < n) OBVIOUS
    <3>5. ~HasAnswer(k, ms, n) BY <1>2, <1>3
    <3>6. ~ \E j \in DOMAIN v : j < i /\ v[j] = n BY <1>2, <1>4, <3>1, <3>2
    <3> QED BY <3>1, <3>3, <3>4, <3>5, <3>6
  <2>2. CASE i # r + 1
    <3>1. i \in DOMAIN up /\ v[i] = up[i] BY <1>1, <2>2
    <3>2. \A j \in DOMAIN v : j < i => j \in DOMAIN up /\ v[j] = up[j] BY <1>1, <3>1
    <3>3. \A j \in DOMAIN up : j \in DOMAIN v /\ v[j] = up[j] BY <1>1
    <3>4. /\ v[i] \in Z
          /\ \A p \in Z : p < v[i] <=>
               HasAnswer(k, ms, p) \/ \E j \in DOMAIN up : j < i /\ up[j] = p
      BY <3>1 DEF OnTheirWay
    <3>5. \A p \in Z : p < v[i] <=>
               HasAnswer(k, ms, p) \/ \E j \in DOMAIN v : j < i /\ v[j] = p
      BY <3>2, <3>3, <3>4
    <3>6. ~ (n < v[i])
      <4>1. v[i] < n /\ v[i] \in Nat BY <3>4
      <4> QED BY <4>1
    <3>7. ~HasAnswer(k, ms, n) BY <1>2, <1>3
    <3>8. ~ \E j \in DOMAIN v : j < i /\ v[j] = n BY <1>2, <1>4, <3>2
    <3> QED BY <3>4, <3>5, <3>6, <3>7, <3>8
  <2> QED BY <2>1, <2>2
<1>6. ASSUME NEW p \in Z \union {n} PROVE HasAnswer(k, ms, p) \/ \E j \in DOMAIN v : v[j] = p
  <2>1. CASE p = n
    <3>1. r + 1 \in DOMAIN v BY <1>1
    <3> QED BY <1>1, <2>1, <3>1
  <2>2. CASE p # n
    <3>1. \A j \in DOMAIN up : j \in DOMAIN v /\ v[j] = up[j] BY <1>1
    <3> QED BY <2>2, <3>1 DEF OnTheirWay
  <2> QED BY <2>1, <2>2
<1>7. OnTheirWay(k, Z \union {n}, ms, v) BY <1>5, <1>6 DEF OnTheirWay
<1> QED BY <1>7 DEF v

\* What has been received of a sequence that is in turn is in turn.
LEMMA FirstInTurn ==
  ASSUME NEW k, NEW Z, NEW q \in Seq(Messages), NEW w \in Seq(Messages), InTurn(k, Z, q \o w)
  PROVE  InTurn(k, Z, q)
<1> DEFINE u == q \o w
<1>1. /\ Len(q) \in Nat /\ Len(w) \in Nat /\ DOMAIN q = 1..Len(q) BY LenProperties
<1>2. /\ u \in Seq(Messages) /\ Len(u) = Len(q) + Len(w)
      /\ \A i \in 1..Len(q) + Len(w) : u[i] = IF i <= Len(q) THEN q[i] ELSE w[i - Len(q)]
  BY ConcatProperties
<1>3. DOMAIN u = 1..Len(q) + Len(w) BY <1>2, LenProperties
<1>4. InTurn(k, Z, u) OBVIOUS
<1> HIDE DEF u
<1>5. \A i \in DOMAIN q : i \in DOMAIN u /\ u[i] = q[i] BY <1>1, <1>2, <1>3
<1>6. \A i \in DOMAIN q : \A j \in DOMAIN u : j < i => j \in DOMAIN q BY <1>1, <1>3
<1> QED BY <1>4, <1>5, <1>6 DEF InTurn

\* No edit of the tab's own is under way.
LEMMA NothingUnderWay ==
  ASSUME NEW k, NEW m \in Messages, ~Answers(k, m)
  PROVE  /\ InTurn(k, {}, << >>) /\ InTurn(k, {}, <<m>>)
         /\ OnTheirWay(k, {}, <<m>>, << >>)
<1>1. DOMAIN <<m>> = 1..1 /\ <<m>>[1] = m BY OneElement
<1>2. \A i \in 1..1 : i = 1 OBVIOUS
<1>3. DOMAIN << >> = {} BY EmptySeq
<1>4. InTurn(k, {}, <<m>>) BY <1>1, <1>2 DEF InTurn
<1>5. InTurn(k, {}, << >>) BY <1>3 DEF InTurn
<1>6. OnTheirWay(k, {}, <<m>>, << >>) BY <1>3 DEF OnTheirWay
<1> QED BY <1>4, <1>5, <1>6

-----------------------------------------------------------------------------
(* What a tab draws *)

LEMMA PlaceTypes ==
  ASSUME NEW n \in Nat
  PROVE  Drawn(n) \in Places /\ Drawn(n).edit = n /\ ~Drawn(n).own
BY DEF Drawn, Places

LEMMA SentType == Sent \in Places /\ Sent.edit = None /\ Sent.own
BY DEF Sent, Places, None

\* A new tab shows nothing, and a baseline the edits up to its own.
LEMMA NothingShown ==
  << >> \in Seq(Places) /\ Shows(<< >>, 0) /\ Open(<< >>) = {}
<1>1. << >> \in Seq(Places) /\ DOMAIN << >> = {} BY EmptySeq
<1>2. 1..0 = {} OBVIOUS
<1> QED BY <1>1, <1>2 DEF Shows, Open

LEMMA BaselineShown ==
  ASSUME NEW n \in Nat
  PROVE  Baseline(n) \in Seq(Places) /\ Shows(Baseline(n), n) /\ Open(Baseline(n)) = {}
<1> DEFINE v == Baseline(n)
<1>1. DOMAIN v = 1..n /\ \A p \in 1..n : v[p].edit = p /\ v[p] \in Places
  BY PlaceTypes DEF Baseline
<1>2. v \in Seq(Places)
  <2>1. v \in [1..n -> Places] BY PlaceTypes DEF Baseline
  <2> HIDE DEF v
  <2> QED BY <2>1, FunctionIsSeq
<1> HIDE DEF v
<1>3. Open(v) = {} BY <1>1 DEF Open, None
<1>4. Shows(v, n) BY <1>1 DEF Shows, None
<1> QED BY <1>2, <1>3, <1>4 DEF v

\* The places of a view and of one with one place more.
LEMMA OnePlaceMore ==
  ASSUME NEW v \in Seq(Places), NEW x \in Places
  PROVE  /\ Len(v) \in Nat /\ DOMAIN v = 1..Len(v)
         /\ \A p \in 1..Len(v) : v[p].edit \in Nat /\ v[p].own \in BOOLEAN
         /\ Append(v, x) \in Seq(Places) /\ DOMAIN Append(v, x) = 1..Len(v) + 1
         /\ \A p \in 1..Len(v) : Append(v, x)[p] = v[p]
         /\ Append(v, x)[Len(v) + 1] = x
<1>1. Len(v) \in Nat /\ DOMAIN v = 1..Len(v) BY LenProperties
<1>2. /\ Append(v, x) \in Seq(Places) /\ Len(Append(v, x)) = Len(v) + 1
      /\ \A p \in 1..Len(v) : Append(v, x)[p] = v[p]
      /\ Append(v, x)[Len(v) + 1] = x
  BY AppendProperties
<1>3. DOMAIN Append(v, x) = 1..Len(v) + 1 BY <1>2, LenProperties
<1>4. \A p \in 1..Len(v) : v[p].edit \in Nat /\ v[p].own \in BOOLEAN
  <2> TAKE p \in 1..Len(v)
  <2>1. v[p] \in Places BY <1>1, ElementOfSeq
  <2> QED BY <2>1 DEF Places
<1> QED BY <1>1, <1>2, <1>3, <1>4

\* The next edit is drawn ...
LEMMA NextIsDrawn ==
  ASSUME NEW v \in Seq(Places), NEW n \in Nat, Shows(v, n)
  PROVE  LET w == Append(v, Drawn(n + 1)) IN
         w \in Seq(Places) /\ Shows(w, n + 1) /\ Open(w) = Open(v)
<1> DEFINE x == Drawn(n + 1)
           w == Append(v, x)
           r == Len(v)
           e == n + 1
<1>0. e \in Nat /\ e > n /\ e # None BY DEF None
<1>1. x \in Places /\ x.edit = e /\ ~x.own BY <1>0, PlaceTypes
<1> HIDE DEF x
<1>2. /\ r \in Nat /\ DOMAIN v = 1..r
      /\ \A p \in 1..r : v[p].edit \in Nat /\ v[p].own \in BOOLEAN
      /\ w \in Seq(Places) /\ DOMAIN w = 1..r + 1
      /\ \A p \in 1..r : w[p] = v[p]
      /\ w[r + 1] = x
  BY <1>1, OnePlaceMore
<1> HIDE DEF w, r
<1>3. 1..r + 1 = (1..r) \union {r + 1} /\ \A p \in 1..r : p < r + 1 /\ ~ (r + 1 < p) BY <1>2
<1>4. ~ (r + 1 < r + 1) BY <1>2
<1> DEFINE z == r + 1
<1> HIDE DEF z
<1>5. /\ DOMAIN w = DOMAIN v \union {z} /\ z \notin DOMAIN v
      /\ \A p \in DOMAIN v : w[p] = v[p] /\ v[p].edit \in Nat
      /\ w[z] = x /\ ~ (z < z) /\ \A p \in DOMAIN v : ~ (z < p)
  BY <1>2, <1>3, <1>4 DEF z
<1>6. Open(w) = Open(v) BY <1>0, <1>1, <1>5 DEF Open
<1>7. \A p \in DOMAIN w : w[p].edit <= e /\ (w[p].edit = None => w[p] = Sent)
  <2>1. \A p \in DOMAIN v : v[p].edit <= n /\ (v[p].edit = None => v[p] = Sent) BY DEF Shows
  <2>2. \A k \in Nat : k <= n => k <= e BY <1>0
  <2>3. e <= e BY <1>0
  <2> QED BY <1>0, <1>1, <1>5, <2>1, <2>2, <2>3
<1>8. \A m \in 1..e : \E p \in DOMAIN w : w[p].edit = m
  <2> TAKE m \in 1..e
  <2>1. m \in 1..n \/ m = e BY DEF e
  <2>2. CASE m \in 1..n
    <3>1. PICK p \in DOMAIN v : v[p].edit = m BY <2>2 DEF Shows
    <3> QED BY <1>5, <3>1
  <2>3. CASE m = e BY <1>1, <1>5, <2>3
  <2> QED BY <2>1, <2>2, <2>3
<1>9. \A p, q \in DOMAIN w : p < q =>
        /\ (w[p].edit = None /\ w[q].edit # None) => ~w[q].own
        /\ (w[p].edit # None /\ w[q].edit # None) =>
             \/ w[p].edit < w[q].edit
             \/ w[p].edit > w[q].edit /\ w[p].own /\ ~w[q].own
  <2> SUFFICES ASSUME NEW p \in DOMAIN w, NEW q \in DOMAIN w, p < q
               PROVE  /\ (w[p].edit = None /\ w[q].edit # None) => ~w[q].own
                      /\ (w[p].edit # None /\ w[q].edit # None) =>
                           \/ w[p].edit < w[q].edit
                           \/ w[p].edit > w[q].edit /\ w[p].own /\ ~w[q].own
    OBVIOUS
  <2>1. p \in DOMAIN v BY <1>5
  <2>2. CASE q \in DOMAIN v BY <1>5, <2>1, <2>2 DEF Shows
  <2>3. CASE q = z
    <3>1. w[q] = x /\ w[p] = v[p] BY <1>5, <2>1, <2>3
    <3>2. v[p].edit <= n /\ v[p].edit \in Nat BY <1>5, <2>1 DEF Shows
    <3>3. v[p].edit < e BY <1>0, <3>2
    <3> QED BY <1>1, <3>1, <3>3
  <2> QED BY <1>5, <2>2, <2>3
<1>10. Shows(w, e) BY <1>7, <1>8, <1>9 DEF Shows
<1> HIDE DEF e
<1> QED BY <1>2, <1>6, <1>10 DEF w, x, e

\* ... from the tool that has been mounted too ...
LEMMA PendingIsDrawn ==
  ASSUME NEW v \in Seq(Places), NEW n \in Nat
  PROVE  v \o [j \in DOMAIN <<n>> |-> Drawn(<<n>>[j])] = Append(v, Drawn(n))
<1> DEFINE x == Drawn(n)
<1>1. x \in Places BY PlaceTypes
<1>2. DOMAIN <<n>> = 1..1 /\ <<n>>[1] = n BY OneElement
<1>3. [j \in DOMAIN <<n>> |-> Drawn(<<n>>[j])] = <<x>>
  <2> DEFINE f == [j \in DOMAIN <<n>> |-> Drawn(<<n>>[j])]
  <2>1. DOMAIN f = 1..1 /\ f[1] = x BY <1>2
  <2>2. f \in [1..1 -> Places]
    <3>1. \A j \in 1..1 : j = 1 OBVIOUS
    <3> QED BY <1>1, <1>2, <2>1, <3>1
  <2> HIDE DEF f
  <2>3. f \in Seq(Places) /\ Len(f) = 1 BY <2>2, FunctionIsSeq
  <2> HIDE DEF x
  <2>4. <<x>> \in Seq(Places) /\ Len(<<x>>) = 1 /\ <<x>>[1] = x BY <1>1, OneElement
  <2>5. \A j \in 1..1 : j = 1 OBVIOUS
  <2>6. \A j \in 1..Len(f) : f[j] = <<x>>[j] BY <2>1, <2>3, <2>4, <2>5
  <2>7. f = <<x>> BY <2>3, <2>4, <2>6, SeqEqual
  <2> QED BY <2>7 DEF f
<1> HIDE DEF x
<1>4. Append(v, x) = v \o <<x>> BY <1>1, AppendIsConcat
<1> QED BY <1>3, <1>4 DEF x

\* ... one of the tab's own is drawn ahead of its turn ...
LEMMA OwnIsDrawn ==
  ASSUME NEW v \in Seq(Places), NEW n \in Nat, Shows(v, n)
  PROVE  LET w == Append(v, Sent) IN
         /\ w \in Seq(Places) /\ Shows(w, n) /\ Open(w) = Open(v) \union {Len(v) + 1}
         /\ Len(v) + 1 \in Nat /\ \A p \in Open(v) : p \in Nat /\ p < Len(v) + 1
<1> DEFINE w == Append(v, Sent)
           r == Len(v)
<1>1. /\ r \in Nat /\ DOMAIN v = 1..r
      /\ \A p \in 1..r : v[p].edit \in Nat /\ v[p].own \in BOOLEAN
      /\ w \in Seq(Places) /\ DOMAIN w = 1..r + 1
      /\ \A p \in 1..r : w[p] = v[p]
      /\ w[r + 1] = Sent
  BY SentType, OnePlaceMore
<1> HIDE DEF w, r
<1>2. 1..r + 1 = (1..r) \union {r + 1} /\ \A p \in 1..r : p \in Nat /\ p < r + 1 /\ ~ (r + 1 < p)
  BY <1>1
<1>3. ~ (r + 1 < r + 1) /\ r + 1 \in Nat BY <1>1
<1> DEFINE z == r + 1
<1> HIDE DEF z
<1>4. /\ DOMAIN w = DOMAIN v \union {z} /\ z \notin DOMAIN v
      /\ \A p \in DOMAIN v : w[p] = v[p] /\ v[p].edit \in Nat /\ p \in Nat /\ p < z
      /\ w[z] = Sent /\ ~ (z < z) /\ \A p \in DOMAIN v : ~ (z < p)
  BY <1>1, <1>2, <1>3 DEF z
<1>5. Open(w) = Open(v) \union {z} BY <1>4, SentType DEF Open
<1>6. Shows(w, n)
  <2>1. \A p \in DOMAIN w : w[p].edit <= n /\ (w[p].edit = None => w[p] = Sent)
    <3>1. None <= n BY DEF None
    <3> QED BY <1>4, <3>1, SentType DEF Shows
  <2>2. \A m \in 1..n : \E p \in DOMAIN w : w[p].edit = m
    <3> TAKE m \in 1..n
    <3>1. PICK p \in DOMAIN v : v[p].edit = m BY DEF Shows
    <3> QED BY <1>4, <3>1
  <2>3. ASSUME NEW p \in DOMAIN w, NEW q \in DOMAIN w, p < q
        PROVE  /\ (w[p].edit = None /\ w[q].edit # None) => ~w[q].own
               /\ (w[p].edit # None /\ w[q].edit # None) =>
                    \/ w[p].edit < w[q].edit
                    \/ w[p].edit > w[q].edit /\ w[p].own /\ ~w[q].own
    <3>1. p \in DOMAIN v BY <1>4, <2>3
    <3>2. CASE q \in DOMAIN v BY <1>4, <2>3, <3>1, <3>2 DEF Shows
    <3>3. CASE q = z BY <1>4, <3>3, SentType
    <3> QED BY <1>4, <3>2, <3>3
  <2> QED BY <2>1, <2>2, <2>3 DEF Shows
<1>7. Open(v) \subseteq DOMAIN v BY DEF Open
<1>8. \A p \in Open(v) : p \in Nat /\ p < z BY <1>4, <1>7
<1> QED BY <1>1, <1>3, <1>5, <1>6, <1>8 DEF w, z, r

\* ... and gets its number when it is the first that waits for one.
LEMMA OwnIsPromoted ==
  ASSUME NEW v \in Seq(Places), NEW n \in Nat, Shows(v, n),
         NEW z \in Open(v), \A p \in Open(v) : ~ (p < z)
  PROVE  LET w == Promoted(v, z, n + 1) IN
         w \in Seq(Places) /\ Shows(w, n + 1) /\ Open(w) = Open(v) \ {z}
<1> DEFINE e == n + 1
           w == Promoted(v, z, e)
           r == Len(v)
<1>0. e \in Nat /\ e > n /\ e # None BY DEF None
<1>1. r \in Nat /\ DOMAIN v = 1..r /\ \A p \in 1..r : v[p] \in Places
  BY LenProperties, ElementOfSeq
<1> HIDE DEF e, r
<1>2. z \in DOMAIN v /\ v[z] = Sent BY DEF Open, Shows
<1>3. DOMAIN w = DOMAIN v /\ \A p \in DOMAIN v : p # z => w[p] = v[p] BY DEF Promoted
<1>4. w[z] = [Sent EXCEPT !.edit = e] BY <1>2 DEF Promoted
<1>5. w[z] \in Places /\ w[z].edit = e /\ w[z].own BY <1>0, <1>4, SentType DEF Places, Sent
<1> HIDE DEF w
<1>6. w \in Seq(Places)
  <2>1. \A p \in DOMAIN w : w[p] \in Places BY <1>1, <1>3, <1>5
  <2>2. w \in [1..r -> Places]
    <3>1. w = [p \in DOMAIN w |-> w[p]] BY DEF w, Promoted
    <3> QED BY <1>1, <1>3, <2>1, <3>1
  <2> QED BY <1>1, <2>2, FunctionIsSeq
<1>7. Open(w) = Open(v) \ {z} BY <1>0, <1>2, <1>3, <1>5 DEF Open
<1>8. \A p \in DOMAIN v : v[p].edit \in Nat /\ v[p].edit <= n /\ v[p].edit < e
  <2> TAKE p \in DOMAIN v
  <2>1. v[p].edit \in Nat /\ v[p].edit <= n BY <1>1 DEF Shows, Places
  <2> QED BY <1>0, <2>1
<1>9. Shows(w, e)
  <2>1. ASSUME NEW p \in DOMAIN w PROVE w[p].edit <= e /\ (w[p].edit = None => w[p] = Sent)
    <3>1. CASE p = z
      <4>1. e <= e BY <1>0
      <4> QED BY <1>0, <1>5, <3>1, <4>1
    <3>2. CASE p # z
      <4>1. w[p] = v[p] /\ v[p].edit \in Nat /\ v[p].edit < e BY <1>3, <1>8, <3>2
      <4>2. w[p].edit <= e BY <1>0, <4>1
      <4> QED BY <1>3, <4>1, <4>2 DEF Shows
    <3> QED BY <3>1, <3>2
  <2>2. ASSUME NEW m \in 1..e PROVE \E p \in DOMAIN w : w[p].edit = m
    <3>1. m \in 1..n \/ m = e BY DEF e
    <3>2. CASE m \in 1..n
      <4>1. PICK p \in DOMAIN v : v[p].edit = m BY <3>2 DEF Shows
      <4>2. m # None BY DEF None
      <4>3. p # z BY <1>2, <4>1, <4>2, SentType
      <4> QED BY <1>3, <4>1, <4>3
    <3>3. CASE m = e BY <1>2, <1>3, <1>5, <3>3
    <3> QED BY <3>1, <3>2, <3>3
  <2>3. ASSUME NEW p \in DOMAIN w, NEW q \in DOMAIN w, p < q
        PROVE  /\ (w[p].edit = None /\ w[q].edit # None) => ~w[q].own
               /\ (w[p].edit # None /\ w[q].edit # None) =>
                    \/ w[p].edit < w[q].edit
                    \/ w[p].edit > w[q].edit /\ w[p].own /\ ~w[q].own
    <3>1. p \in DOMAIN v /\ q \in DOMAIN v BY <1>3
    <3>2. CASE p # z /\ q # z
      <4>1. w[p] = v[p] /\ w[q] = v[q] BY <1>3, <3>1, <3>2
      <4> QED BY <2>3, <3>1, <4>1 DEF Shows
    <3>3. CASE p = z /\ q # z
      <4>1. w[q] = v[q] /\ v[q].edit < e /\ v[q].edit \in Nat BY <1>3, <1>8, <3>1, <3>3
      <4>2. v[q].edit # None => ~v[q].own BY <1>2, <2>3, <3>1, <3>3, SentType DEF Shows
      <4>3. e > v[q].edit BY <1>0, <4>1
      <4> QED BY <1>0, <1>5, <3>3, <4>1, <4>2, <4>3
    <3>4. CASE p # z /\ q = z
      <4>1. w[p] = v[p] /\ v[p].edit < e BY <1>3, <1>8, <3>1, <3>4
      <4>2. p \notin Open(v) BY <2>3, <3>4
      <4>3. v[p].edit # None BY <3>1, <4>2 DEF Open
      <4> QED BY <1>5, <3>4, <4>1, <4>3
    <3>5. CASE p = z /\ q = z
      <4>1. z \in Nat BY <1>1, <1>2
      <4>2. ~ (z < z) BY <4>1
      <4> QED BY <2>3, <3>5, <4>2
    <3> QED BY <3>2, <3>3, <3>4, <3>5
  <2> QED BY <2>1, <2>2, <2>3 DEF Shows
<1> QED BY <1>6, <1>7, <1>9 DEF w, e
-----------------------------------------------------------------------------
(* The types hold *)

LEMMA TabAndConn ==
  ASSUME ReplayTypeOK, NEW c \in Client
  PROVE  /\ client[c] \in Tabs
         /\ \A k \in Conn : conn[c][k] \in Connections
         /\ conn[c] \in [Conn -> Connections]
  BY DEF ReplayTypeOK

LEMMA UnusedType == Unused \in Connections /\ NextMessage \in Loops
<1>1. << >> \in Seq(Messages) BY EmptySeq
<1> QED BY <1>1 DEF Unused, Connections, NextMessage, Loops

LEMMA TimersType ==
  ASSUME NEW t \in Tabs, NEW n \in Nat
  PROVE  [t EXCEPT !.timers = n] \in Tabs
  BY DEF Tabs

LEMMA LostType == ASSUME NEW x \in Connections PROVE Lost(x) \in Connections
<1>1. << >> \in Seq(Messages) BY EmptySeq
<1> QED BY <1>1 DEF Lost, Connections

LEMMA PromotedType ==
  ASSUME NEW v \in Seq(Places), NEW p, NEW n \in Nat
  PROVE  Promoted(v, p, n) \in Seq(Places)
<1>1. Len(v) \in Nat /\ DOMAIN v = 1..Len(v) /\ \A q \in 1..Len(v) : v[q] \in Places
  BY LenProperties, ElementOfSeq
<1>2. \A q \in 1..Len(v) : [v[q] EXCEPT !.edit = n] \in Places BY <1>1 DEF Places
<1>3. Promoted(v, p, n) \in [1..Len(v) -> Places] BY <1>1, <1>2 DEF Promoted
<1> QED BY <1>1, <1>3, FunctionIsSeq

\* connection.start() adds a start, and touches neither the board nor the queue.
LEMMA StartType ==
  ASSUME NEW c \in Client, NEW t \in Tabs
  PROVE  /\ Start(c, t) \in Tabs
         /\ \A f \in {"view", "seq", "refresh", "queue", "processing", "loops", "pending",
                      "mounted", "opened", "timers", "access", "overtaken"} :
              Start(c, t)[f] = t[f]
<1> DEFINE r == IF IsConnected(c, t.socket) THEN None ELSE t.socket
           s == [stage |-> IF t.refresh THEN "ask" ELSE "auth", base |-> t.seq, reuse |-> r]
<1>1. r \in Conn \union {None} BY DEF Tabs
<1>2. s \in Starts BY <1>1 DEF Tabs, Starts
<1>3. Append(t.starts, s) \in Seq(Starts)
  <2> HIDE DEF s
  <2> QED BY <1>2, AppendProperties DEF Tabs
<1>4. Start(c, t) = [t EXCEPT !.socket = r, !.awaiting = TRUE, !.starts = Append(t.starts, s)]
  BY DEF Start
<1> DEFINE ss == Append(t.starts, s)
<1>5. ss \in Seq(Starts) /\ Start(c, t) = [t EXCEPT !.socket = r, !.awaiting = TRUE, !.starts = ss]
  BY <1>3, <1>4
<1> HIDE DEF r, s, ss
<1>6. Start(c, t) \in Tabs BY <1>1, <1>5 DEF Tabs
<1>7. \A f \in {"view", "seq", "refresh", "queue", "processing", "loops", "pending",
               "mounted", "opened", "timers", "access", "overtaken"} :
              Start(c, t)[f] = t[f]
  BY <1>5 DEF Tabs
<1> QED BY <1>6, <1>7

LEMMA ResyncType ==
  ASSUME NEW t \in Tabs
  PROVE  /\ BeginResync(t) \in Tabs
         /\ BeginResync(t).queue = << >> /\ BeginResync(t).refresh
         /\ \A f \in {"view", "seq", "loops", "pending", "mounted", "socket", "opened",
                      "starts", "timers", "access"} : BeginResync(t)[f] = t[f]
         /\ BeginResync(t).overtaken =
              (t.overtaken \/ \E i \in DOMAIN t.loops : t.loops[i].phase = "waiting")
<1>1. << >> \in Seq(Messages) BY EmptySeq
<1> DEFINE past == t.overtaken \/ \E i \in DOMAIN t.loops : t.loops[i].phase = "waiting"
<1>2. past \in BOOLEAN OBVIOUS
<1>3. BeginResync(t) = [t EXCEPT !.awaiting = TRUE, !.refresh = TRUE, !.queue = << >>,
                                 !.processing = FALSE, !.overtaken = past]
  BY DEF BeginResync, Tabs
<1> HIDE DEF past
<1>4. BeginResync(t) \in Tabs BY <1>1, <1>2, <1>3 DEF Tabs
<1>5. /\ BeginResync(t).queue = << >> /\ BeginResync(t).refresh
      /\ BeginResync(t).overtaken = past
      /\ \A f \in {"view", "seq", "loops", "pending", "mounted", "socket", "opened",
                   "starts", "timers", "access"} : BeginResync(t)[f] = t[f]
  BY <1>3 DEF Tabs
<1> QED BY <1>4, <1>5 DEF past

LEMMA ShiftedType ==
  ASSUME ReplayTypeOK, NEW c \in Client, client[c].queue # << >>
  PROVE  /\ Received(c) \in Messages /\ Shifted(c) \in Tabs
         /\ Shifted(c).queue = Tail(client[c].queue)
         /\ \A f \in {"view", "seq", "awaiting", "refresh", "processing", "loops", "pending",
                      "mounted", "socket", "opened", "starts", "timers", "access",
                      "overtaken"} :
              Shifted(c)[f] = client[c][f]
<1>1. client[c] \in Tabs BY TabAndConn
<1>2. client[c].queue \in Seq(Messages) BY <1>1 DEF Tabs
<1>3. Head(client[c].queue) \in Messages /\ Tail(client[c].queue) \in Seq(Messages)
  BY <1>2, HeadTailProperties
<1> QED BY <1>1, <1>3 DEF Received, Shifted, Tabs

LEMMA CloseType ==
  ASSUME ReplayTypeOK, NEW c \in Client, CloseCurrent(c)
  PROVE  conn' \in [Client -> [Conn -> Connections]]
<1>1. client[c].socket \in Conn \union {None} BY TabAndConn DEF Tabs
<1>2. IsConnected(c, client[c].socket) => client[c].socket \in Conn BY <1>1 DEF IsConnected
<1> QED BY <1>2, UnusedType DEF ReplayTypeOK, CloseCurrent

LEMMA StartTypes ==
  ASSUME ReplayTypeOK, NEW c \in Client, NEW i \in DOMAIN client[c].starts
  PROVE  /\ client[c].starts \in Seq(Starts) /\ client[c].starts[i] \in Starts
         /\ RemoveAt(client[c].starts, i) \in Seq(Starts)
         /\ \A s \in Starts : [client[c].starts EXCEPT ![i] = s] \in Seq(Starts)
<1>1. client[c].starts \in Seq(Starts) BY TabAndConn DEF Tabs
<1>2. DOMAIN client[c].starts = 1..Len(client[c].starts) BY <1>1, LenProperties
<1> QED BY <1>1, <1>2, ElementOfSeq, RemoveAtType, ExceptSeq

LEMMA LoopTypes ==
  ASSUME ReplayTypeOK, NEW c \in Client, NEW i \in DOMAIN client[c].loops
  PROVE  /\ client[c].loops \in Seq(Loops) /\ client[c].loops[i] \in Loops
         /\ RemoveAt(client[c].loops, i) \in Seq(Loops)
         /\ \A l \in Loops : [client[c].loops EXCEPT ![i] = l] \in Seq(Loops)
<1>1. client[c].loops \in Seq(Loops) BY TabAndConn DEF Tabs
<1>2. DOMAIN client[c].loops = 1..Len(client[c].loops) BY <1>1, LenProperties
<1> QED BY <1>1, <1>2, ElementOfSeq, RemoveAtType, ExceptSeq

LEMMA AdvanceType ==
  ASSUME NEW t \in Tabs, NEW i \in DOMAIN t.loops
  PROVE  Advance(t, i) \in Tabs
<1>1. t.loops \in Seq(Loops) BY DEF Tabs
<1>2. DOMAIN t.loops = 1..Len(t.loops) BY <1>1, LenProperties
<1>3. t.loops[i] \in Loops BY <1>1, <1>2, ElementOfSeq
<1> DEFINE l == t.loops[i]
           next == IF l.kind = "live" THEN NextMessage ELSE [l EXCEPT !.phase = "draw", !.at = l.at + 1]
<1>4. next \in Loops
  <2>1. [l EXCEPT !.phase = "draw", !.at = l.at + 1] \in Loops
    <3>1. l \in Loops BY <1>3
    <3> HIDE DEF l
    <3>2. l.at \in Nat BY <3>1 DEF Loops
    <3>3. l.at + 1 \in Nat BY <3>2
    <3> DEFINE n == l.at + 1
    <3> HIDE DEF n
    <3>4. [l EXCEPT !.phase = "draw", !.at = n] \in Loops BY <3>1, <3>3 DEF Loops, n
    <3> QED BY <3>4 DEF n
  <2> QED BY <2>1, UnusedType
<1>5. [t.loops EXCEPT ![i] = next] \in Seq(Loops)
  <2> HIDE DEF next
  <2> QED BY <1>1, <1>2, <1>4, ExceptSeq
<1>6. Advance(t, i) = [t EXCEPT !.seq = l.at, !.loops = [t.loops EXCEPT ![i] = next]]
  BY DEF Advance, Tabs
<1>7. l.at \in Nat BY <1>3 DEF Loops
<1> HIDE DEF l, next
<1> QED BY <1>5, <1>6, <1>7 DEF Tabs

LEMMA ServerStepTypes ==
  ASSUME ReplayTypeOK, ServerStep
  PROVE  ReplayTypeOK' /\ client' = client
<1>0. latestSeq \in Nat /\ storedSeq \in Nat BY DEF ReplayTypeOK
<1>a. ASSUME NEW d \in Client, NEW j \in Conn, NEW src \in Conn \union {None}, NEW id \in Nat
      PROVE  [conn[d][j] EXCEPT !.wire = Append(@, Live(latestSeq + 1, src, id))] \in Connections
  <2> DEFINE m == Live(latestSeq + 1, src, id)
  <2>1. m \in Messages
    <3>1. /\ (latestSeq + 1) - 1 \in Nat /\ latestSeq + 1 \in Nat
          /\ (latestSeq + 1) - 1 <= latestSeq + 1
          /\ latestSeq + 1 = ((latestSeq + 1) - 1) + 1
      BY <1>0
    <3> QED BY <3>1 DEF Live, Messages
  <2>2. conn[d][j] \in Connections BY TabAndConn
  <2>3. Append(conn[d][j].wire, m) \in Seq(Messages)
    <3> HIDE DEF m
    <3> QED BY <2>1, <2>2, AppendProperties DEF Connections
  <2> HIDE DEF m
  <2>4. [conn[d][j] EXCEPT !.wire = Append(@, m)] \in Connections BY <2>2, <2>3 DEF Connections
  <2> QED BY <2>4 DEF m
<1>b. \A d \in Client, j \in Conn :
        [conn[d][j] EXCEPT !.wire = Append(@, Live(latestSeq + 1, None, None))] \in Connections
  BY <1>a DEF None
<1>1. CASE Accept
  <2>2. conn' \in [Client -> [Conn -> Connections]] BY <1>1, <1>b, TabAndConn DEF Accept
  <2> QED BY <1>0, <1>1, <2>2 DEF Accept, ReplayTypeOK
<1>8. ASSUME NEW c \in Client, NEW k \in Conn, AcceptFrom(c, k)
      PROVE  ReplayTypeOK' /\ client' = client
  <2> DEFINE up == conn[c][k].up
  <2>1. up \in Seq(Nat) /\ up # << >> BY <1>8, TabAndConn DEF AcceptFrom, Connections
  <2>2. Head(up) \in Nat /\ Tail(up) \in Seq(Nat) BY <2>1, HeadTailProperties
  <2>3. \A j \in Conn :
          LET x == [conn[c][j] EXCEPT !.wire = Append(@, Live(latestSeq + 1, k, Head(up)))] IN
          x \in Connections /\ (j = k => [x EXCEPT !.up = Tail(up)] \in Connections)
    <3> TAKE j \in Conn
    <3> DEFINE x == [conn[c][j] EXCEPT !.wire = Append(@, Live(latestSeq + 1, k, Head(up)))]
    <3>1. x \in Connections BY <1>a, <2>2
    <3> HIDE DEF x
    <3>2. [x EXCEPT !.up = Tail(up)] \in Connections BY <2>2, <3>1 DEF Connections
    <3> QED BY <3>1, <3>2 DEF x
  <2>4. ASSUME NEW d \in Client, NEW j \in Conn
        PROVE  (IF ~IsOpen(d, j) THEN conn[d][j]
                ELSE IF d # c
                THEN [conn[d][j] EXCEPT !.wire = Append(@, Live(latestSeq + 1, None, None))]
                ELSE [conn[d][j] EXCEPT
                       !.wire = Append(@, Live(latestSeq + 1, k, Head(conn[c][k].up))),
                       !.up   = IF j = k THEN Tail(@) ELSE @]) \in Connections
    <3>1. conn[d][j] \in Connections BY TabAndConn
    <3>2. CASE ~IsOpen(d, j) BY <3>1, <3>2
    <3>3. CASE IsOpen(d, j) /\ d # c BY <1>b, <3>3
    <3>4. CASE IsOpen(d, j) /\ d = c
      <4> DEFINE x == [conn[c][j] EXCEPT !.wire = Append(@, Live(latestSeq + 1, k, Head(up)))]
      <4>1. x \in Connections /\ (j = k => [x EXCEPT !.up = Tail(up)] \in Connections) BY <2>3
      <4>2. [conn[c][j] EXCEPT
               !.wire = Append(@, Live(latestSeq + 1, k, Head(up))),
               !.up   = IF j = k THEN Tail(@) ELSE @]
              = IF j = k THEN [x EXCEPT !.up = Tail(up)] ELSE x
        BY <3>1, <3>4 DEF Connections
      <4> HIDE DEF x
      <4> QED BY <3>4, <4>1, <4>2
    <3> QED BY <3>2, <3>3, <3>4
  <2>5. conn' \in [Client -> [Conn -> Connections]] BY <1>8, <2>4 DEF AcceptFrom
  <2>6. latestSeq' = latestSeq + 1 /\ storedSeq' = storedSeq /\ client' = client
    BY <1>8 DEF AcceptFrom
  <2> HIDE <1>8
  <2> QED BY <1>0, <2>5, <2>6 DEF ReplayTypeOK
<1>2. CASE Age BY <1>2 DEF Age, ReplayTypeOK
<1>3. CASE SaveWrite BY <1>3 DEF SaveWrite, ReplayTypeOK
<1>4. CASE SaveDone BY <1>4 DEF SaveDone, ReplayTypeOK
<1>5. CASE Reload BY <1>5 DEF Reload, ReplayTypeOK
<1>6. CASE Restart
  <2>1. conn' \in [Client -> [Conn -> Connections]] BY <1>6, LostType, TabAndConn DEF Restart
  <2> QED BY <1>6, <2>1 DEF Restart, ReplayTypeOK
<1>7. ASSUME NEW p \in pins, ExpirePin(p) PROVE ReplayTypeOK' /\ client' = client
  BY <1>7 DEF ExpirePin, ReplayTypeOK
<1> QED BY <1>1, <1>2, <1>3, <1>4, <1>5, <1>6, <1>7, <1>8 DEF ServerStep

\* A step of tab c leaves what the server has alone, and the other tabs.
TabStep(c) == ConnectionStep(c) \/ LoopStep(c) \/ Mount(c) \/ Send(c)

LEMMA TabStepTypes ==
  ASSUME ReplayTypeOK, NEW c \in Client, TabStep(c)
  PROVE  /\ ReplayTypeOK' /\ latestSeq' = latestSeq
         /\ \A d \in Client : d # c => client'[d] = client[d] /\ conn'[d] = conn[d]
<1> DEFINE t == client[c]
           Others == \A d \in Client : d # c => client'[d] = client[d] /\ conn'[d] = conn[d]
           Kept == ReplayTypeOK' /\ latestSeq' = latestSeq /\ Others
<1>0. /\ latestSeq \in Nat /\ storedSeq \in Nat /\ t \in Tabs
      /\ conn \in [Client -> [Conn -> Connections]] /\ client \in [Client -> Tabs]
  BY TabAndConn DEF ReplayTypeOK
<1> HIDE DEF t
<1>a. ASSUME NEW u \in Tabs, client' = [client EXCEPT ![c] = u], UNCHANGED <<server, conn>>
      PROVE  Kept
  BY <1>0, <1>a DEF ReplayTypeOK, server
<1>b. ASSUME NEW u \in Tabs, client' = [client EXCEPT ![c] = u], UNCHANGED server,
             CloseCurrent(c)
      PROVE  Kept
  <2>1. conn' \in [Client -> [Conn -> Connections]] BY <1>b, CloseType
  <2>2. \A d \in Client : d # c => conn'[d] = conn[d] BY <1>0, <1>b DEF CloseCurrent
  <2> QED BY <1>0, <1>b, <2>1, <2>2 DEF ReplayTypeOK, server
<1>c. ASSUME NEW u \in Tabs, client' = [client EXCEPT ![c] = u], UNCHANGED server,
             NEW k \in Conn, NEW x \in Connections, conn' = [conn EXCEPT ![c][k] = x]
      PROVE  Kept
  BY <1>0, <1>c DEF ReplayTypeOK, server
<1>d. client' = client => client' = [client EXCEPT ![c] = t] BY <1>0 DEF t
<1>1. ASSUME NEW k \in Conn, Admit(c, k) PROVE Kept
  <2> DEFINE x == conn[c][k]
  <2>1. x \in Connections BY TabAndConn
  <2>2. Replayable(x.base) => Batch(x.base, latestSeq) \in Messages
    BY <1>0, <2>1 DEF Replayable, Batch, Messages, Connections, None
  <2>3. Replayable(x.base) => <<Batch(x.base, latestSeq)>> \in Seq(Messages)
    BY <2>2, OneElement
  <2> DEFINE y == IF Replayable(x.base)
                    THEN [x EXCEPT !.state = "open", !.wire = <<Batch(x.base, latestSeq)>>]
                    ELSE [x EXCEPT !.state = "refused"]
  <2>4. y \in Connections
    <3> HIDE DEF x
    <3>1. CASE Replayable(x.base)
      <4> DEFINE w == <<Batch(x.base, latestSeq)>>
      <4>1. w \in Seq(Messages) BY <2>3, <3>1
      <4> HIDE DEF w
      <4>2. [x EXCEPT !.state = "open", !.wire = w] \in Connections
        BY <2>1, <4>1 DEF Connections
      <4> QED BY <3>1, <4>2 DEF w
    <3>2. CASE ~Replayable(x.base) BY <2>1, <3>2 DEF Connections
    <3> QED BY <3>1, <3>2
  <2>5. conn' = [conn EXCEPT ![c][k] = y] /\ client' = client /\ UNCHANGED server
    BY <1>1 DEF Admit
  <2> HIDE DEF y
  <2> QED BY <1>0, <1>c, <1>d, <2>4, <2>5
<1>2. ASSUME NEW k \in Conn, Drop(c, k) PROVE Kept
  <2>1. Lost(conn[c][k]) \in Connections BY TabAndConn, LostType
  <2>2. conn' = [conn EXCEPT ![c][k] = Lost(conn[c][k])] BY <1>2, <1>0 DEF Drop
  <2> QED BY <1>0, <1>2, <1>c, <1>d, <2>1, <2>2 DEF Drop
<1>3. ASSUME NEW k \in Conn, OnConnectError(c, k) PROVE Kept
  <2> DEFINE u == IF conn[c][k].state = "refused" THEN [BeginResync(t) EXCEPT !.socket = None] ELSE t
             v == IF t.socket # k THEN t ELSE [u EXCEPT !.timers = @ + 1]
  <2>a. BeginResync(t) \in Tabs BY <1>0, ResyncType
  <2>b. [BeginResync(t) EXCEPT !.socket = None] \in Tabs BY <2>a DEF Tabs
  <2>1. u \in Tabs BY <1>0, <2>b
  <2>2. v \in Tabs
    <3> HIDE DEF u
    <3>a. u.timers \in Nat BY <2>1 DEF Tabs
    <3>b. u.timers + 1 \in Nat BY <3>a
    <3>1. [u EXCEPT !.timers = @ + 1] \in Tabs BY <2>1, <3>b, TimersType
    <3> QED BY <1>0, <3>1
  <2>3. client' = [client EXCEPT ![c] = v]
    <3>1. CASE t.socket # k BY <1>3, <1>d, <3>1 DEF OnConnectError, t
    <3>2. CASE t.socket = k BY <1>3, <3>2 DEF OnConnectError, t
    <3> QED BY <3>1, <3>2
  <2>4. conn' = [conn EXCEPT ![c][k] = Unused] /\ UNCHANGED server BY <1>3 DEF OnConnectError
  <2> HIDE DEF v
  <2> QED BY <1>c, <2>2, <2>3, <2>4, UnusedType
<1>4. ASSUME NEW k \in Conn, OnDisconnect(c, k) PROVE Kept
  <2> DEFINE u == [BeginResync(t) EXCEPT !.timers = @ + 1]
             v == IF t.socket # k THEN t ELSE u
  <2>a. BeginResync(t) \in Tabs BY <1>0, ResyncType
  <2>b. BeginResync(t).timers \in Nat BY <2>a DEF Tabs
  <2>1. u \in Tabs BY <2>a, <2>b, TimersType
  <2>2. client' = [client EXCEPT ![c] = v]
    <3>1. CASE t.socket # k BY <1>4, <1>d, <3>1 DEF OnDisconnect, t
    <3>2. CASE t.socket = k BY <1>4, <3>2 DEF OnDisconnect, t
    <3> QED BY <3>1, <3>2
  <2>3. conn' = [conn EXCEPT ![c][k] = Unused] /\ UNCHANGED server BY <1>4 DEF OnDisconnect
  <2> HIDE DEF u
  <2>4. v \in Tabs BY <1>0, <2>1
  <2> HIDE DEF v
  <2> QED BY <1>c, <2>2, <2>3, <2>4, UnusedType
<1>5. ASSUME NEW k \in Conn, OnBroadcast(c, k) PROVE Kept
  <2>1. /\ conn[c][k] \in Connections /\ conn[c][k].wire # << >>
    BY <1>5, TabAndConn DEF OnBroadcast
  <2>2. Tail(conn[c][k].wire) \in Seq(Messages) /\ Head(conn[c][k].wire) \in Messages
    BY <2>1, HeadTailProperties DEF Connections
  <2>3. Append(t.queue, Head(conn[c][k].wire)) \in Seq(Messages)
    BY <1>0, <2>2, AppendProperties DEF Tabs
  <2>4. Append(t.loops, NextMessage) \in Seq(Loops)
    BY <1>0, UnusedType, AppendProperties DEF Tabs
  <2>5. [conn[c][k] EXCEPT !.wire = Tail(@)] \in Connections
    BY <2>1, <2>2 DEF Connections
  <2>6. conn' = [conn EXCEPT ![c][k] = [conn[c][k] EXCEPT !.wire = Tail(@)]]
    BY <1>0, <1>5 DEF OnBroadcast
  <2> DEFINE u == [t EXCEPT !.queue = Append(@, Head(conn[c][k].wire)),
                            !.processing = TRUE,
                            !.access = IF @ = "none" /\ c \in Banned /\ Head(conn[c][k].wire).kind = "batch"
                                       THEN "armed" ELSE @,
                            !.loops = IF client[c].processing THEN @ ELSE Append(@, NextMessage)]
  <2>7. u \in Tabs BY <1>0, <2>3, <2>4 DEF Tabs
  <2>8. client' = [client EXCEPT ![c] = u] /\ UNCHANGED server
    BY <1>5 DEF OnBroadcast, t
  <2> HIDE DEF u
  <2> QED BY <1>c, <2>5, <2>6, <2>7, <2>8
<1>6. ASSUME NEW i \in DOMAIN client[c].starts, ServeBaseline(c, i) PROVE Kept
  <2>1. client[c].starts[i] \in Starts BY StartTypes
  <2> DEFINE s == [client[c].starts[i] EXCEPT !.stage = "stream"]
  <2>2. s \in Starts BY <2>1 DEF Starts
  <2>3. [t.starts EXCEPT ![i] = s] \in Seq(Starts) BY <2>2, StartTypes DEF t
  <2>4. client' = [client EXCEPT ![c] = [t EXCEPT !.starts = [t.starts EXCEPT ![i] = s]]]
    BY <1>0, <1>6 DEF ServeBaseline, t, Tabs
  <2> HIDE DEF s
  <2>5. [t EXCEPT !.starts = [t.starts EXCEPT ![i] = s]] \in Tabs BY <1>0, <2>3 DEF Tabs
  <2>6. latestSeq' = latestSeq /\ storedSeq' = storedSeq /\ conn' = conn
    BY <1>6 DEF ServeBaseline
  <2> QED BY <1>0, <2>4, <2>5, <2>6 DEF ReplayTypeOK
<1>7. ASSUME NEW i \in DOMAIN client[c].starts, ApplyBaseline(c, i) PROVE Kept
  <2>1. client[c].starts[i] \in Starts BY StartTypes
  <2> DEFINE s == [client[c].starts[i] EXCEPT !.stage = "auth", !.base = storedSeq]
             u == [t EXCEPT !.view = Baseline(storedSeq), !.seq = storedSeq, !.refresh = FALSE,
                            !.opened = TRUE, !.starts = [t.starts EXCEPT ![i] = s]]
  <2>2. s \in Starts BY <1>0, <2>1 DEF Starts
  <2>3. [t.starts EXCEPT ![i] = s] \in Seq(Starts) BY <2>2, StartTypes DEF t
  <2>4. Baseline(storedSeq) \in Seq(Places) BY <1>0, BaselineShown
  <2>5. client' = [client EXCEPT ![c] = u]
    <3>1. client' = [client EXCEPT ![c] =
            [t EXCEPT !.view = Baseline(storedSeq), !.seq = storedSeq, !.refresh = FALSE,
                      !.opened = TRUE, !.starts[i] = s]]
      BY <1>7 DEF ApplyBaseline, t
    <3> HIDE DEF s
    <3> QED BY <1>0, <3>1 DEF Tabs
  <2>6. u \in Tabs
    <3> HIDE DEF s
    <3> QED BY <1>0, <2>3, <2>4 DEF Tabs
  <2> HIDE DEF u
  <2> QED BY <1>7, <1>a, <2>5, <2>6 DEF ApplyBaseline
<1>8. ASSUME NEW i \in DOMAIN client[c].starts, FetchFails(c, i) PROVE Kept
  <2>1. RemoveAt(t.starts, i) \in Seq(Starts) BY StartTypes DEF t
  <2> DEFINE u == [t EXCEPT !.starts = RemoveAt(@, i), !.timers = @ + 1]
  <2> DEFINE v == [t EXCEPT !.starts = RemoveAt(@, i)]
  <2>a. v \in Tabs /\ v.timers = t.timers /\ t.timers \in Nat BY <1>0, <2>1 DEF Tabs
  <2>2. u \in Tabs
    <3>1. u = [v EXCEPT !.timers = t.timers + 1] OBVIOUS
    <3> HIDE DEF u, v
    <3> QED BY <2>a, <3>1, TimersType
  <2>3. client' = [client EXCEPT ![c] = u] BY <1>8 DEF FetchFails, t
  <2> HIDE DEF u
  <2> QED BY <1>8, <1>a, <2>2, <2>3 DEF FetchFails
<1>9. ASSUME NEW i \in DOMAIN client[c].starts, NEW k \in Conn, OpenSocket(c, i, k) PROVE Kept
  <2> DEFINE s == client[c].starts[i]
             u == [t EXCEPT !.starts = RemoveAt(t.starts, i)]
             v == [u EXCEPT !.socket = IF s.reuse = None THEN k ELSE @]
             x == [Unused EXCEPT !.state = "connecting", !.base = s.base]
  <2>1. RemoveAt(t.starts, i) \in Seq(Starts) /\ s \in Starts BY StartTypes DEF t
  <2>2. u \in Tabs BY <1>0, <2>1 DEF Tabs
  <2>3. v \in Tabs
    <3> HIDE DEF u
    <3> QED BY <2>2 DEF Tabs
  <2>4. x \in Connections BY <2>1, UnusedType DEF Starts, Connections
  <2>5. CASE client' = [client EXCEPT ![c] = u] /\ UNCHANGED conn
    BY <1>9, <1>a, <2>2, <2>5 DEF OpenSocket
  <2>6. CASE conn' = [conn EXCEPT ![c][k] = x] /\ client' = [client EXCEPT ![c] = v]
    <3> HIDE DEF v, x
    <3> QED BY <1>9, <1>c, <2>3, <2>4, <2>6 DEF OpenSocket
  <2> QED BY <1>9, <2>5, <2>6 DEF OpenSocket, t
<1>10. ASSUME Reconnect(c) PROVE Kept
  <2> DEFINE u == [t EXCEPT !.timers = @ - 1]
  <2>a. t.timers \in Nat /\ t.timers > 0 BY <1>0, <1>10 DEF Reconnect, Tabs, t
  <2>b. t.timers - 1 \in Nat BY <2>a
  <2>1. u \in Tabs BY <1>0, <2>b, TimersType
  <2>2. client' = [client EXCEPT ![c] = Start(c, u)] BY <1>10 DEF Reconnect, t
  <2> HIDE DEF u
  <2> QED BY <1>10, <1>b, <2>1, <2>2, StartType DEF Reconnect
<1>11. ASSUME AccessRefresh(c) PROVE Kept
  <2> DEFINE u == [t EXCEPT !.access = "past"]
  <2>1. u \in Tabs BY <1>0 DEF Tabs
  <2>2. client' = [client EXCEPT ![c] = Start(c, u)] BY <1>0, <1>11 DEF AccessRefresh, t
  <2> HIDE DEF u
  <2> QED BY <1>11, <1>b, <2>1, <2>2, StartType DEF AccessRefresh
<1>12. ASSUME NEW i \in DOMAIN client[c].loops, EndLoop(c, i) PROVE Kept
  <2> DEFINE u == [t EXCEPT !.loops = RemoveAt(@, i), !.processing = FALSE]
  <2>1. RemoveAt(t.loops, i) \in Seq(Loops) BY LoopTypes DEF t
  <2>2. u \in Tabs BY <1>0, <2>1 DEF Tabs
  <2>3. client' = [client EXCEPT ![c] = u] BY <1>12 DEF EndLoop, t
  <2> HIDE DEF u
  <2> QED BY <1>12, <1>a, <2>2, <2>3 DEF EndLoop
<1>13. ASSUME NEW i \in DOMAIN client[c].loops, SkipStale(c, i) PROVE Kept
  BY <1>13, <1>a, ShiftedType DEF SkipStale, CanShift
<1>14. ASSUME NEW i \in DOMAIN client[c].loops, Gap(c, i) PROVE Kept
  <2>1. BeginResync(Shifted(c)) \in Tabs BY <1>14, ShiftedType, ResyncType DEF Gap, CanShift
  <2> QED BY <1>14, <1>b, <2>1, StartType DEF Gap
<1>15. ASSUME NEW i \in DOMAIN client[c].loops, Own(c, i) PROVE Kept
  <2>1. Received(c) \in Messages /\ Shifted(c) \in Tabs BY <1>15, ShiftedType DEF Own, CanShift
  <2>2. Received(c).to \in Nat BY <2>1 DEF Messages
  <2> DEFINE v == Promoted(Shifted(c).view, Received(c).mutation, Received(c).to)
             u == [Shifted(c) EXCEPT !.view = v, !.seq = Received(c).to]
  <2>3. v \in Seq(Places)
    <3>1. Shifted(c).view \in Seq(Places) BY <2>1 DEF Tabs
    <3> QED BY <2>2, <3>1, PromotedType
  <2> HIDE DEF v
  <2>4. u \in Tabs BY <2>1, <2>2, <2>3 DEF Tabs
  <2>5. client' = [client EXCEPT ![c] = u] BY <1>15, <2>1 DEF Own, Tabs, v
  <2> HIDE DEF u
  <2> QED BY <1>15, <1>a, <2>4, <2>5 DEF Own
<1>16. ASSUME NEW i \in DOMAIN client[c].loops, Take(c, i) PROVE Kept
  <2>1. /\ Received(c) \in Messages /\ Shifted(c) \in Tabs /\ Shifted(c).loops = t.loops
    BY <1>16, ShiftedType DEF Take, CanShift, t
  <2> DEFINE l == [phase |-> "draw", kind |-> Received(c).kind,
                   at |-> Received(c).from + 1, to |-> Received(c).to]
             u == [Shifted(c) EXCEPT !.loops = [t.loops EXCEPT ![i] = l]]
  <2>2. l \in Loops BY <2>1 DEF Messages, Loops
  <2>3. [t.loops EXCEPT ![i] = l] \in Seq(Loops)
    <3> HIDE DEF l
    <3> QED BY <2>2, LoopTypes DEF t
  <2>4. u \in Tabs
    <3> HIDE DEF l
    <3> QED BY <2>1, <2>3 DEF Tabs
  <2>5. client' = [client EXCEPT ![c] = u] BY <1>16, <2>1 DEF Take, Tabs
  <2> HIDE DEF u
  <2> QED BY <1>16, <1>a, <2>4, <2>5 DEF Take
<1>17. ASSUME NEW i \in DOMAIN client[c].loops, Draw(c, i) PROVE Kept
  <2> DEFINE l == client[c].loops[i]
             w == [l EXCEPT !.phase = "waiting"]
             u == [t EXCEPT !.pending = Append(@, l.at), !.loops[i].phase = "waiting"]
             v == [t EXCEPT !.view = Append(@, Drawn(l.at))]
  <2>1. l \in Loops /\ l.at \in Nat BY LoopTypes DEF Loops
  <2>2. Append(t.pending, l.at) \in Seq(Nat) /\ Append(t.view, Drawn(l.at)) \in Seq(Places)
    <3>1. Drawn(l.at) \in Places BY <2>1, PlaceTypes
    <3> QED BY <1>0, <2>1, <3>1, AppendProperties DEF Tabs
  <2>3. w \in Loops BY <2>1 DEF Loops
  <2>4. [t.loops EXCEPT ![i] = w] \in Seq(Loops)
    <3> HIDE DEF w
    <3> QED BY <2>3, LoopTypes DEF t
  <2>5. u \in Tabs
    <3> DEFINE y == [t EXCEPT !.pending = Append(@, l.at), !.loops = [t.loops EXCEPT ![i] = w]]
    <3>1. y \in Tabs
      <4> HIDE DEF w, l
      <4> QED BY <1>0, <2>2, <2>4 DEF Tabs
    <3>2. u = y BY <1>0 DEF Tabs, t
    <3> QED BY <3>1, <3>2
  <2>6. v \in Tabs /\ v.loops = t.loops
    <3> HIDE DEF l
    <3> QED BY <1>0, <2>2 DEF Tabs
  <2>7. Advance(v, i) \in Tabs
    <3> HIDE DEF v
    <3> QED BY <2>6, AdvanceType DEF t
  <2>8. client' = [client EXCEPT ![c] = u] \/ client' = [client EXCEPT ![c] = Advance(v, i)]
    BY <1>17 DEF Draw, t
  <2> HIDE DEF u, v
  <2> QED BY <1>17, <1>a, <2>5, <2>7, <2>8 DEF Draw
<1>18. ASSUME NEW i \in DOMAIN client[c].loops, Resume(c, i) PROVE Kept
  <2>1. Advance(t, i) \in Tabs BY <1>0, AdvanceType DEF t
  <2>2. client' = [client EXCEPT ![c] = Advance(t, i)] BY <1>0, <1>18 DEF Resume, t
  <2> QED BY <1>18, <1>a, <2>1, <2>2 DEF Resume
<1>19. ASSUME NEW i \in DOMAIN client[c].loops, CompleteReplay(c, i) PROVE Kept
  <2> DEFINE l == client[c].loops[i]
             u == [t EXCEPT !.seq = l.to, !.awaiting = FALSE, !.refresh = FALSE,
                            !.loops = [t.loops EXCEPT ![i] = NextMessage]]
  <2>1. l \in Loops /\ l.to \in Nat BY LoopTypes DEF Loops
  <2>2. [t.loops EXCEPT ![i] = NextMessage] \in Seq(Loops) BY LoopTypes, UnusedType DEF t
  <2>3. u \in Tabs
    <3> HIDE DEF l
    <3> QED BY <1>0, <2>1, <2>2 DEF Tabs
  <2>4. client' = [client EXCEPT ![c] = u] BY <1>0, <1>19 DEF CompleteReplay, t, Tabs
  <2> HIDE DEF u
  <2> QED BY <1>19, <1>a, <2>3, <2>4 DEF CompleteReplay
<1>20. ASSUME Mount(c) PROVE Kept
  <2> DEFINE drawn == [i \in DOMAIN t.loops |-> [t.loops[i] EXCEPT !.phase = "drawn"]]
             u == [t EXCEPT !.mounted = TRUE, 
                            !.view = @ \o [j \in DOMAIN client[c].pending |->
                                             Drawn(client[c].pending[j])],
                            !.pending = << >>,
                            !.loops = [i \in DOMAIN @ |->
                                         [client[c].loops[i] EXCEPT !.phase = "drawn"]]]
             shown == [j \in DOMAIN t.pending |-> Drawn(t.pending[j])]
             v == [t EXCEPT !.mounted = TRUE, !.view = t.view \o shown,
                            !.pending = << >>, !.loops = drawn]
  <2>a. shown \in Seq(Places)
    <3>1. t.pending \in Seq(Nat) /\ DOMAIN t.pending = 1..Len(t.pending) /\ Len(t.pending) \in Nat
      BY <1>0, LenProperties DEF Tabs
    <3>2. \A j \in 1..Len(t.pending) : t.pending[j] \in Nat BY <3>1, ElementOfSeq
    <3>3. shown \in [1..Len(t.pending) -> Places] BY <3>1, <3>2, PlaceTypes
    <3> HIDE DEF shown
    <3> QED BY <3>1, <3>3, FunctionIsSeq
  <2>1. t.view \o shown \in Seq(Places) /\ << >> \in Seq(Nat)
    <3> HIDE DEF shown
    <3> QED BY <1>0, <2>a, ConcatProperties, EmptySeq DEF Tabs
  <2>2. drawn \in Seq(Loops)
    <3>1. /\ t.loops \in Seq(Loops) /\ Len(t.loops) \in Nat
          /\ DOMAIN t.loops = 1..Len(t.loops)
      BY <1>0, LenProperties DEF Tabs
    <3>2. \A i \in 1..Len(t.loops) : t.loops[i] \in Loops BY <3>1, ElementOfSeq
    <3>3. drawn \in [1..Len(t.loops) -> Loops] BY <3>1, <3>2 DEF Loops
    <3> HIDE DEF drawn
    <3> QED BY <3>1, <3>3, FunctionIsSeq
  <2>3. client' = [client EXCEPT ![c] = u] BY <1>20 DEF Mount, t
  <2>4. u \in Tabs
    <3>1. v \in Tabs
      <4> HIDE DEF drawn, shown
      <4> QED BY <1>0, <2>1, <2>2 DEF Tabs
    <3>2. u = v BY <1>0 DEF Tabs, t
    <3> QED BY <3>1, <3>2
  <2> HIDE DEF u
  <2> QED BY <1>20, <1>a, <2>3, <2>4 DEF Mount
<1>21. ASSUME Send(c) PROVE Kept
  <2> DEFINE u == [t EXCEPT !.view = Append(t.view, Sent)]
             k == t.socket
             x == [conn[c][k] EXCEPT !.up = Append(conn[c][k].up, Len(t.view) + 1)]
  <2>1. k \in Conn BY <1>0, <1>21 DEF Send, IsConnected, Tabs, t
  <2>2. Append(t.view, Sent) \in Seq(Places) BY <1>0, SentType, AppendProperties DEF Tabs
  <2>3. u \in Tabs BY <1>0, <2>2 DEF Tabs
  <2>4. conn[c][k] \in Connections BY <2>1, TabAndConn
  <2>5. Len(t.view) + 1 \in Nat
    <3>1. Len(t.view) \in Nat BY <1>0, LenProperties DEF Tabs
    <3> QED BY <3>1
  <2>6. Append(conn[c][k].up, Len(t.view) + 1) \in Seq(Nat)
    BY <2>4, <2>5, AppendProperties DEF Connections
  <2>7. x \in Connections BY <2>4, <2>6 DEF Connections
  <2>8. client' = [client EXCEPT ![c] = u] /\ UNCHANGED server BY <1>0, <1>21 DEF Send, t, Tabs
  <2>9. conn' = [conn EXCEPT ![c][k] = x]
    <3>1. conn' = [conn EXCEPT ![c][k].up = Append(@, Len(t.view) + 1)] BY <1>21 DEF Send, t
    <3> QED BY <1>0, <2>1, <2>4, <3>1 DEF Connections
  <2> HIDE DEF u, x, k
  <2> QED BY <1>c, <2>1, <2>3, <2>7, <2>8, <2>9
<1> QED
  BY <1>1, <1>2, <1>3, <1>4, <1>5, <1>6, <1>7, <1>8, <1>9, <1>10, <1>11, <1>12, <1>13, <1>14,
     <1>15, <1>16, <1>17, <1>18, <1>19, <1>20, <1>21
  DEF TabStep, ConnectionStep, LoopStep

-----------------------------------------------------------------------------
(* What a tab has in each of its states *)

\* A tab that nothing has disturbed, in a state that FollowInv allows.
Steady(c) ==
  /\ ReplayTypeOK /\ Undisturbed(client[c])
  /\ DrawsInOrder(client[c]) /\ Follows(client[c], conn[c], latestSeq)

LEMMA SteadyTab ==
  ASSUME NEW c \in Client, Steady(c)
  PROVE  /\ client[c] \in Tabs /\ conn[c] \in [Conn -> Connections]
         /\ client \in [Client -> Tabs] /\ conn \in [Client -> [Conn -> Connections]]
         /\ latestSeq \in Nat /\ storedSeq \in Nat
         /\ DrawsInOrder(client[c]) /\ Follows(client[c], conn[c], latestSeq)
         /\ client[c].view \in Seq(Places) /\ client[c].seq \in Nat
         /\ client[c].queue \in Seq(Messages) /\ client[c].loops \in Seq(Loops)
         /\ Len(client[c].loops) <= 1 /\ client[c].timers \in Nat
<1>1. client[c] \in Tabs /\ conn[c] \in [Conn -> Connections] BY TabAndConn DEF Steady
<1> QED BY <1>1 DEF Steady, ReplayTypeOK, Tabs, DrawsInOrder

\* The loop that steps is the only one.
LEMMA OneLoop ==
  ASSUME NEW t \in Tabs, DrawsInOrder(t), NEW i \in DOMAIN t.loops
  PROVE  /\ i = 1 /\ Len(t.loops) = 1 /\ t.loops # << >> /\ 1 \in DOMAIN t.loops
         /\ t.loops[1] \in Loops /\ t.loops \in Seq(Loops)
         /\ LoopOK(t, t.loops[1]) /\ t.processing
<1>1. t.loops \in Seq(Loops) /\ Len(t.loops) <= 1 BY DEF Tabs, DrawsInOrder
<1>2. i = 1 /\ Len(t.loops) = 1 BY <1>1, AtMostOne
<1>3. t.loops # << >> BY <1>1, <1>2, EmptySeq
<1>4. 1 \in DOMAIN t.loops /\ t.loops[1] \in Loops BY <1>1, <1>3, AtMostOne
<1> QED BY <1>1, <1>2, <1>3, <1>4 DEF DrawsInOrder

LEMMA IsTheLoop ==
  ASSUME NEW t \in Tabs, DrawsInOrder(t), t.loops # << >>
  PROVE  1 \in DOMAIN t.loops
<1>1. t.loops \in Seq(Loops) /\ Len(t.loops) <= 1 BY DEF Tabs, DrawsInOrder
<1> QED BY <1>1, AtMostOne

\* A callback finds no loop, or one that waits for its tool.
LEMMA IdleLoop ==
  ASSUME NEW c \in Client, Steady(c), Idle(c), client[c].loops # << >>
  PROVE  client[c].loops[1].phase = "waiting" /\ 1 \in DOMAIN client[c].loops
<1>1. 1 \in DOMAIN client[c].loops BY SteadyTab, IsTheLoop
<1> QED BY <1>1 DEF Idle

\* Drawing depends on these fields only.
LEMMA SameDrawing ==
  ASSUME NEW t, NEW u, DrawsInOrder(t), u.pending = t.pending, u.loops = t.loops,
         u.view = t.view, u.seq = t.seq, t.loops # << >> => u.processing
  PROVE  DrawsInOrder(u)
  BY DEF DrawsInOrder, LoopOK, Showing

LEMMA DrawsWithoutLoop ==
  ASSUME NEW u, u.loops = << >>, u.pending = << >>, Shows(u.view, u.seq)
  PROVE  DrawsInOrder(u)
<1>1. << >> \in Seq(Loops) /\ Len(<< >>) = 0 /\ DOMAIN << >> = {} BY EmptySeq
<1> QED BY <1>1 DEF DrawsInOrder, Showing

LEMMA DrawsWithLoop ==
  ASSUME NEW u, u.loops \in Seq(Loops), Len(u.loops) = 1, u.processing,
         LoopOK(u, u.loops[1]), Shows(u.view, Showing(u))
  PROVE  DrawsInOrder(u)
<1>1. DOMAIN u.loops = 1..1 /\ u.loops # << >> BY LenProperties, EmptySeq
<1> QED BY <1>1 DEF DrawsInOrder

LEMMA UnusedIsClosed ==
  /\ Unused.state = "closed" /\ Unused.wire = << >> /\ Unused.base = 0 /\ Unused.up = << >>
  /\ Lost(Unused) = Unused
  BY DEF Unused, Lost

\* The only connection there is belongs to a tab that is online.
LEMMA OnlyConnection ==
  ASSUME NEW t, NEW xs, NEW latest, Follows(t, xs, latest),
         NEW k \in Conn, xs[k].state # "closed" \/ xs[k].wire # << >>
  PROVE  IsOnline(t, xs, latest) /\ k = t.socket
<1>1. xs[k] # Unused BY UnusedIsClosed
<1> QED BY <1>1 DEF Follows, IsOffline, IsOnline

LEMMA OnlyStart ==
  ASSUME NEW t \in Tabs, NEW xs, NEW latest, Follows(t, xs, latest), NEW i \in DOMAIN t.starts
  PROVE  /\ i = 1 /\ Len(t.starts) = 1 /\ t.starts # << >> /\ t.starts \in Seq(Starts)
         /\ t.starts[1] \in Starts
         /\ \A k \in Conn : xs[k] = Unused
         /\ t.queue = << >> /\ t.loops = << >> /\ t.timers = 0
         /\ t.refresh \/ Open(t.view) = {}
         /\ t.starts[1].reuse = t.socket
         /\ t.starts[1].stage = "auth" => t.starts[1].base = t.seq /\ Open(t.view) = {}
<1>1. t.starts \in Seq(Starts) BY DEF Tabs
<1>2. Len(t.starts) \in Nat /\ DOMAIN t.starts = 1..Len(t.starts) BY <1>1, LenProperties
<1>3. t.starts # << >> BY <1>1, <1>2, EmptySeq
<1>4. IsOffline(t, xs) BY <1>3 DEF Follows, IsOnline
<1>5. Len(t.starts) = 1 BY <1>3, <1>4 DEF IsOffline
<1>6. i = 1 BY <1>2, <1>5
<1>7. t.starts[1] \in Starts BY <1>1, <1>2, <1>6, ElementOfSeq
<1> QED BY <1>1, <1>3, <1>4, <1>5, <1>6, <1>7 DEF IsOffline

LEMMA OnlyTimer ==
  ASSUME NEW t \in Tabs, NEW xs, NEW latest, Follows(t, xs, latest), t.timers > 0
  PROVE  /\ t.timers = 1 /\ t.starts = << >> /\ t.queue = << >> /\ t.loops = << >>
         /\ t.refresh \/ Open(t.view) = {}
         /\ \A k \in Conn : xs[k] = Unused
<1>1. t.timers # 0 OBVIOUS
<1> QED BY <1>1 DEF Follows, IsOffline, IsOnline

\* A tab that has a drain loop is connected, or was until a moment ago.
LEMMA OnlyLoop ==
  ASSUME NEW t \in Tabs, NEW xs, NEW latest, Follows(t, xs, latest), t.loops # << >>
  PROVE  /\ t.socket \in Conn /\ t.starts = << >> /\ t.timers = 0
         /\ \A k \in Conn \ {t.socket} : xs[k] = Unused
         /\ \/ /\ xs[t.socket].state = "lost" /\ xs[t.socket].wire = << >>
               /\ Linked(t.queue, Reaches(t))
               /\ InTurn(t.socket, Open(t.view), t.queue)
            \/ /\ xs[t.socket].state = "open"
               /\ Leads(t.queue \o xs[t.socket].wire, Reaches(t), latest)
               /\ InTurn(t.socket, Open(t.view), t.queue \o xs[t.socket].wire)
               /\ OnTheirWay(t.socket, Open(t.view), t.queue \o xs[t.socket].wire,
                             xs[t.socket].up)
  BY DEF Follows, IsOffline, IsOnline

\* A loop that works on what it has taken changes nothing about where the tab
\* will be, nor about its own edits.
LEMMA SameReach ==
  ASSUME NEW t \in Tabs, NEW u \in Tabs, NEW xs, NEW latest, Follows(t, xs, latest),
         t.loops # << >>, u.queue = t.queue, Reaches(u) = Reaches(t),
         Open(u.view) = Open(t.view),
         u.socket = t.socket, u.starts = t.starts, u.timers = t.timers
  PROVE  Follows(u, xs, latest)
<1>1. IsOnline(u, xs, latest) BY OnlyLoop DEF IsOnline
<1> QED BY <1>1 DEF Follows

LEMMA QueueInTurn ==
  ASSUME NEW t \in Tabs, NEW xs \in [Conn -> Connections], NEW latest,
         Follows(t, xs, latest), t.loops # << >>
  PROVE  Linked(t.queue, Reaches(t)) /\ InTurn(t.socket, Open(t.view), t.queue)
<1>1. t.socket \in Conn BY OnlyLoop
<1>2. t.queue \in Seq(Messages) /\ xs[t.socket].wire \in Seq(Messages)
  BY <1>1 DEF Tabs, Connections
<1>3. CASE xs[t.socket].state = "lost" BY <1>3, OnlyLoop
<1>4. CASE xs[t.socket].state = "open"
  <2>1. Linked(t.queue \o xs[t.socket].wire, Reaches(t)) BY <1>4, OnlyLoop DEF Leads
  <2>2. InTurn(t.socket, Open(t.view), t.queue \o xs[t.socket].wire) BY <1>4, OnlyLoop
  <2> QED BY <1>2, <2>1, <2>2, LinkedFirst, FirstInTurn
<1> QED BY <1>3, <1>4, OnlyLoop

\* A loop takes the first message of the queue, with the place it answers.
LEMMA TakeFollows ==
  ASSUME NEW t \in Tabs, NEW u \in Tabs, NEW xs \in [Conn -> Connections], NEW latest,
         Follows(t, xs, latest), t.loops # << >>, t.queue # << >>,
         u.queue = Tail(t.queue), Reaches(u) = Head(t.queue).to,
         u.socket = t.socket, u.starts = t.starts, u.timers = t.timers,
         Open(t.view) \in SUBSET Nat,
         Open(u.view) = IF Answers(t.socket, Head(t.queue))
                        THEN Open(t.view) \ {Head(t.queue).mutation} ELSE Open(t.view)
  PROVE  Follows(u, xs, latest)
<1> DEFINE x == xs[t.socket]
           k == t.socket
           Z == Open(t.view)
           Y == Open(u.view)
<1>2. t.socket \in Conn BY OnlyLoop
<1>3. t.queue \in Seq(Messages) /\ x.wire \in Seq(Messages)
  BY <1>2 DEF Tabs, Connections
<1>a. ASSUME NEW ms \in Seq(Messages), ms # << >>, Head(ms) = Head(t.queue), InTurn(k, Z, ms)
      PROVE  /\ InTurn(k, Y, Tail(ms))
             /\ OnTheirWay(k, Z, ms, x.up) => OnTheirWay(k, Y, Tail(ms), x.up)
  <2> HIDE DEF k, Z, Y, x
  <2>1. CASE Answers(k, Head(ms))
    <3>1. Y = Z \ {Head(ms).mutation} BY <1>a, <2>1 DEF k, Z, Y
    <3>2. Z \in SUBSET Nat BY DEF Z
    <3> QED BY <1>a, <2>1, <3>1, <3>2, OwnTaken, OwnTakenOnTheirWay
  <2>2. CASE ~Answers(k, Head(ms))
    <3>1. Y = Z BY <1>a, <2>2 DEF k, Z, Y
    <3> QED BY <1>a, <2>2, <3>1, OthersTaken, OthersTakenOnTheirWay
  <2> QED BY <2>1, <2>2
<1>4. CASE x.state = "lost"
  <2>1. Linked(t.queue, Reaches(t)) /\ InTurn(k, Z, t.queue) BY <1>4, OnlyLoop
  <2>2. Linked(u.queue, Reaches(u)) BY <1>3, <2>1, LinkedTail
  <2>3. InTurn(k, Y, u.queue)
    <3> HIDE DEF k, Y, Z, x
    <3> QED BY <1>3, <1>a, <2>1
  <2>4. IsOnline(u, xs, latest) BY <1>4, <2>2, <2>3, OnlyLoop DEF IsOnline
  <2> QED BY <2>4 DEF Follows
<1>5. CASE x.state = "open"
  <2> DEFINE ms == t.queue \o x.wire
  <2>1. Leads(ms, Reaches(t), latest) /\ InTurn(k, Z, ms) /\ OnTheirWay(k, Z, ms, x.up)
    BY <1>5, OnlyLoop
  <2>2. /\ ms \in Seq(Messages) /\ ms # << >> /\ Head(ms) = Head(t.queue)
        /\ Tail(ms) = u.queue \o x.wire
    <3>1. ms \in Seq(Messages) BY <1>3, ConcatProperties
    <3>2. Head(ms) = Head(t.queue) /\ Tail(ms) = Tail(t.queue) \o x.wire /\ ms # << >>
      BY <1>3, MessageIsTaken
    <3> QED BY <3>1, <3>2
  <2> HIDE DEF ms
  <2>3. Leads(Tail(ms), Head(ms).to, latest) BY <2>1, <2>2, LinkedTail DEF Leads
  <2>4. Leads(u.queue \o x.wire, Reaches(u), latest) BY <2>2, <2>3
  <2>5. InTurn(k, Y, Tail(ms)) /\ OnTheirWay(k, Y, Tail(ms), x.up)
    <3> HIDE DEF k, Y, Z, x
    <3> QED BY <1>a, <2>1, <2>2
  <2>6. InTurn(k, Y, u.queue \o x.wire) /\ OnTheirWay(k, Y, u.queue \o x.wire, x.up)
    BY <2>2, <2>5
  <2>7. /\ u.socket \in Conn /\ u.starts = << >> /\ u.timers = 0
        /\ \A j \in Conn \ {u.socket} : xs[j] = Unused
    BY OnlyLoop
  <2>8. IsOnline(u, xs, latest)
    <3>1. /\ xs[u.socket].state = "open" /\ Leads(u.queue \o xs[u.socket].wire, Reaches(u), latest)
          /\ InTurn(u.socket, Open(u.view), u.queue \o xs[u.socket].wire)
          /\ OnTheirWay(u.socket, Open(u.view), u.queue \o xs[u.socket].wire, xs[u.socket].up)
      BY <1>5, <2>4, <2>6
    <3> HIDE DEF x, k, Y, Z
    <3> QED BY <2>7, <3>1 DEF IsOnline
  <2> QED BY <2>8 DEF Follows
<1> QED BY <1>4, <1>5, OnlyLoop

\* Connections may be lost, all or one of them.
LEMMA LostFollows ==
  ASSUME NEW t \in Tabs, NEW xs \in [Conn -> Connections], NEW ys, NEW latest,
         Follows(t, xs, latest), \A k \in Conn : ys[k] \in {xs[k], Lost(xs[k])}
  PROVE  Follows(t, ys, latest)
<1>1. CASE IsOffline(t, xs)
  <2>1. \A k \in Conn : ys[k] = Unused BY <1>1, UnusedIsClosed DEF IsOffline
  <2> QED BY <1>1, <2>1 DEF IsOffline, Follows
<1>2. CASE IsOnline(t, xs, latest)
  <2> DEFINE x == xs[t.socket]
             y == ys[t.socket]
  <2>1. /\ t.socket \in Conn /\ t.starts = << >> /\ t.timers = 0
        /\ \A k \in Conn \ {t.socket} : ys[k] = Unused
    BY <1>2, UnusedIsClosed DEF IsOnline
  <2>2. x \in Connections /\ (y = x \/ y = Lost(x)) BY <2>1
  <2>3. t.queue \in Seq(Messages) /\ x.wire \in Seq(Messages) BY <2>2 DEF Tabs, Connections
  <2>4. CASE y = x
    <3>1. IsOnline(t, ys, latest) BY <1>2, <2>1, <2>4 DEF IsOnline
    <3> QED BY <3>1 DEF Follows
  <2>5. CASE x.state = "open" /\ y = Lost(x)
    <3>1. y.state = "lost" /\ y.wire = << >> BY <2>2, <2>5 DEF Lost, Connections
    <3>2. /\ Linked(t.queue \o x.wire, Reaches(t))
          /\ InTurn(t.socket, Open(t.view), t.queue \o x.wire)
      BY <1>2, <2>5 DEF IsOnline, Leads
    <3>3. Linked(t.queue, Reaches(t)) BY <2>3, <3>2, LinkedFirst
    <3>4. InTurn(t.socket, Open(t.view), t.queue) BY <2>3, <3>2, FirstInTurn
    <3>5. IsOnline(t, ys, latest) BY <2>1, <3>1, <3>3, <3>4 DEF IsOnline
    <3> QED BY <3>5 DEF Follows
  <2>6. CASE x.state = "connecting" /\ y = Lost(x)
    <3>1. y.state = "failed" /\ y.wire = x.wire /\ y.base = x.base /\ y.up = x.up
      BY <2>2, <2>6 DEF Lost, Connections
    <3>2. /\ x.base = t.seq /\ x.wire = << >> /\ x.up = << >> /\ t.queue = << >>
          /\ t.loops = << >> /\ Open(t.view) = {}
      BY <1>2, <2>6 DEF IsOnline
    <3>3. IsOnline(t, ys, latest) BY <2>1, <3>1, <3>2 DEF IsOnline
    <3> QED BY <3>3 DEF Follows
  <2>7. x.state \notin {"open", "connecting"} => Lost(x) = x BY DEF Lost
  <2> QED BY <2>2, <2>4, <2>5, <2>6, <2>7
<1> QED BY <1>1, <1>2 DEF Follows

-----------------------------------------------------------------------------
(* The page is asked for; the connection is made, refused, lost and replaced *)

\* The step of tab c leaves it disturbed, or in a state that FollowInv allows.
KeepsUp(c) ==
  Undisturbed(client'[c]) =>
    DrawsInOrder(client'[c]) /\ Follows(client'[c], conn'[c], latestSeq)

LEMMA AdmitFollows ==
  ASSUME NEW c \in Client, Steady(c), NEW k \in Conn, Admit(c, k)
  PROVE  KeepsUp(c)
<1> DEFINE t == client[c]
           xs == conn[c]
           u == client'[c]
           ys == conn'[c]
           x == xs[k]
           y == IF Replayable(x.base)
                  THEN [x EXCEPT !.state = "open", !.wire = <<Batch(x.base, latestSeq)>>]
                  ELSE [x EXCEPT !.state = "refused"]
<1>0. /\ t \in Tabs /\ xs \in [Conn -> Connections] /\ latestSeq \in Nat
      /\ conn \in [Client -> [Conn -> Connections]]
      /\ DrawsInOrder(t) /\ Follows(t, xs, latestSeq) /\ t.seq \in Nat
  BY SteadyTab
<1>1. x.state = "connecting" /\ x \in Connections BY <1>0 DEF Admit
<1>2. IsOnline(t, xs, latestSeq) /\ k = t.socket
  <2>1. x.state # "closed" BY <1>1
  <2> HIDE DEF t, xs
  <2> QED BY <1>0, <2>1, OnlyConnection
<1>3. /\ x.base = t.seq /\ x.wire = << >> /\ x.up = << >> /\ t.queue = << >> /\ t.loops = << >>
      /\ t.starts = << >> /\ t.timers = 0 /\ Open(t.view) = {}
      /\ \A j \in Conn \ {k} : xs[j] = Unused
  BY <1>1, <1>2 DEF IsOnline
<1>4. u = t /\ ys = [xs EXCEPT ![k] = y] BY <1>0 DEF Admit
<1> HIDE DEF t, xs, u, ys
<1>5. ys[k] = y /\ \A j \in Conn \ {k} : ys[j] = Unused BY <1>0, <1>3, <1>4
<1>6. Reaches(t) = x.base BY <1>3 DEF Reaches
<1>7. CASE Replayable(x.base)
  <2> DEFINE m == Batch(x.base, latestSeq)
             w == <<m>>
  <2>1. x.base \in Nat BY <1>0, <1>3
  <2>2. m \in Messages /\ m.from = x.base /\ m.to = latestSeq /\ m.kind = "batch"
    BY <1>0, <1>7, <2>1 DEF Batch, Messages, Replayable, None
  <2>3. ~Answers(k, m) BY <2>2 DEF Answers
  <2>4. w \in Seq(Messages) /\ Append(<< >>, m) = w
    <3> HIDE DEF m
    <3> QED BY <2>2, OneElement, AppendToNone
  <2>5. y.state = "open" /\ y.wire = w /\ y.up = << >>
    <3>1. y = [x EXCEPT !.state = "open", !.wire = w] BY <1>7
    <3> HIDE DEF w, x, y
    <3> QED BY <1>1, <1>3, <3>1 DEF Connections
  <2>6. t.queue \o w = w
    <3> HIDE DEF w
    <3> QED BY <1>3, <2>4, ConcatEmptySeq
  <2>7. Leads(<< >>, x.base, m.from)
    <3>1. DOMAIN << >> = {} BY EmptySeq
    <3> QED BY <2>2, <3>1 DEF Leads, Linked, End
  <2>8. << >> \in Seq(Messages) BY EmptySeq
  <2>9. Leads(Append(<< >>, m), x.base, m.to)
    <3> HIDE DEF m, x
    <3> QED BY <2>2, <2>7, <2>8, LeadsAppend
  <2>10. InTurn(k, {}, w) /\ OnTheirWay(k, {}, w, << >>)
    <3> HIDE DEF m
    <3> QED BY <2>2, <2>3, NothingUnderWay
  <2> HIDE DEF m, w, x, y
  <2>11. Leads(t.queue \o ys[k].wire, Reaches(t), latestSeq)
    BY <1>5, <1>6, <2>2, <2>4, <2>5, <2>6, <2>9
  <2>12. /\ InTurn(k, Open(t.view), t.queue \o ys[k].wire)
         /\ OnTheirWay(k, Open(t.view), t.queue \o ys[k].wire, ys[k].up)
    BY <1>3, <1>5, <2>5, <2>6, <2>10
  <2>13. IsOnline(u, ys, latestSeq)
    BY <1>2, <1>3, <1>4, <1>5, <2>5, <2>11, <2>12 DEF IsOnline
  <2> QED BY <1>0, <1>4, <2>13 DEF KeepsUp, Follows, u, ys
<1>8. CASE ~Replayable(x.base)
  <2>1. y.state = "refused" /\ y.base = x.base /\ y.wire = x.wire /\ y.up = x.up
    <3> HIDE DEF x
    <3> QED BY <1>1, <1>8 DEF Connections
  <2> HIDE DEF x, y
  <2>2. IsOnline(u, ys, latestSeq) BY <1>2, <1>3, <1>4, <1>5, <2>1 DEF IsOnline
  <2> QED BY <1>0, <1>4, <2>2 DEF KeepsUp, Follows, u, ys
<1> QED BY <1>7, <1>8

LEMMA DropFollows ==
  ASSUME NEW c \in Client, Steady(c), NEW k \in Conn, Drop(c, k)
  PROVE  KeepsUp(c)
<1>1. client'[c] = client[c] /\ \A j \in Conn : conn'[c][j] \in {conn[c][j], Lost(conn[c][j])}
  BY SteadyTab DEF Drop
<1>2. Follows(client[c], conn'[c], latestSeq) BY <1>1, SteadyTab, LostFollows
<1> QED BY <1>1, <1>2, SteadyTab DEF KeepsUp

\* What a tab is that has lost its connection and will try again.
LEMMA WaitsToReconnect ==
  ASSUME NEW u, NEW ys, NEW latest, \A k \in Conn : ys[k] = Unused,
         u.queue = << >>, u.loops = << >>, u.starts = << >>, u.timers = 1,
         u.refresh \/ Open(u.view) = {}
  PROVE  Follows(u, ys, latest)
  BY DEF Follows, IsOffline

LEMMA ConnectErrorFollows ==
  ASSUME NEW c \in Client, Steady(c), NEW k \in Conn, OnConnectError(c, k)
  PROVE  KeepsUp(c)
<1> DEFINE t == client[c]
           xs == conn[c]
           u == client'[c]
           ys == conn'[c]
<1>0. /\ t \in Tabs /\ xs \in [Conn -> Connections] /\ client \in [Client -> Tabs]
      /\ conn \in [Client -> [Conn -> Connections]]
      /\ DrawsInOrder(t) /\ Follows(t, xs, latestSeq)
  BY SteadyTab
<1>1. xs[k].state \in {"refused", "failed"} BY DEF OnConnectError
<1>2. IsOnline(t, xs, latestSeq) /\ k = t.socket
  <2>1. xs[k].state # "closed" BY <1>1
  <2> HIDE DEF t, xs
  <2> QED BY <1>0, <2>1, OnlyConnection
<1>3. /\ t.queue = << >> /\ t.loops = << >> /\ t.starts = << >> /\ t.timers = 0
      /\ Open(t.view) = {}
      /\ \A j \in Conn \ {k} : xs[j] = Unused
  BY <1>1, <1>2 DEF IsOnline
<1>4. ys = [xs EXCEPT ![k] = Unused] BY <1>0 DEF OnConnectError
<1> DEFINE b == BeginResync(t)
           r == [b EXCEPT !.socket = None]
<1>5. u = [r EXCEPT !.timers = r.timers + 1] \/ u = [t EXCEPT !.timers = t.timers + 1]
  BY <1>0, <1>2 DEF OnConnectError
<1> HIDE DEF t, xs, u, ys
<1>6. \A j \in Conn : ys[j] = Unused BY <1>0, <1>3, <1>4
<1>7. /\ b \in Tabs /\ b.queue = << >> /\ b.view = t.view /\ b.seq = t.seq
      /\ b.loops = t.loops /\ b.starts = t.starts /\ b.timers = t.timers
      /\ b.pending = t.pending
  <2>1. \A f \in {"view", "seq", "loops", "starts", "timers", "pending"} :
          BeginResync(t)[f] = t[f]
    BY <1>0, ResyncType
  <2> QED BY <1>0, <2>1, ResyncType
<1> HIDE DEF b
<1>8. /\ r \in Tabs /\ r.queue = << >> /\ r.view = t.view /\ r.seq = t.seq
      /\ r.loops = << >> /\ r.starts = << >> /\ r.timers = 0 /\ r.pending = t.pending
  BY <1>0, <1>3, <1>7 DEF Tabs
<1> HIDE DEF r
<1>9. /\ u.queue = << >> /\ u.loops = << >> /\ u.starts = << >> /\ u.timers = 1
      /\ u.view = t.view /\ u.seq = t.seq /\ u.pending = t.pending
  <2>1. CASE u = [r EXCEPT !.timers = r.timers + 1] BY <1>8, <2>1 DEF Tabs
  <2>2. CASE u = [t EXCEPT !.timers = t.timers + 1] BY <1>0, <1>3, <2>2 DEF Tabs
  <2> QED BY <1>5, <2>1, <2>2
<1>10. DrawsInOrder(u) BY <1>0, <1>3, <1>9, SameDrawing
<1>11. Follows(u, ys, latestSeq) BY <1>3, <1>6, <1>9, WaitsToReconnect
<1> QED BY <1>10, <1>11 DEF KeepsUp, u, ys

\* A loop that waits for its tool when the connection is lost is overtaken.
LEMMA DisconnectFollows ==
  ASSUME NEW c \in Client, Steady(c), NEW k \in Conn, OnDisconnect(c, k)
  PROVE  KeepsUp(c)
<1> DEFINE t == client[c]
           xs == conn[c]
           u == client'[c]
           ys == conn'[c]
<1>0. /\ t \in Tabs /\ xs \in [Conn -> Connections] /\ client \in [Client -> Tabs]
      /\ conn \in [Client -> [Conn -> Connections]]
      /\ DrawsInOrder(t) /\ Follows(t, xs, latestSeq)
  BY SteadyTab
<1>1. xs[k].state = "lost" /\ Idle(c) BY DEF OnDisconnect
<1>2. IsOnline(t, xs, latestSeq) /\ k = t.socket
  <2>1. xs[k].state # "closed" BY <1>1
  <2> HIDE DEF t, xs
  <2> QED BY <1>0, <2>1, OnlyConnection
<1>3. /\ t.starts = << >> /\ t.timers = 0
      /\ \A j \in Conn \ {k} : xs[j] = Unused
  BY <1>1, <1>2 DEF IsOnline
<1>4. ys = [xs EXCEPT ![k] = Unused] BY <1>0 DEF OnDisconnect
<1>w. t.loops # << >> => t.loops[1].phase = "waiting" /\ 1 \in DOMAIN t.loops
  BY <1>1, IdleLoop
<1> DEFINE b == BeginResync(t)
<1>5. u = [b EXCEPT !.timers = b.timers + 1] BY <1>0, <1>2 DEF OnDisconnect
<1> HIDE DEF t, xs, u, ys
<1>6. \A j \in Conn : ys[j] = Unused BY <1>0, <1>3, <1>4
<1>7. /\ b \in Tabs /\ b.queue = << >> /\ b.refresh /\ b.view = t.view /\ b.seq = t.seq
      /\ b.loops = t.loops /\ b.starts = t.starts /\ b.timers = t.timers
      /\ b.pending = t.pending
      /\ b.overtaken = (t.overtaken \/ \E i \in DOMAIN t.loops : t.loops[i].phase = "waiting")
  <2>1. \A f \in {"view", "seq", "loops", "starts", "timers", "pending"} :
          BeginResync(t)[f] = t[f]
    BY <1>0, ResyncType
  <2>2. /\ BeginResync(t) \in Tabs
        /\ BeginResync(t).queue = << >> /\ BeginResync(t).refresh
        /\ BeginResync(t).overtaken =
             (t.overtaken \/ \E i \in DOMAIN t.loops : t.loops[i].phase = "waiting")
    BY <1>0, ResyncType
  <2> QED BY <2>1, <2>2
<1> HIDE DEF b
<1>8. /\ u.queue = << >> /\ u.refresh /\ u.loops = t.loops /\ u.starts = << >>
      /\ u.timers = 1 /\ u.view = t.view /\ u.seq = t.seq /\ u.pending = t.pending
      /\ u.overtaken = b.overtaken
  BY <1>0, <1>3, <1>5, <1>7 DEF Tabs
<1>9. CASE t.loops = << >>
  <2>1. DrawsInOrder(u) BY <1>0, <1>8, <1>9, SameDrawing
  <2>2. Follows(u, ys, latestSeq) BY <1>6, <1>8, <1>9, WaitsToReconnect
  <2> QED BY <2>1, <2>2 DEF KeepsUp, u, ys
<1>10. CASE t.loops # << >>
  <2>1. \E i \in DOMAIN t.loops : t.loops[i].phase = "waiting" BY <1>w, <1>10
  <2>2. u.overtaken BY <1>7, <1>8, <2>1
  <2> QED BY <2>2 DEF KeepsUp, Undisturbed, u
<1> QED BY <1>9, <1>10

LEMMA BroadcastFollows ==
  ASSUME NEW c \in Client, Steady(c), NEW k \in Conn, OnBroadcast(c, k)
  PROVE  KeepsUp(c)
<1> DEFINE t == client[c]
           xs == conn[c]
           u == client'[c]
           ys == conn'[c]
           x == xs[k]
           y == [x EXCEPT !.wire = Tail(x.wire)]
           q == Append(t.queue, Head(x.wire))
<1>0. /\ t \in Tabs /\ xs \in [Conn -> Connections] /\ client \in [Client -> Tabs]
      /\ conn \in [Client -> [Conn -> Connections]] /\ t.queue \in Seq(Messages)
      /\ t.loops \in Seq(Loops) /\ DrawsInOrder(t) /\ Follows(t, xs, latestSeq)
  BY SteadyTab
<1>1. x.wire # << >> /\ Idle(c) /\ x \in Connections BY <1>0 DEF OnBroadcast
<1>2. IsOnline(t, xs, latestSeq) /\ k = t.socket
  <2> HIDE DEF t
  <2> QED BY <1>0, <1>1, OnlyConnection
<1>3. /\ x.state = "open" /\ Leads(t.queue \o x.wire, Reaches(t), latestSeq)
      /\ InTurn(k, Open(t.view), t.queue \o x.wire)
      /\ OnTheirWay(k, Open(t.view), t.queue \o x.wire, x.up)
      /\ t.starts = << >> /\ t.timers = 0
      /\ \A j \in Conn \ {k} : xs[j] = Unused
  BY <1>1, <1>2 DEF IsOnline
<1>4. ys = [xs EXCEPT ![k] = y] BY <1>0 DEF OnBroadcast
<1>w. t.loops # << >> => t.loops[1].phase = "waiting" BY <1>1, IdleLoop
<1>5. /\ u.queue = q /\ u.seq = t.seq /\ u.socket = t.socket /\ u.starts = t.starts
      /\ u.timers = t.timers /\ u.view = t.view /\ u.pending = t.pending /\ u.processing
      /\ u.loops = IF t.processing THEN t.loops ELSE Append(t.loops, NextMessage)
  BY <1>0 DEF OnBroadcast, Tabs
<1> HIDE DEF t, xs, u, ys
<1>6. ys[k] = y /\ \A j \in Conn \ {k} : ys[j] = Unused BY <1>0, <1>3, <1>4
<1>7. y.state = "open" /\ y.wire = Tail(x.wire) /\ y.up = x.up /\ x.wire \in Seq(Messages)
  <2> HIDE DEF x
  <2> QED BY <1>1, <1>3 DEF Connections
<1>8. q \o Tail(x.wire) = t.queue \o x.wire BY <1>0, <1>1, <1>7, MessageArrives
<1>9. \/ u.loops = t.loops
      \/ t.loops = << >> /\ u.loops = <<NextMessage>>
  <2>1. CASE t.processing BY <1>5, <2>1
  <2>2. CASE ~t.processing
    <3>1. t.loops = << >> BY <1>0, <2>2 DEF DrawsInOrder
    <3>2. Append(<< >>, NextMessage) = <<NextMessage>> BY UnusedType, AppendToNone
    <3> QED BY <1>5, <2>2, <3>1, <3>2
  <2> QED BY <2>1, <2>2
<1>n. /\ <<NextMessage>> \in Seq(Loops) /\ Len(<<NextMessage>>) = 1
      /\ <<NextMessage>>[1] = NextMessage /\ NextMessage.phase = "next"
  BY UnusedType, OneElement DEF NextMessage
<1> HIDE DEF q, x, y
<1>10. DrawsInOrder(u)
  <2>1. CASE u.loops = t.loops BY <1>0, <1>5, <2>1, SameDrawing
  <2>2. CASE t.loops = << >> /\ u.loops = <<NextMessage>>
    <3>1. t.pending = << >> /\ Shows(t.view, t.seq) BY <1>0, <2>2 DEF DrawsInOrder, Showing
    <3>2. Showing(u) = t.seq BY <1>5, <1>n, <2>2 DEF Showing
    <3>3. LoopOK(u, u.loops[1]) BY <1>5, <1>n, <2>2, <3>1 DEF LoopOK
    <3> QED BY <1>5, <1>n, <2>2, <3>1, <3>2, <3>3, DrawsWithLoop
  <2> QED BY <1>9, <2>1, <2>2
<1>11. Reaches(u) = Reaches(t)
  <2>1. CASE u.loops = t.loops BY <1>5, <2>1 DEF Reaches
  <2>2. CASE t.loops = << >> /\ u.loops = <<NextMessage>> BY <1>5, <1>n, <2>2 DEF Reaches
  <2> QED BY <1>9, <2>1, <2>2
<1>12. /\ Leads(u.queue \o ys[k].wire, Reaches(u), latestSeq)
       /\ InTurn(k, Open(u.view), u.queue \o ys[k].wire)
       /\ OnTheirWay(k, Open(u.view), u.queue \o ys[k].wire, ys[k].up)
  BY <1>3, <1>5, <1>6, <1>7, <1>8, <1>11
<1>13. IsOnline(u, ys, latestSeq) BY <1>2, <1>3, <1>5, <1>6, <1>7, <1>12 DEF IsOnline
<1> QED BY <1>10, <1>13 DEF KeepsUp, Follows, u, ys

LEMMA ServeFollows ==
  ASSUME NEW c \in Client, Steady(c), NEW i \in DOMAIN client[c].starts, ServeBaseline(c, i)
  PROVE  KeepsUp(c)
<1> DEFINE t == client[c]
           xs == conn[c]
           u == client'[c]
           s == [t.starts[1] EXCEPT !.stage = "stream"]
           ss == [t.starts EXCEPT ![1] = s]
<1>0. /\ t \in Tabs /\ client \in [Client -> Tabs] /\ DrawsInOrder(t)
      /\ Follows(t, xs, latestSeq)
  BY SteadyTab
<1>1. /\ i = 1 /\ t.starts # << >> /\ t.starts \in Seq(Starts) /\ Len(t.starts) = 1
      /\ t.starts[1] \in Starts
      /\ \A k \in Conn : xs[k] = Unused
      /\ t.queue = << >> /\ t.loops = << >> /\ t.timers = 0
      /\ t.refresh \/ Open(t.view) = {}
      /\ t.starts[1].reuse = t.socket
  <2>1. i \in DOMAIN t.starts OBVIOUS
  <2> HIDE DEF t, xs
  <2> QED BY <1>0, <2>1, OnlyStart
<1>2. conn' = conn BY DEF ServeBaseline
<1>3. u = [t EXCEPT !.starts = ss] BY <1>0, <1>1 DEF ServeBaseline, Tabs
<1> HIDE DEF t, xs, u
<1>4. s \in Starts /\ s.stage = "stream" /\ s.reuse = t.socket BY <1>1 DEF Starts
<1>5. Len(ss) = 1 /\ ss[1] = s
  <2> HIDE DEF s
  <2> QED BY <1>1, <1>4, AtMostOne
<1> HIDE DEF s, ss
<1>6. /\ u.starts = ss /\ u.queue = << >> /\ u.loops = << >> /\ u.timers = 0
      /\ u.socket = t.socket /\ u.view = t.view /\ u.seq = t.seq /\ u.pending = t.pending
      /\ u.refresh = t.refresh
  BY <1>0, <1>1, <1>3 DEF Tabs
<1>7. DrawsInOrder(u) BY <1>0, <1>1, <1>6, SameDrawing
<1>8. IsOffline(u, xs) BY <1>1, <1>4, <1>5, <1>6 DEF IsOffline
<1> QED BY <1>2, <1>7, <1>8 DEF KeepsUp, Follows, u, xs

LEMMA ApplyFollows ==
  ASSUME NEW c \in Client, Steady(c), NEW i \in DOMAIN client[c].starts, ApplyBaseline(c, i)
  PROVE  KeepsUp(c)
<1> DEFINE t == client[c]
           xs == conn[c]
           u == client'[c]
           s == [t.starts[1] EXCEPT !.stage = "auth", !.base = storedSeq]
           ss == [t.starts EXCEPT ![1] = s]
<1>0. /\ t \in Tabs /\ client \in [Client -> Tabs] /\ DrawsInOrder(t)
      /\ Follows(t, xs, latestSeq) /\ storedSeq \in Nat
  BY SteadyTab
<1>1. /\ i = 1 /\ t.starts # << >> /\ t.starts \in Seq(Starts) /\ Len(t.starts) = 1
      /\ t.starts[1] \in Starts
      /\ \A k \in Conn : xs[k] = Unused
      /\ t.queue = << >> /\ t.loops = << >> /\ t.timers = 0
      /\ t.starts[1].reuse = t.socket
  <2>1. i \in DOMAIN t.starts OBVIOUS
  <2> HIDE DEF t, xs
  <2> QED BY <1>0, <2>1, OnlyStart
<1>2. conn' = conn BY DEF ApplyBaseline
<1>3. client' = [client EXCEPT ![c] =
        [t EXCEPT !.view = Baseline(storedSeq), !.seq = storedSeq, !.refresh = FALSE,
                  !.opened = TRUE, !.starts[1] = s]]
  BY <1>1 DEF ApplyBaseline
<1>4. /\ u.starts = ss /\ u.queue = << >> /\ u.loops = << >> /\ u.timers = 0
      /\ u.socket = t.socket /\ u.view = Baseline(storedSeq) /\ u.seq = storedSeq
      /\ u.pending = t.pending
  <2> HIDE DEF s
  <2> QED BY <1>0, <1>1, <1>3 DEF Tabs
<1> HIDE DEF t, xs, u
<1>5. s \in Starts /\ s.base = storedSeq /\ s.reuse = t.socket BY <1>0, <1>1 DEF Starts
<1>6. Len(ss) = 1 /\ ss[1] = s
  <2> HIDE DEF s
  <2> QED BY <1>1, <1>5, AtMostOne
<1> HIDE DEF s, ss
<1>7. Shows(u.view, u.seq) /\ Open(u.view) = {} BY <1>0, <1>4, BaselineShown
<1>8. t.pending = << >> BY <1>0, <1>1 DEF DrawsInOrder
<1>9. DrawsInOrder(u) BY <1>4, <1>7, <1>8, DrawsWithoutLoop
<1>10. IsOffline(u, xs) BY <1>1, <1>4, <1>5, <1>6, <1>7 DEF IsOffline
<1> QED BY <1>2, <1>9, <1>10 DEF KeepsUp, Follows, u, xs

LEMMA FetchFollows ==
  ASSUME NEW c \in Client, Steady(c), NEW i \in DOMAIN client[c].starts, FetchFails(c, i)
  PROVE  KeepsUp(c)
<1> DEFINE t == client[c]
           xs == conn[c]
           u == client'[c]
<1>0. /\ t \in Tabs /\ client \in [Client -> Tabs] /\ DrawsInOrder(t)
      /\ Follows(t, xs, latestSeq)
  BY SteadyTab
<1>1. /\ i = 1 /\ t.starts # << >> /\ t.starts \in Seq(Starts) /\ Len(t.starts) = 1
      /\ \A k \in Conn : xs[k] = Unused
      /\ t.queue = << >> /\ t.loops = << >> /\ t.timers = 0
      /\ t.refresh \/ Open(t.view) = {}
  <2>1. i \in DOMAIN t.starts OBVIOUS
  <2> HIDE DEF t, xs
  <2> QED BY <1>0, <2>1, OnlyStart
<1>2. RemoveAt(t.starts, i) = << >>
  <2>1. i \in DOMAIN t.starts OBVIOUS
  <2> HIDE DEF t
  <2> QED BY <1>1, <2>1, RemoveAtType
<1>3. conn' = conn BY DEF FetchFails
<1>4. /\ u.starts = << >> /\ u.queue = << >> /\ u.loops = << >> /\ u.timers = 1
      /\ u.view = t.view /\ u.seq = t.seq /\ u.pending = t.pending /\ u.refresh = t.refresh
  BY <1>0, <1>1, <1>2 DEF FetchFails, Tabs
<1> HIDE DEF t, xs, u
<1>5. DrawsInOrder(u) BY <1>0, <1>1, <1>4, SameDrawing
<1>6. Follows(u, xs, latestSeq) BY <1>1, <1>4, WaitsToReconnect
<1> QED BY <1>3, <1>5, <1>6 DEF KeepsUp, u, xs

LEMMA OpenFollows ==
  ASSUME NEW c \in Client, Steady(c), NEW i \in DOMAIN client[c].starts,
         NEW k \in Conn, OpenSocket(c, i, k)
  PROVE  KeepsUp(c)
<1> DEFINE t == client[c]
           xs == conn[c]
           u == client'[c]
           ys == conn'[c]
           s == t.starts[1]
<1>0. /\ t \in Tabs /\ client \in [Client -> Tabs] /\ xs \in [Conn -> Connections]
      /\ conn \in [Client -> [Conn -> Connections]]
      /\ DrawsInOrder(t) /\ Follows(t, xs, latestSeq)
  BY SteadyTab
<1>1. /\ i = 1 /\ t.starts # << >> /\ t.starts \in Seq(Starts) /\ Len(t.starts) = 1
      /\ s \in Starts
      /\ \A j \in Conn : xs[j] = Unused
      /\ t.queue = << >> /\ t.loops = << >> /\ t.timers = 0
      /\ s.reuse = t.socket
      /\ s.stage = "auth" => s.base = t.seq /\ Open(t.view) = {}
  <2>1. i \in DOMAIN t.starts OBVIOUS
  <2> HIDE DEF t, xs
  <2> QED BY <1>0, <2>1, OnlyStart
<1>2. s.stage = "auth" /\ s.reuse \in Conn \union {None}
  <2>1. s.stage = "auth" BY <1>1 DEF OpenSocket
  <2> HIDE DEF s
  <2> QED BY <1>1, <2>1 DEF Starts
<1>3. ~ (s.reuse # None /\ xs[s.reuse].state # "closed") BY <1>1, <1>2, UnusedIsClosed
<1>4. RemoveAt(t.starts, i) = << >>
  <2>1. i \in DOMAIN t.starts OBVIOUS
  <2> HIDE DEF t
  <2> QED BY <1>1, <2>1, RemoveAtType
<1> DEFINE v == [t EXCEPT !.starts = << >>]
           w == [v EXCEPT !.socket = IF s.reuse = None THEN k ELSE v.socket]
           x == [Unused EXCEPT !.state = "connecting", !.base = s.base]
<1>5. /\ s.reuse # None => k = s.reuse
      /\ ys = [xs EXCEPT ![k] = x] /\ u = w
  <2>1. /\ s.reuse # None => k = s.reuse
        /\ conn' = [conn EXCEPT ![c][k] = x]
        /\ client' = [client EXCEPT ![c] = w]
    BY <1>0, <1>1, <1>3, <1>4 DEF OpenSocket
  <2> HIDE DEF w, x
  <2> QED BY <1>0, <2>1
<1> HIDE DEF t, xs, u, ys
<1>6. /\ v.starts = << >> /\ v.queue = << >> /\ v.loops = << >> /\ v.timers = 0
      /\ v.socket = t.socket /\ v.seq = t.seq /\ v \in Tabs /\ v.view = t.view
      /\ v.pending = t.pending
  <2>1. << >> \in Seq(Starts) BY EmptySeq
  <2> QED BY <1>0, <1>1, <2>1 DEF Tabs
<1>7. /\ w.socket = k /\ w.starts = << >> /\ w.queue = << >> /\ w.loops = << >>
      /\ w.timers = 0 /\ w.seq = t.seq /\ w.view = t.view /\ w.pending = t.pending
  <2>1. (IF s.reuse = None THEN k ELSE v.socket) = k BY <1>1, <1>5, <1>6
  <2>2. w = [v EXCEPT !.socket = k] BY <2>1
  <2> HIDE DEF v, w
  <2> QED BY <1>6, <2>2 DEF Tabs
<1>8. x.state = "connecting" /\ x.base = t.seq /\ x.wire = << >> /\ x.up = << >>
  BY <1>1, <1>2 DEF Unused
<1> HIDE DEF s, v, w, x
<1>9. ys[k] = x /\ \A j \in Conn \ {k} : ys[j] = Unused BY <1>0, <1>1, <1>5
<1>10. Open(u.view) = {} BY <1>1, <1>2, <1>5, <1>7
<1>11. IsOnline(u, ys, latestSeq) BY <1>5, <1>7, <1>8, <1>9, <1>10 DEF IsOnline
<1>12. DrawsInOrder(u) BY <1>0, <1>1, <1>5, <1>7, SameDrawing
<1> QED BY <1>11, <1>12 DEF KeepsUp, Follows, u, ys

LEMMA ReconnectFollows ==
  ASSUME NEW c \in Client, Steady(c), Reconnect(c)
  PROVE  KeepsUp(c)
<1> DEFINE t == client[c]
           xs == conn[c]
           u == client'[c]
           ys == conn'[c]
           n == t.timers - 1
           v == [t EXCEPT !.timers = n]
<1>0. /\ t \in Tabs /\ client \in [Client -> Tabs] /\ DrawsInOrder(t)
      /\ Follows(t, xs, latestSeq)
  BY SteadyTab
<1>1. t.timers > 0 BY DEF Reconnect
<1>2. u = Start(c, v) BY <1>0 DEF Reconnect
<1>a. t.socket \in Conn \union {None} BY <1>0 DEF Tabs
<1>b. /\ t.timers = 1 /\ t.starts = << >> /\ t.queue = << >> /\ t.loops = << >>
      /\ t.refresh \/ Open(t.view) = {}
      /\ \A k \in Conn : xs[k] = Unused
  <2> HIDE DEF t, xs
  <2> QED BY <1>0, <1>1, OnlyTimer
<1>c. ~IsConnected(c, t.socket) BY <1>a, <1>b, UnusedIsClosed DEF IsConnected
<1>d. ys = xs BY <1>c DEF Reconnect, CloseCurrent
<1> HIDE DEF t, xs, u, ys
<1>3. /\ v \in Tabs /\ v.timers = 0 /\ v.starts = << >> /\ v.queue = << >> /\ v.loops = << >>
      /\ v.socket = t.socket /\ v.seq = t.seq /\ v.view = t.view /\ v.pending = t.pending
      /\ v.refresh = t.refresh
  <2>1. n = 0 BY <1>b
  <2> HIDE DEF n
  <2> QED BY <1>0, <1>b, <2>1 DEF Tabs
<1> HIDE DEF v
<1> DEFINE s == [stage |-> IF v.refresh THEN "ask" ELSE "auth", base |-> v.seq,
                 reuse |-> v.socket]
           p == Append(v.starts, s)
<1>4. u = [v EXCEPT !.socket = v.socket, !.awaiting = TRUE, !.starts = p]
  BY <1>2, <1>3, <1>c DEF Start
<1>5. Len(p) = 1 /\ p[1] = s /\ p \in Seq(Starts)
  <2>1. s \in Starts BY <1>3 DEF Tabs, Starts
  <2> HIDE DEF s
  <2>2. Append(<< >>, s) = <<s>> BY <2>1, AppendToNone
  <2> QED BY <1>3, <2>1, <2>2, OneElement
<1>6. s.reuse = v.socket /\ s.base = v.seq /\ (s.stage = "auth" => ~v.refresh) OBVIOUS
<1> HIDE DEF s, p
<1>7. /\ u.starts = p /\ u.queue = << >> /\ u.loops = << >> /\ u.timers = 0
      /\ u.socket = v.socket /\ u.seq = v.seq /\ u.view = v.view /\ u.pending = v.pending
      /\ u.refresh = v.refresh
  BY <1>3, <1>4 DEF Tabs
<1>8. DrawsInOrder(u) BY <1>0, <1>b, <1>3, <1>7, SameDrawing
<1>9. IsOffline(u, xs) BY <1>b, <1>3, <1>5, <1>6, <1>7 DEF IsOffline
<1> QED BY <1>d, <1>8, <1>9 DEF KeepsUp, Follows, u, ys

\* The refresh at the end of a ban is what Undisturbed leaves out.
LEMMA RefreshDisturbs ==
  ASSUME NEW c \in Client, Steady(c), AccessRefresh(c)
  PROVE  ~Undisturbed(client'[c])
<1> DEFINE v == [client[c] EXCEPT !.access = "past"]
<1>1. client[c] \in Tabs /\ client \in [Client -> Tabs] BY SteadyTab
<1>2. client'[c] = Start(c, v) BY <1>1 DEF AccessRefresh
<1>3. v \in Tabs /\ v.access = "past" BY <1>1 DEF Tabs
<1> HIDE DEF v
<1>4. Start(c, v).access = v.access
  <2>1. \A f \in {"view", "seq", "refresh", "queue", "processing", "loops", "pending",
                  "mounted", "opened", "timers", "access", "overtaken"} :
          Start(c, v)[f] = v[f]
    BY <1>3, StartType
  <2> QED BY <2>1
<1> QED BY <1>2, <1>3, <1>4 DEF Undisturbed

-----------------------------------------------------------------------------
(* The drain loop, and what the tab draws itself *)

LEMMA LoopReplaced ==
  ASSUME NEW ls \in Seq(Loops), Len(ls) = 1, NEW l \in Loops
  PROVE  /\ [ls EXCEPT ![1] = l] \in Seq(Loops) /\ Len([ls EXCEPT ![1] = l]) = 1
         /\ [ls EXCEPT ![1] = l][1] = l /\ [ls EXCEPT ![1] = l] # << >>
<1> DEFINE ms == [ls EXCEPT ![1] = l]
<1>1. ms \in Seq(Loops) /\ Len(ms) = 1 /\ ms[1] = l
  <2>1. Len(ls) <= 1 /\ ls # << >> BY LenProperties, EmptySeq
  <2> QED BY <2>1, AtMostOne
<1> HIDE DEF ms
<1>2. ms # << >> BY <1>1, EmptySeq
<1> QED BY <1>1, <1>2 DEF ms

\* The next message of a tab begins where the tab is: the branches of
\* ReplayModule that skip a stale message and that find a gap are not taken.
LEMMA NextIsExpected ==
  ASSUME NEW c \in Client, Steady(c), NEW i \in DOMAIN client[c].loops, CanShift(c, i)
  PROVE  /\ client[c].loops # << >> /\ client[c].queue # << >>
         /\ client[c].loops[1].phase = "next" /\ i = 1
         /\ Reaches(client[c]) = client[c].seq /\ Showing(client[c]) = client[c].seq
         /\ client[c].pending = << >>
         /\ Received(c) \in Messages /\ Received(c).from = client[c].seq
         /\ Received(c) = Head(client[c].queue)
         /\ IsNext(client[c], Received(c))
<1> DEFINE t == client[c]
           m == Received(c)
<1>1. /\ t \in Tabs /\ conn[c] \in [Conn -> Connections] /\ t.loops \in Seq(Loops)
      /\ t.queue \in Seq(Messages) /\ t.seq \in Nat /\ DrawsInOrder(t)
      /\ Follows(t, conn[c], latestSeq) /\ ReplayTypeOK
  BY SteadyTab DEF Steady
<1>2. t.queue # << >> /\ t.loops[i].phase = "next" BY DEF CanShift
<1>3. i = 1 /\ t.loops # << >> /\ LoopOK(t, t.loops[1])
  <2>1. i \in DOMAIN t.loops OBVIOUS
  <2> HIDE DEF t
  <2> QED BY <1>1, <2>1, OneLoop
<1>4. t.loops[1].phase = "next" BY <1>2, <1>3
<1>5. Reaches(t) = t.seq /\ Showing(t) = t.seq BY <1>4 DEF Reaches, Showing
<1>6. m \in Messages BY <1>1, <1>2, ShiftedType
<1>7. Linked(t.queue, t.seq)
  <2> HIDE DEF t
  <2> QED BY <1>1, <1>3, <1>5, QueueInTurn
<1>8. m.from = t.seq BY <1>1, <1>2, <1>7, LinkedTail DEF Received
<1>9. IsNext(t, m)
  <2>1. m.to \in Nat /\ m.kind \in {"batch", "live"} /\ (m.kind = "live" => m.to = m.from + 1)
    BY <1>6 DEF Messages
  <2> HIDE DEF m, t
  <2> QED BY <1>1, <1>8, <2>1 DEF IsNext, IsStale, IsGap
<1>10. t.pending = << >> BY <1>3, <1>4 DEF LoopOK
<1> QED BY <1>2, <1>3, <1>4, <1>5, <1>6, <1>8, <1>9, <1>10 DEF Received

LEMMA EndFollows ==
  ASSUME NEW c \in Client, Steady(c), NEW i \in DOMAIN client[c].loops, EndLoop(c, i)
  PROVE  KeepsUp(c)
<1> DEFINE t == client[c]
           xs == conn[c]
           u == client'[c]
<1>0. /\ t \in Tabs /\ client \in [Client -> Tabs] /\ DrawsInOrder(t)
      /\ Follows(t, xs, latestSeq)
  BY SteadyTab
<1>1. /\ i = 1 /\ Len(t.loops) = 1 /\ t.loops # << >> /\ t.loops \in Seq(Loops)
      /\ LoopOK(t, t.loops[1])
  <2>1. i \in DOMAIN t.loops OBVIOUS
  <2> HIDE DEF t
  <2> QED BY <1>0, <2>1, OneLoop
<1>2. t.loops[1].phase = "next" BY <1>1 DEF EndLoop
<1>3. RemoveAt(t.loops, i) = << >> BY <1>1, RemoveAtType
<1>4. u = [t EXCEPT !.loops = << >>, !.processing = FALSE] /\ conn' = conn
  BY <1>0, <1>3 DEF EndLoop
<1> HIDE DEF t, xs, u
<1>5. /\ u.loops = << >> /\ u.queue = t.queue /\ u.seq = t.seq /\ u.socket = t.socket
      /\ u.starts = t.starts /\ u.timers = t.timers /\ u.pending = t.pending
      /\ u.view = t.view /\ u \in Tabs
  <2>1. << >> \in Seq(Loops) BY EmptySeq
  <2> DEFINE none == << >>
  <2>2. u = [t EXCEPT !.loops = none, !.processing = FALSE] /\ none \in Seq(Loops)
    BY <1>4, <2>1
  <2>3. none = << >> OBVIOUS
  <2> HIDE DEF none
  <2> QED BY <1>0, <2>2, <2>3 DEF Tabs
<1>6. u.pending = << >> /\ Shows(u.view, u.seq)
  BY <1>0, <1>1, <1>2, <1>5 DEF LoopOK, DrawsInOrder, Showing
<1>7. DrawsInOrder(u) BY <1>5, <1>6, DrawsWithoutLoop
<1>8. Reaches(u) = Reaches(t) BY <1>2, <1>5 DEF Reaches
<1>9. Follows(u, xs, latestSeq) BY <1>0, <1>1, <1>5, <1>8, SameReach
<1> QED BY <1>4, <1>7, <1>9 DEF KeepsUp, u, xs

LEMMA NothingIsSkipped ==
  ASSUME NEW c \in Client, Steady(c), NEW i \in DOMAIN client[c].loops
  PROVE  ~SkipStale(c, i) /\ ~Gap(c, i)
<1>1. CanShift(c, i) => IsNext(client[c], Received(c)) BY NextIsExpected
<1> QED BY <1>1 DEF SkipStale, Gap, IsNext

LEMMA OwnFollows ==
  ASSUME NEW c \in Client, Steady(c), NEW i \in DOMAIN client[c].loops, Own(c, i)
  PROVE  KeepsUp(c)
<1> DEFINE t == client[c]
           xs == conn[c]
           u == client'[c]
           v == Shifted(c)
           m == Received(c)
           w == Promoted(t.view, m.mutation, m.to)
<1>0. /\ t \in Tabs /\ xs \in [Conn -> Connections] /\ client \in [Client -> Tabs]
      /\ DrawsInOrder(t) /\ Follows(t, xs, latestSeq) /\ t.seq \in Nat /\ ReplayTypeOK
      /\ t.view \in Seq(Places) /\ t.queue \in Seq(Messages)
  BY SteadyTab DEF Steady
<1>1. /\ t.loops # << >> /\ t.queue # << >> /\ Reaches(t) = t.seq /\ Showing(t) = t.seq
      /\ t.loops[1].phase = "next" /\ i = 1 /\ t.pending = << >>
      /\ m \in Messages /\ m.from = t.seq /\ m = Head(t.queue)
  BY NextIsExpected DEF Own
<1>2. /\ v.queue = Tail(t.queue) /\ v \in Tabs
      /\ \A f \in {"view", "seq", "awaiting", "refresh", "processing", "loops", "pending",
                   "mounted", "socket", "opened", "starts", "timers", "access",
                   "overtaken"} : v[f] = t[f]
  BY <1>0, <1>1, ShiftedType
<1>3. Answers(t.socket, m) BY DEF Own, IsOwn, Answers
<1>4. u = [v EXCEPT !.view = w, !.seq = m.to] /\ conn' = conn
  <2>1. v.view = t.view BY <1>2
  <2>2. u = [v EXCEPT !.view = Promoted(v.view, m.mutation, m.to), !.seq = m.to]
    BY <1>0 DEF Own
  <2> QED BY <2>1, <2>2 DEF Own
<1> HIDE DEF t, xs, u, v, m
<1>5. m.to = t.seq + 1 /\ m.to \in Nat /\ m.mutation \in Nat
  BY <1>0, <1>1, <1>3 DEF Messages, Answers
<1>6. /\ InTurn(t.socket, Open(t.view), t.queue)
      /\ Open(t.view) \in SUBSET Nat /\ Shows(t.view, t.seq)
  <2>1. InTurn(t.socket, Open(t.view), t.queue) BY <1>0, <1>1, QueueInTurn
  <2>2. DOMAIN t.view \in SUBSET Nat BY <1>0, LenProperties
  <2>3. Shows(t.view, t.seq) BY <1>0, <1>1 DEF DrawsInOrder
  <2> QED BY <2>1, <2>2, <2>3 DEF Open
<1>7. m.mutation \in Open(t.view) /\ \A p \in Open(t.view) : ~ (p < m.mutation)
  <2> DEFINE Z == Open(t.view)
  <2>1. Answers(t.socket, Head(t.queue)) /\ Z \in SUBSET Nat /\ InTurn(t.socket, Z, t.queue)
    BY <1>1, <1>3, <1>6
  <2> HIDE DEF Z
  <2>2. Head(t.queue).mutation \in Z /\ \A p \in Z : ~ (p < Head(t.queue).mutation)
    BY <1>0, <1>1, <2>1, OwnTaken
  <2> QED BY <1>1, <2>2 DEF Z
<1>8. w \in Seq(Places) /\ Shows(w, t.seq + 1) /\ Open(w) = Open(t.view) \ {m.mutation}
  BY <1>0, <1>5, <1>6, <1>7, OwnIsPromoted
<1> HIDE DEF w
<1>9. /\ v.loops = t.loops /\ v.pending = t.pending /\ v.socket = t.socket
      /\ v.starts = t.starts /\ v.timers = t.timers /\ v.processing = t.processing
  BY <1>2
<1>10. /\ u.loops = t.loops /\ u.pending = << >> /\ u.queue = Tail(t.queue)
       /\ u.socket = t.socket /\ u.starts = t.starts /\ u.timers = t.timers
       /\ u.processing = t.processing /\ u.view = w /\ u.seq = m.to /\ u \in Tabs
  BY <1>1, <1>2, <1>4, <1>5, <1>8, <1>9 DEF Tabs
<1>11. Reaches(u) = m.to /\ Showing(u) = m.to BY <1>1, <1>10 DEF Reaches, Showing
<1>12. DrawsInOrder(u)
  <2>1. t.loops \in Seq(Loops) /\ Len(t.loops) = 1 /\ t.processing
    <3>1. 1 \in DOMAIN t.loops BY <1>0, <1>1, IsTheLoop
    <3> QED BY <1>0, <3>1, OneLoop
  <2>2. LoopOK(u, u.loops[1]) BY <1>1, <1>10 DEF LoopOK
  <2>3. Shows(u.view, Showing(u)) BY <1>5, <1>8, <1>10, <1>11
  <2> QED BY <1>10, <2>1, <2>2, <2>3, DrawsWithLoop
<1>13. Follows(u, xs, latestSeq)
  <2>1. Open(u.view) = IF Answers(t.socket, Head(t.queue))
                       THEN Open(t.view) \ {Head(t.queue).mutation} ELSE Open(t.view)
    BY <1>1, <1>3, <1>8, <1>10
  <2>2. Reaches(u) = Head(t.queue).to BY <1>1, <1>11
  <2> QED BY <1>0, <1>1, <1>6, <1>10, <2>1, <2>2, TakeFollows
<1> QED BY <1>4, <1>12, <1>13 DEF KeepsUp, u, xs

LEMMA TakenFollows ==
  ASSUME NEW c \in Client, Steady(c), NEW i \in DOMAIN client[c].loops, Take(c, i)
  PROVE  KeepsUp(c)
<1> DEFINE t == client[c]
           xs == conn[c]
           u == client'[c]
           v == Shifted(c)
           m == Received(c)
           n == m.from + 1
           l == [phase |-> "draw", kind |-> m.kind, at |-> n, to |-> m.to]
           ls == [t.loops EXCEPT ![1] = l]
<1>0. /\ t \in Tabs /\ xs \in [Conn -> Connections] /\ client \in [Client -> Tabs]
      /\ DrawsInOrder(t) /\ Follows(t, xs, latestSeq) /\ t.seq \in Nat /\ ReplayTypeOK
      /\ t.view \in Seq(Places) /\ t.queue \in Seq(Messages)
  BY SteadyTab DEF Steady
<1>1. /\ t.loops # << >> /\ t.queue # << >> /\ Reaches(t) = t.seq /\ Showing(t) = t.seq
      /\ t.loops[1].phase = "next" /\ i = 1 /\ t.pending = << >>
      /\ m \in Messages /\ m.from = t.seq /\ m = Head(t.queue)
  BY NextIsExpected DEF Take
<1>2. /\ v.queue = Tail(t.queue) /\ v \in Tabs
      /\ \A f \in {"view", "seq", "awaiting", "refresh", "processing", "loops", "pending",
                   "mounted", "socket", "opened", "starts", "timers", "access",
                   "overtaken"} : v[f] = t[f]
  BY <1>0, <1>1, ShiftedType
<1>3. ~Answers(t.socket, m) BY DEF Take, IsOwn, Answers
<1>4. t.loops \in Seq(Loops) /\ Len(t.loops) = 1 /\ t.processing
  <2>1. 1 \in DOMAIN t.loops BY <1>0, <1>1, IsTheLoop
  <2> HIDE DEF t
  <2> QED BY <1>0, <2>1, OneLoop
<1>5. u = [v EXCEPT !.loops = ls] /\ conn' = conn
  <2>1. client' = [client EXCEPT ![c] = [v EXCEPT !.loops[i] = l]] /\ conn' = conn
    BY DEF Take
  <2>2. v.loops = t.loops BY <1>2
  <2> HIDE DEF l, v
  <2> QED BY <1>0, <1>1, <1>2, <2>1, <2>2 DEF Tabs
<1>6. m.from \in Nat /\ m.to \in Nat /\ m.kind \in {"batch", "live"} /\ m.from <= m.to
      /\ (m.kind = "live" => m.to = m.from + 1)
  BY <1>1 DEF Messages
<1> HIDE DEF t, xs, u, v, m
<1>7. n \in Nat /\ n = t.seq + 1 /\ n <= m.to + 1 /\ (m.kind = "live" => n = m.to)
  BY <1>0, <1>1, <1>6
<1> HIDE DEF n
<1>8. l \in Loops /\ l.phase = "draw" /\ l.to = m.to /\ l.at = n /\ l.kind = m.kind
  BY <1>6, <1>7 DEF Loops
<1> HIDE DEF l
<1>9. ls \in Seq(Loops) /\ Len(ls) = 1 /\ ls[1] = l /\ ls # << >>
  BY <1>4, <1>8, LoopReplaced
<1> HIDE DEF ls
<1>10. /\ v.view = t.view /\ v.pending = t.pending /\ v.socket = t.socket /\ v.seq = t.seq
       /\ v.starts = t.starts /\ v.timers = t.timers /\ v.processing = t.processing
  BY <1>2
<1>11. /\ u.loops = ls /\ u.pending = << >> /\ u.queue = Tail(t.queue)
       /\ u.socket = t.socket /\ u.starts = t.starts /\ u.timers = t.timers
       /\ u.processing = t.processing /\ u.view = t.view /\ u.seq = t.seq /\ u \in Tabs
  BY <1>1, <1>2, <1>5, <1>9, <1>10 DEF Tabs
<1>12. Reaches(u) = m.to /\ Showing(u) = t.seq BY <1>8, <1>9, <1>11 DEF Reaches, Showing
<1>13. DrawsInOrder(u)
  <2>1. LoopOK(u, u.loops[1]) BY <1>7, <1>8, <1>9, <1>11 DEF LoopOK
  <2>2. Shows(u.view, Showing(u)) BY <1>0, <1>1, <1>11, <1>12 DEF DrawsInOrder
  <2> QED BY <1>4, <1>9, <1>11, <2>1, <2>2, DrawsWithLoop
<1>14. Follows(u, xs, latestSeq)
  <2>1. Open(u.view) = IF Answers(t.socket, Head(t.queue))
                       THEN Open(t.view) \ {Head(t.queue).mutation} ELSE Open(t.view)
    BY <1>1, <1>3, <1>11
  <2>2. Reaches(u) = Head(t.queue).to BY <1>1, <1>12
  <2>3. DOMAIN t.view \in SUBSET Nat BY <1>0, LenProperties
  <2>4. Open(t.view) \in SUBSET Nat BY <2>3 DEF Open
  <2> QED BY <1>0, <1>1, <1>11, <2>1, <2>2, <2>4, TakeFollows
<1> QED BY <1>5, <1>13, <1>14 DEF KeepsUp, u, xs

\* Loop 1 sets authoritativeSeq to the edit that has been drawn, and goes on.
LEMMA LoopAdvances ==
  ASSUME NEW t \in Tabs, NEW v \in Tabs, NEW xs, NEW latest, Follows(t, xs, latest),
         t.loops \in Seq(Loops), Len(t.loops) = 1, t.loops[1].phase # "next",
         v.loops = t.loops, v.queue = t.queue, v.socket = t.socket, v.starts = t.starts,
         v.timers = t.timers, v.processing, v.pending = << >>,
         Open(v.view) = Open(t.view), Shows(v.view, t.loops[1].at),
         t.loops[1].at <= t.loops[1].to,
         t.loops[1].kind = "live" => t.loops[1].at = t.loops[1].to
  PROVE  LET u == Advance(v, 1) IN u \in Tabs /\ DrawsInOrder(u) /\ Follows(u, xs, latest)
<1> DEFINE l == t.loops[1]
           n == l.at + 1
           more == [l EXCEPT !.phase = "draw", !.at = n]
           next == IF l.kind = "live" THEN NextMessage ELSE more
           ls == [t.loops EXCEPT ![1] = next]
           u == Advance(v, 1)
<1>1. l \in Loops /\ t.loops # << >> /\ 1 \in DOMAIN v.loops
  <2>1. DOMAIN t.loops = 1..1 /\ t.loops # << >> BY LenProperties, EmptySeq
  <2> QED BY <2>1, ElementOfSeq
<1>2. l.at \in Nat /\ l.to \in Nat /\ n \in Nat BY <1>1 DEF Loops
<1>3. u \in Tabs BY <1>1, AdvanceType
<1>4. u = [v EXCEPT !.seq = l.at, !.loops = ls] BY <1>1 DEF Advance, Tabs
<1>5. next.phase # "next" => /\ next.at = l.at + 1 /\ next.to = l.to /\ next.kind # "live"
                             /\ next.phase = "draw"
  <2>1. l.kind = "live" => next.phase = "next" BY DEF NextMessage
  <2>2. more.phase = "draw" /\ more.at = n /\ more.to = l.to /\ more.kind = l.kind
    <3> HIDE DEF l, n
    <3> QED BY <1>1, <1>2 DEF Loops
  <2>3. l.kind # "live" => next = more OBVIOUS
  <2> HIDE DEF next, more
  <2> QED BY <2>1, <2>2, <2>3
<1>6. next \in Loops /\ (next.phase = "next" <=> l.kind = "live")
  <2>1. more \in Loops /\ more.phase = "draw"
    <3> HIDE DEF l, n
    <3> QED BY <1>1, <1>2 DEF Loops
  <2>2. NextMessage \in Loops /\ NextMessage.phase = "next" BY UnusedType DEF NextMessage
  <2> HIDE DEF more, l
  <2> QED BY <2>1, <2>2
<1> HIDE DEF next, more
<1>7. ls \in Seq(Loops) /\ Len(ls) = 1 /\ ls[1] = next /\ ls # << >>
  BY <1>6, LoopReplaced
<1> HIDE DEF ls, u
<1>8. /\ u.loops = ls /\ u.seq = l.at /\ u.queue = v.queue /\ u.socket = v.socket
      /\ u.starts = v.starts /\ u.timers = v.timers /\ u.pending = v.pending
      /\ u.view = v.view /\ u.processing = v.processing
  BY <1>4 DEF Tabs
<1>9. LoopOK(u, u.loops[1])
  <2>1. u.pending = << >> /\ u.loops[1] = next BY <1>7, <1>8
  <2>2. CASE next.phase = "next" BY <2>1, <2>2 DEF LoopOK
  <2>3. CASE next.phase # "next"
    <3>1. next.at = u.seq + 1 /\ next.at <= next.to + 1 /\ next.kind # "live"
          /\ next.phase = "draw"
      <4> HIDE DEF l, n
      <4> QED BY <1>2, <1>5, <1>8, <2>3 DEF l
    <3> QED BY <2>1, <3>1 DEF LoopOK
  <2> QED BY <2>2, <2>3
<1>10. Showing(u) = l.at BY <1>5, <1>7, <1>8 DEF Showing
<1>11. DrawsInOrder(u) BY <1>7, <1>8, <1>9, <1>10, DrawsWithLoop
<1>12. Reaches(u) = l.to
  <2>1. l.kind = "live" => Reaches(u) = l.at BY <1>6, <1>7, <1>8 DEF Reaches
  <2>2. l.kind # "live" => Reaches(u) = l.to BY <1>5, <1>6, <1>7, <1>8 DEF Reaches
  <2> QED BY <2>1, <2>2
<1>13. Reaches(t) = l.to BY <1>1 DEF Reaches
<1>14. Follows(u, xs, latest) BY <1>1, <1>3, <1>8, <1>12, <1>13, SameReach
<1> QED BY <1>3, <1>11, <1>14 DEF u

LEMMA DrawFollows ==
  ASSUME NEW c \in Client, Steady(c), NEW i \in DOMAIN client[c].loops, Draw(c, i)
  PROVE  KeepsUp(c)
<1> DEFINE t == client[c]
           xs == conn[c]
           u == client'[c]
           l == t.loops[1]
           n == l.at
<1>0. /\ t \in Tabs /\ xs \in [Conn -> Connections] /\ client \in [Client -> Tabs]
      /\ DrawsInOrder(t) /\ Follows(t, xs, latestSeq) /\ t.seq \in Nat
      /\ t.view \in Seq(Places)
  BY SteadyTab
<1>1. /\ i = 1 /\ Len(t.loops) = 1 /\ t.loops # << >> /\ t.loops \in Seq(Loops)
      /\ l \in Loops /\ LoopOK(t, l) /\ t.processing
  <2>1. i \in DOMAIN t.loops OBVIOUS
  <2> HIDE DEF t
  <2> QED BY <1>0, <2>1, OneLoop
<1>2. l.phase = "draw" /\ l.at <= l.to BY <1>1 DEF Draw
<1>3. n \in Nat /\ l.to \in Nat /\ n = t.seq + 1 /\ (l.kind = "live" => n = l.to)
      /\ t.pending = << >>
  BY <1>1, <1>2 DEF LoopOK, Loops
<1>4. Showing(t) = t.seq /\ Shows(t.view, t.seq) /\ Reaches(t) = l.to
  BY <1>0, <1>2, <1>1 DEF Showing, DrawsInOrder, Reaches
<1>5. CASE n \in Slow /\ ~t.mounted
  <2> DEFINE w == [l EXCEPT !.phase = "waiting"]
             ls == [t.loops EXCEPT ![1] = w]
             ps == Append(t.pending, n)
  <2>1. u = [t EXCEPT !.pending = ps, !.loops = ls] /\ conn' = conn
    BY <1>0, <1>1, <1>5 DEF Draw, Tabs
  <2>2. /\ w \in Loops /\ w.phase = "waiting" /\ w.at = n /\ w.to = l.to /\ w.kind = l.kind
    <3> HIDE DEF l
    <3> QED BY <1>1 DEF Loops, n
  <2>3. ps = <<n>> /\ ps \in Seq(Nat)
    <3> HIDE DEF n
    <3> QED BY <1>3, AppendToNone, OneElement
  <2> HIDE DEF w, ps, l, n
  <2>4. ls \in Seq(Loops) /\ Len(ls) = 1 /\ ls[1] = w /\ ls # << >>
    BY <1>1, <2>2, LoopReplaced
  <2> HIDE DEF ls, t, xs, u
  <2>5. /\ u \in Tabs /\ u.loops = ls /\ u.pending = ps /\ u.seq = t.seq /\ u.view = t.view
        /\ u.queue = t.queue /\ u.socket = t.socket /\ u.starts = t.starts
        /\ u.timers = t.timers /\ u.processing = t.processing
    BY <1>0, <2>1, <2>3, <2>4 DEF Tabs
  <2>6. Showing(u) = t.seq /\ Reaches(u) = l.to BY <2>2, <2>4, <2>5 DEF Showing, Reaches
  <2>7. LoopOK(u, u.loops[1])
    <3>1. w.at <= w.to /\ w.at <= w.to + 1 /\ w.at = u.seq + 1
      BY <1>0, <1>2, <1>3, <2>2, <2>5 DEF n
    <3>2. u.pending = <<w.at>> BY <2>2, <2>3, <2>5
    <3>3. w.kind = "live" => w.at = w.to BY <1>3, <2>2
    <3> QED BY <2>2, <2>4, <2>5, <3>1, <3>2, <3>3 DEF LoopOK
  <2>8. DrawsInOrder(u) BY <1>1, <1>4, <2>4, <2>5, <2>6, <2>7, DrawsWithLoop
  <2>9. Follows(u, xs, latestSeq) BY <1>0, <1>1, <1>4, <2>5, <2>6, SameReach
  <2> QED BY <2>1, <2>8, <2>9 DEF KeepsUp, u, xs
<1>6. CASE ~(n \in Slow /\ ~t.mounted)
  <2> DEFINE w == Append(t.view, Drawn(n))
             v == [t EXCEPT !.view = w]
  <2>1. u = Advance(v, 1) /\ conn' = conn BY <1>0, <1>1, <1>6 DEF Draw, Tabs
  <2>2. w \in Seq(Places) /\ Shows(w, n) /\ Open(w) = Open(t.view)
    <3>1. w = Append(t.view, Drawn(t.seq + 1)) BY <1>3
    <3> HIDE DEF w, n, t
    <3> QED BY <1>0, <1>3, <1>4, <3>1, NextIsDrawn
  <2> HIDE DEF w, n, t, xs, u
  <2>3. /\ v \in Tabs /\ v.view = w /\ v.loops = t.loops /\ v.queue = t.queue
        /\ v.socket = t.socket /\ v.starts = t.starts /\ v.timers = t.timers
        /\ v.processing = t.processing /\ v.pending = t.pending
    BY <1>0, <2>2 DEF Tabs
  <2> HIDE DEF v
  <2>4. Advance(v, 1) \in Tabs /\ DrawsInOrder(Advance(v, 1))
        /\ Follows(Advance(v, 1), xs, latestSeq)
    <3>1. /\ t.loops[1].phase # "next" /\ t.loops[1].at <= t.loops[1].to
          /\ t.loops[1].kind = "live" => t.loops[1].at = t.loops[1].to
          /\ Shows(v.view, t.loops[1].at) /\ Open(v.view) = Open(t.view)
      BY <1>2, <1>3, <2>2, <2>3 DEF n
    <3> QED BY <1>0, <1>1, <1>3, <2>3, <3>1, LoopAdvances
  <2> QED BY <2>1, <2>4 DEF KeepsUp, u, xs
<1> QED BY <1>5, <1>6

LEMMA ResumeFollows ==
  ASSUME NEW c \in Client, Steady(c), NEW i \in DOMAIN client[c].loops, Resume(c, i)
  PROVE  KeepsUp(c)
<1> DEFINE t == client[c]
           xs == conn[c]
           l == t.loops[1]
<1>0. /\ t \in Tabs /\ client \in [Client -> Tabs]
      /\ DrawsInOrder(t) /\ Follows(t, xs, latestSeq)
  BY SteadyTab
<1>1. /\ i = 1 /\ Len(t.loops) = 1 /\ t.loops # << >> /\ t.loops \in Seq(Loops)
      /\ l \in Loops /\ LoopOK(t, l) /\ t.processing
  <2>1. i \in DOMAIN t.loops OBVIOUS
  <2> HIDE DEF t
  <2> QED BY <1>0, <2>1, OneLoop
<1>2. l.phase = "drawn" BY <1>1 DEF Resume
<1>3. l.at <= l.to /\ (l.kind = "live" => l.at = l.to) /\ t.pending = << >>
  BY <1>1, <1>2 DEF LoopOK
<1>4. Shows(t.view, l.at) BY <1>0, <1>1, <1>2 DEF Showing, DrawsInOrder
<1>5. client'[c] = Advance(t, 1) /\ conn' = conn BY <1>0, <1>1 DEF Resume
<1>6. l.phase # "next" BY <1>2
<1> HIDE DEF t, xs
<1>7. Advance(t, 1) \in Tabs /\ DrawsInOrder(Advance(t, 1))
      /\ Follows(Advance(t, 1), xs, latestSeq)
  BY <1>0, <1>1, <1>3, <1>4, <1>6, LoopAdvances
<1> QED BY <1>5, <1>7 DEF KeepsUp, xs

LEMMA CompletesFollows ==
  ASSUME NEW c \in Client, Steady(c), NEW i \in DOMAIN client[c].loops, CompleteReplay(c, i)
  PROVE  KeepsUp(c)
<1> DEFINE t == client[c]
           xs == conn[c]
           u == client'[c]
           l == t.loops[1]
           ls == [t.loops EXCEPT ![1] = NextMessage]
<1>0. /\ t \in Tabs /\ client \in [Client -> Tabs] /\ t.seq \in Nat
      /\ DrawsInOrder(t) /\ Follows(t, xs, latestSeq)
  BY SteadyTab
<1>1. /\ i = 1 /\ Len(t.loops) = 1 /\ t.loops # << >> /\ t.loops \in Seq(Loops)
      /\ l \in Loops /\ LoopOK(t, l) /\ t.processing
  <2>1. i \in DOMAIN t.loops OBVIOUS
  <2> HIDE DEF t
  <2> QED BY <1>0, <2>1, OneLoop
<1>2. l.phase = "draw" /\ l.at > l.to BY <1>1 DEF CompleteReplay
<1>3. l.to = t.seq /\ t.pending = << >> /\ l.to \in Nat
  <2>1. l.at \in Nat /\ l.to \in Nat BY <1>1 DEF Loops
  <2>2. l.at = t.seq + 1 /\ l.at <= l.to + 1 /\ t.pending = << >> BY <1>1, <1>2 DEF LoopOK
  <2> HIDE DEF l, t
  <2> QED BY <1>0, <1>2, <2>1, <2>2
<1>4. Shows(t.view, t.seq) /\ Reaches(t) = t.seq
  BY <1>0, <1>1, <1>2, <1>3 DEF Showing, DrawsInOrder, Reaches
<1>5. ls \in Seq(Loops) /\ Len(ls) = 1 /\ ls[1] = NextMessage /\ ls # << >>
  BY <1>1, LoopReplaced, UnusedType
<1>6. u = [t EXCEPT !.seq = l.to, !.awaiting = FALSE, !.refresh = FALSE, !.loops = ls]
      /\ conn' = conn
  BY <1>0, <1>1 DEF CompleteReplay, Tabs
<1> HIDE DEF t, xs, u, ls, l
<1>7. /\ u \in Tabs /\ u.loops = ls /\ u.pending = << >> /\ u.seq = t.seq /\ u.view = t.view
      /\ u.queue = t.queue /\ u.socket = t.socket /\ u.starts = t.starts
      /\ u.timers = t.timers /\ u.processing = t.processing
  BY <1>0, <1>3, <1>5, <1>6 DEF Tabs
<1>8. Showing(u) = t.seq /\ Reaches(u) = t.seq /\ LoopOK(u, u.loops[1])
  BY <1>5, <1>7 DEF Showing, Reaches, LoopOK, NextMessage
<1>9. DrawsInOrder(u) BY <1>1, <1>4, <1>5, <1>7, <1>8, DrawsWithLoop
<1>10. Follows(u, xs, latestSeq) BY <1>0, <1>1, <1>4, <1>7, <1>8, SameReach
<1> QED BY <1>6, <1>9, <1>10 DEF KeepsUp, u, xs

LEMMA MountFollows ==
  ASSUME NEW c \in Client, Steady(c), Mount(c)
  PROVE  KeepsUp(c)
<1> DEFINE t == client[c]
           xs == conn[c]
           u == client'[c]
           l == t.loops[1]
           n == l.at
           w == [l EXCEPT !.phase = "drawn"]
           ls == [t.loops EXCEPT ![1] = w]
           vw == Append(t.view, Drawn(n))
<1>0. /\ t \in Tabs /\ client \in [Client -> Tabs] /\ t.seq \in Nat
      /\ DrawsInOrder(t) /\ Follows(t, xs, latestSeq) /\ t.view \in Seq(Places)
      /\ t.loops \in Seq(Loops)
  BY SteadyTab
<1>1. t.loops # << >> BY <1>0 DEF Mount, DrawsInOrder
<1>2. l.phase = "waiting" /\ 1 \in DOMAIN t.loops BY <1>1, IdleLoop DEF Mount
<1>3. /\ Len(t.loops) = 1 /\ l \in Loops /\ LoopOK(t, l) /\ t.processing
  <2> HIDE DEF t
  <2> QED BY <1>0, <1>2, OneLoop
<1>4. /\ t.pending = <<n>> /\ n \in Nat /\ n = t.seq + 1 /\ n <= l.to /\ l.to \in Nat
      /\ (l.kind = "live" => n = l.to)
  BY <1>2, <1>3 DEF LoopOK, Loops
<1>5. Shows(t.view, t.seq) /\ Reaches(t) = l.to
  BY <1>0, <1>1, <1>2 DEF Showing, DrawsInOrder, Reaches
<1>6. /\ w \in Loops /\ w.phase = "drawn" /\ w.at = n /\ w.to = l.to /\ w.kind = l.kind
  <2> HIDE DEF l
  <2> QED BY <1>3 DEF Loops, n
<1>7. ls \in Seq(Loops) /\ Len(ls) = 1 /\ ls[1] = w /\ ls # << >>
  <2> HIDE DEF w
  <2> QED BY <1>0, <1>3, <1>6, LoopReplaced
<1>8. [i \in DOMAIN t.loops |-> [t.loops[i] EXCEPT !.phase = "drawn"]] = ls
  <2>1. DOMAIN t.loops = 1..1 /\ DOMAIN t.loops = DOMAIN ls BY <1>0, <1>3, LenProperties
  <2>2. \A i \in DOMAIN t.loops : i = 1 BY <2>1
  <2>3. ls = [i \in DOMAIN t.loops |-> IF i = 1 THEN w ELSE t.loops[i]] OBVIOUS
  <2> QED BY <2>2, <2>3
<1>9. t.view \o [j \in DOMAIN t.pending |-> Drawn(t.pending[j])] = vw
  <2> HIDE DEF n, t
  <2> QED BY <1>0, <1>4, PendingIsDrawn
<1>10. u = [t EXCEPT !.mounted = TRUE, !.view = vw, !.pending = << >>, !.loops = ls]
       /\ conn' = conn
  <2>1. u = [t EXCEPT !.mounted = TRUE,
                 !.view = t.view \o [j \in DOMAIN t.pending |-> Drawn(t.pending[j])],
                 !.pending = << >>,
                 !.loops = [i \in DOMAIN t.loops |-> [t.loops[i] EXCEPT !.phase = "drawn"]]]
    BY <1>0 DEF Mount, Tabs
  <2> QED BY <1>8, <1>9, <2>1 DEF Mount
<1>11. vw \in Seq(Places) /\ Shows(vw, n) /\ Open(vw) = Open(t.view)
  <2>1. vw = Append(t.view, Drawn(t.seq + 1)) BY <1>4
  <2> HIDE DEF vw, n, t
  <2> QED BY <1>0, <1>4, <1>5, <2>1, NextIsDrawn
<1> DEFINE none == << >>
<1>12. none \in Seq(Nat) /\ none = << >> BY EmptySeq
<1>13. u = [t EXCEPT !.mounted = TRUE, !.view = vw, !.pending = none, !.loops = ls]
  BY <1>10
<1> HIDE DEF t, xs, u, l, n, w, ls, vw, none
<1>14. /\ u \in Tabs /\ u.loops = ls /\ u.pending = << >> /\ u.seq = t.seq /\ u.view = vw
       /\ u.queue = t.queue /\ u.socket = t.socket /\ u.starts = t.starts
       /\ u.timers = t.timers /\ u.processing = t.processing
  BY <1>0, <1>7, <1>11, <1>12, <1>13 DEF Tabs
<1>15. Showing(u) = n /\ Reaches(u) = l.to BY <1>6, <1>7, <1>14 DEF Showing, Reaches
<1>16. LoopOK(u, u.loops[1])
  <2>1. w.at = u.seq + 1 /\ w.at <= w.to + 1 /\ w.at <= w.to BY <1>4, <1>6, <1>14
  <2> QED BY <1>4, <1>6, <1>7, <1>14, <2>1 DEF LoopOK
<1>17. DrawsInOrder(u) BY <1>3, <1>7, <1>11, <1>14, <1>15, <1>16, DrawsWithLoop
<1>18. Follows(u, xs, latestSeq) BY <1>0, <1>1, <1>5, <1>11, <1>14, <1>15, SameReach
<1> QED BY <1>10, <1>17, <1>18 DEF KeepsUp, u, xs

LEMMA SendFollows ==
  ASSUME NEW c \in Client, Steady(c), Send(c)
  PROVE  KeepsUp(c)
<1> DEFINE t == client[c]
           xs == conn[c]
           u == client'[c]
           ys == conn'[c]
           k == t.socket
           x == xs[k]
           n == Len(t.view) + 1
           w == Append(t.view, Sent)
           up == Append(x.up, n)
           y == [x EXCEPT !.up = up]
           Z == Open(t.view)
<1>0. /\ t \in Tabs /\ xs \in [Conn -> Connections] /\ client \in [Client -> Tabs]
      /\ conn \in [Client -> [Conn -> Connections]]
      /\ DrawsInOrder(t) /\ Follows(t, xs, latestSeq) /\ t.seq \in Nat
      /\ t.view \in Seq(Places) /\ t.loops \in Seq(Loops) /\ t.queue \in Seq(Messages)
  BY SteadyTab
<1>1. k \in Conn /\ x.state \in {"open", "lost"} /\ x \in Connections
  BY <1>0 DEF Send, IsConnected, Tabs
<1>2. IsOnline(t, xs, latestSeq)
  <2>1. xs[k].state # "closed" BY <1>1
  <2> HIDE DEF t, xs, k
  <2> QED BY <1>0, <1>1, <2>1, OnlyConnection
<1>3. u = [t EXCEPT !.view = w] BY <1>0 DEF Send
<1>4. ys = [xs EXCEPT ![k] = y] BY <1>0, <1>1 DEF Send
<1>5. Showing(t) \in Nat /\ Shows(t.view, Showing(t))
  <2>1. CASE t.loops = << >> BY <1>0, <2>1 DEF Showing, DrawsInOrder
  <2>2. CASE t.loops # << >>
    <3>1. 1 \in DOMAIN t.loops BY <1>0, <2>2, IsTheLoop
    <3>2. t.loops[1] \in Loops BY <1>0, <3>1, OneLoop
    <3> QED BY <1>0, <3>2 DEF Showing, DrawsInOrder, Loops
  <2> QED BY <2>1, <2>2
<1> HIDE DEF t, xs, u, ys
<1>6. /\ w \in Seq(Places) /\ Shows(w, Showing(t)) /\ Open(w) = Z \union {n}
      /\ n \in Nat /\ \A p \in Z : p \in Nat /\ p < n
  BY <1>0, <1>5, OwnIsDrawn
<1> HIDE DEF w, n, Z
<1>7. /\ u.view = w /\ u.seq = t.seq /\ u.loops = t.loops /\ u.queue = t.queue
      /\ u.pending = t.pending /\ u.socket = k /\ u.starts = t.starts
      /\ u.timers = t.timers /\ u.processing = t.processing /\ u \in Tabs
  BY <1>0, <1>3, <1>6 DEF Tabs, k
<1>8. Showing(u) = Showing(t) /\ Reaches(u) = Reaches(t) BY <1>7 DEF Showing, Reaches
<1>9. DrawsInOrder(u) BY <1>0, <1>6, <1>7, <1>8 DEF DrawsInOrder, LoopOK
<1>10. /\ x.up \in Seq(Nat) /\ x.wire \in Seq(Messages) /\ y.up = up /\ y.state = x.state
       /\ y.wire = x.wire
  <2> HIDE DEF up, x
  <2> QED BY <1>1 DEF Connections
<1>11. ys[k] = y /\ \A j \in Conn \ {k} : ys[j] = Unused
  BY <1>0, <1>1, <1>2, <1>4 DEF IsOnline, k
<1>12. /\ t.starts = << >> /\ t.timers = 0 /\ Z \in SUBSET Nat
  BY <1>2, <1>6 DEF IsOnline
<1>13. CASE x.state = "lost"
  <2>1. x.wire = << >> /\ Linked(t.queue, Reaches(t)) /\ InTurn(k, Z, t.queue)
    BY <1>2, <1>13 DEF IsOnline, k, x, Z
  <2>2. InTurn(k, Z \union {n}, t.queue)
    <3> HIDE DEF k
    <3> QED BY <1>0, <1>6, <1>12, <2>1, PlaceAdded
  <2> HIDE DEF k, x, y
  <2>3. IsOnline(u, ys, latestSeq)
    BY <1>1, <1>6, <1>7, <1>8, <1>10, <1>11, <1>12, <1>13, <2>1, <2>2 DEF IsOnline
  <2> QED BY <1>9, <2>3 DEF KeepsUp, Follows, u, ys
<1>14. CASE x.state = "open"
  <2> DEFINE ms == t.queue \o x.wire
  <2>1. /\ Leads(ms, Reaches(t), latestSeq) /\ InTurn(k, Z, ms)
        /\ OnTheirWay(k, Z, ms, x.up)
    BY <1>2, <1>14 DEF IsOnline, k, x, Z
  <2>2. ms \in Seq(Messages) BY <1>0, <1>10, ConcatProperties
  <2>3. InTurn(k, Z \union {n}, ms) /\ OnTheirWay(k, Z \union {n}, ms, up)
    <3> HIDE DEF k, ms, x
    <3> QED BY <1>6, <1>10, <1>12, <2>1, <2>2, PlaceAdded, PlaceSent
  <2>4. ys[u.socket].state = "open" /\ u.queue \o ys[u.socket].wire = ms
        /\ ys[u.socket].up = up
    BY <1>7, <1>10, <1>11, <1>14
  <2> HIDE DEF k, x, y, ms, up
  <2>5. IsOnline(u, ys, latestSeq)
    BY <1>1, <1>6, <1>7, <1>8, <1>11, <1>12, <2>1, <2>3, <2>4 DEF IsOnline
  <2> QED BY <1>9, <2>5 DEF KeepsUp, Follows, u, ys
<1> QED BY <1>1, <1>13, <1>14

-----------------------------------------------------------------------------
(* A tab that has been disturbed stays so *)

LEMMA StaysDisturbed ==
  ASSUME ReplayTypeOK, NEW c \in Client, TabStep(c), Undisturbed(client'[c])
  PROVE  Undisturbed(client[c])
<1> DEFINE t == client[c]
           u == client'[c]
<1>0. t \in Tabs /\ client \in [Client -> Tabs] BY TabAndConn DEF ReplayTypeOK
<1> SUFFICES (t.access = "past" => u.access = "past") /\ (t.overtaken => u.overtaken)
  BY <1>0 DEF Undisturbed, Tabs
<1>1. ASSUME NEW v \in Tabs, u = Start(c, v)
      PROVE  u.access = v.access /\ u.overtaken = v.overtaken
  <2>1. \A f \in {"view", "seq", "refresh", "queue", "processing", "loops", "pending",
                  "mounted", "opened", "timers", "access", "overtaken"} :
          Start(c, v)[f] = v[f]
    BY <1>1, StartType
  <2> QED BY <1>1, <2>1
<1>2. ASSUME NEW v \in Tabs
      PROVE  /\ BeginResync(v) \in Tabs /\ BeginResync(v).access = v.access
             /\ v.overtaken => BeginResync(v).overtaken
  <2>1. /\ BeginResync(v) \in Tabs
        /\ \A f \in {"view", "seq", "loops", "pending", "mounted", "socket", "opened",
                     "starts", "timers", "access"} : BeginResync(v)[f] = v[f]
        /\ BeginResync(v).overtaken =
             (v.overtaken \/ \E i \in DOMAIN v.loops : v.loops[i].phase = "waiting")
    BY <1>2, ResyncType
  <2>2. BeginResync(v).access = v.access BY <2>1
  <2> QED BY <2>1, <2>2
<1>3. t.queue # << >> =>
        /\ Shifted(c) \in Tabs
        /\ Shifted(c).access = t.access /\ Shifted(c).overtaken = t.overtaken
  <2> SUFFICES ASSUME t.queue # << >>
               PROVE  /\ Shifted(c) \in Tabs /\ Shifted(c).access = t.access
                      /\ Shifted(c).overtaken = t.overtaken
    OBVIOUS
  <2>1. /\ Shifted(c) \in Tabs
        /\ \A f \in {"view", "seq", "awaiting", "refresh", "processing", "loops", "pending",
                     "mounted", "socket", "opened", "starts", "timers", "access",
                     "overtaken"} : Shifted(c)[f] = t[f]
    BY ShiftedType
  <2> QED BY <2>1
<1>4. ASSUME NEW k \in Conn, Admit(c, k) \/ Drop(c, k) PROVE u = t
  BY <1>4 DEF Admit, Drop
<1>5. ASSUME NEW k \in Conn, OnConnectError(c, k)
      PROVE  u.access = t.access /\ (t.overtaken => u.overtaken)
  <2> DEFINE r == BeginResync(t)
  <2>1. r \in Tabs /\ r.access = t.access /\ (t.overtaken => r.overtaken) BY <1>0, <1>2
  <2>2. \/ u = t
        \/ u = [[r EXCEPT !.socket = None] EXCEPT !.timers = @ + 1]
        \/ u = [t EXCEPT !.timers = @ + 1]
    BY <1>0, <1>5 DEF OnConnectError
  <2> HIDE DEF r
  <2> QED BY <1>0, <2>1, <2>2 DEF Tabs
<1>6. ASSUME NEW k \in Conn, OnDisconnect(c, k)
      PROVE  u.access = t.access /\ (t.overtaken => u.overtaken)
  <2> DEFINE r == BeginResync(t)
  <2>1. r \in Tabs /\ r.access = t.access /\ (t.overtaken => r.overtaken) BY <1>0, <1>2
  <2>2. u = t \/ u = [r EXCEPT !.timers = @ + 1] BY <1>0, <1>6 DEF OnDisconnect
  <2> HIDE DEF r
  <2> QED BY <1>0, <2>1, <2>2 DEF Tabs
<1>7. ASSUME NEW k \in Conn, OnBroadcast(c, k)
      PROVE  (t.access = "past" => u.access = "past") /\ (t.overtaken => u.overtaken)
  BY <1>0, <1>7 DEF OnBroadcast, Tabs
<1>8. ASSUME NEW i \in DOMAIN client[c].starts,
             ServeBaseline(c, i) \/ ApplyBaseline(c, i) \/ FetchFails(c, i)
               \/ \E k \in Conn : OpenSocket(c, i, k)
      PROVE  u.access = t.access /\ u.overtaken = t.overtaken
  <2>1. CASE ServeBaseline(c, i) BY <1>0, <2>1 DEF ServeBaseline, Tabs
  <2>2. CASE ApplyBaseline(c, i) BY <1>0, <2>2 DEF ApplyBaseline, Tabs
  <2>3. CASE FetchFails(c, i) BY <1>0, <2>3 DEF FetchFails, Tabs
  <2>4. ASSUME NEW k \in Conn, OpenSocket(c, i, k)
        PROVE  u.access = t.access /\ u.overtaken = t.overtaken
    <3> DEFINE ss == RemoveAt(t.starts, i)
               v == [t EXCEPT !.starts = ss]
    <3>1. u = v \/ u = [v EXCEPT !.socket = k] \/ u = [v EXCEPT !.socket = @]
      BY <1>0, <2>4 DEF OpenSocket
    <3>2. DOMAIN v = DOMAIN t /\ v.access = t.access /\ v.overtaken = t.overtaken
      <4> HIDE DEF ss
      <4> QED BY <1>0 DEF Tabs
    <3>3. {"access", "overtaken", "socket"} \subseteq DOMAIN v
      <4> HIDE DEF v
      <4> QED BY <1>0, <3>2 DEF Tabs
    <3> HIDE DEF v
    <3> QED BY <3>1, <3>2, <3>3
  <2> QED BY <1>8, <2>1, <2>2, <2>3, <2>4
<1>9. ASSUME Reconnect(c) PROVE u.access = t.access /\ u.overtaken = t.overtaken
  <2> DEFINE n == t.timers - 1
             v == [t EXCEPT !.timers = n]
  <2>1. u = Start(c, v) BY <1>0, <1>9 DEF Reconnect
  <2>2. n \in Nat BY <1>0, <1>9 DEF Reconnect, Tabs
  <2> HIDE DEF n
  <2>3. v \in Tabs /\ v.access = t.access /\ v.overtaken = t.overtaken
    BY <1>0, <2>2 DEF Tabs
  <2> HIDE DEF v
  <2> QED BY <1>1, <2>1, <2>3
<1>10. ASSUME AccessRefresh(c) PROVE u.access = "past" /\ u.overtaken = t.overtaken
  <2> DEFINE v == [t EXCEPT !.access = "past"]
  <2>1. u = Start(c, v) BY <1>0, <1>10 DEF AccessRefresh
  <2>2. v \in Tabs /\ v.access = "past" /\ v.overtaken = t.overtaken BY <1>0 DEF Tabs
  <2> HIDE DEF v
  <2> QED BY <1>1, <2>1, <2>2
<1>11. ASSUME NEW i \in DOMAIN client[c].loops, EndLoop(c, i) \/ CompleteReplay(c, i)
       PROVE  u.access = t.access /\ u.overtaken = t.overtaken
  <2> DEFINE ls == RemoveAt(t.loops, i)
             n == t.loops[i].to
             ms == [t.loops EXCEPT ![i] = NextMessage]
  <2>1. \/ u = [t EXCEPT !.loops = ls, !.processing = FALSE]
        \/ u = [t EXCEPT !.seq = n, !.awaiting = FALSE, !.refresh = FALSE, !.loops = ms]
    BY <1>0, <1>11 DEF EndLoop, CompleteReplay, Tabs
  <2> HIDE DEF ls, n, ms
  <2> QED BY <1>0, <2>1 DEF Tabs
<1>12. ASSUME NEW i \in DOMAIN client[c].loops,
              SkipStale(c, i) \/ Own(c, i) \/ Take(c, i)
       PROVE  u.access = t.access /\ u.overtaken = t.overtaken
  <2> DEFINE v == Shifted(c)
  <2>1. v \in Tabs /\ v.access = t.access /\ v.overtaken = t.overtaken
    BY <1>3, <1>12 DEF SkipStale, Own, Take, CanShift
  <2>2. CASE SkipStale(c, i) BY <1>0, <2>1, <2>2 DEF SkipStale
  <2>3. CASE Own(c, i)
    <3>1. u = [v EXCEPT !.view = Promoted(@, Received(c).mutation, Received(c).to),
                        !.seq = Received(c).to]
      BY <1>0, <2>3 DEF Own
    <3> HIDE DEF v
    <3> QED BY <2>1, <3>1 DEF Tabs
  <2>4. CASE Take(c, i)
    <3>1. u = [v EXCEPT !.loops[i] = [phase |-> "draw", kind |-> Received(c).kind,
                                      at |-> Received(c).from + 1, to |-> Received(c).to]]
      BY <1>0, <2>4 DEF Take
    <3> HIDE DEF v
    <3> QED BY <2>1, <3>1 DEF Tabs
  <2> QED BY <1>12, <2>2, <2>3, <2>4
<1>13. ASSUME NEW i \in DOMAIN client[c].loops, Gap(c, i)
       PROVE  u.access = t.access /\ (t.overtaken => u.overtaken)
  <2> DEFINE v == Shifted(c)
             r == BeginResync(v)
  <2>1. v \in Tabs /\ v.access = t.access /\ v.overtaken = t.overtaken
    BY <1>3, <1>13 DEF Gap, CanShift
  <2>2. u = Start(c, r) BY <1>0, <1>13 DEF Gap
  <2> HIDE DEF v
  <2>3. r \in Tabs /\ r.access = v.access /\ (v.overtaken => r.overtaken) BY <1>2, <2>1
  <2> HIDE DEF r
  <2> QED BY <1>1, <2>1, <2>2, <2>3
<1>14. ASSUME NEW i \in DOMAIN client[c].loops, Draw(c, i) \/ Resume(c, i)
       PROVE  u.access = t.access /\ u.overtaken = t.overtaken
  <2>1. ASSUME NEW v, DOMAIN v = DOMAIN t
        PROVE  Advance(v, i).access = v.access /\ Advance(v, i).overtaken = v.overtaken
    BY <1>0, <2>1 DEF Advance, Tabs
  <2>2. CASE Resume(c, i) BY <1>0, <2>1, <2>2 DEF Resume
  <2>3. CASE Draw(c, i)
    <3> DEFINE ps == Append(t.pending, t.loops[i].at)
               ls == [t.loops EXCEPT ![i].phase = "waiting"]
               w == Append(t.view, Drawn(t.loops[i].at))
               v == [t EXCEPT !.view = w]
    <3>1. u = [t EXCEPT !.pending = ps, !.loops = ls] \/ u = Advance(v, i)
      BY <1>0, <2>3 DEF Draw, Tabs
    <3> HIDE DEF ps, ls, w
    <3>2. DOMAIN v = DOMAIN t /\ v.access = t.access /\ v.overtaken = t.overtaken
      BY <1>0 DEF Tabs
    <3> HIDE DEF v
    <3>3. CASE u = Advance(v, i) BY <2>1, <3>2, <3>3
    <3>4. CASE u = [t EXCEPT !.pending = ps, !.loops = ls] BY <1>0, <3>4 DEF Tabs
    <3> QED BY <3>1, <3>3, <3>4
  <2> QED BY <1>14, <2>2, <2>3
<1>15. ASSUME Mount(c) \/ Send(c) PROVE u.access = t.access /\ u.overtaken = t.overtaken
  <2>1. CASE Mount(c)
    <3> DEFINE w == t.view \o [j \in DOMAIN t.pending |-> Drawn(t.pending[j])]
               none == << >>
               ls == [i \in DOMAIN t.loops |-> [t.loops[i] EXCEPT !.phase = "drawn"]]
    <3>1. u = [t EXCEPT !.mounted = TRUE, !.view = w, !.pending = none, !.loops = ls]
      BY <1>0, <2>1 DEF Mount, Tabs
    <3> HIDE DEF w, none, ls
    <3> QED BY <1>0, <3>1 DEF Tabs
  <2>2. CASE Send(c)
    <3> DEFINE w == Append(t.view, Sent)
    <3>1. u = [t EXCEPT !.view = w] BY <1>0, <2>2 DEF Send
    <3> HIDE DEF w
    <3> QED BY <1>0, <3>1 DEF Tabs
  <2> QED BY <1>15, <2>1, <2>2
<1> HIDE DEF t, u
<1> QED BY <1>4, <1>5, <1>6, <1>7, <1>8, <1>9, <1>10, <1>11, <1>12, <1>13, <1>14, <1>15
    DEF TabStep, ConnectionStep, LoopStep

LEMMA TabStepFollows ==
  ASSUME ReplayTypeOK, NEW c \in Client, TabStep(c),
         Undisturbed(client[c]) =>
           DrawsInOrder(client[c]) /\ Follows(client[c], conn[c], latestSeq)
  PROVE  KeepsUp(c)
<1> SUFFICES ASSUME Undisturbed(client'[c]) PROVE KeepsUp(c) BY DEF KeepsUp
<1>1. Steady(c) BY StaysDisturbed DEF Steady
<1>2. ~AccessRefresh(c) BY <1>1, RefreshDisturbs
<1>3. ASSUME NEW k \in Conn,
             \/ Admit(c, k) \/ Drop(c, k)
             \/ OnConnectError(c, k) \/ OnDisconnect(c, k) \/ OnBroadcast(c, k)
      PROVE  KeepsUp(c)
  BY <1>1, <1>3, AdmitFollows, DropFollows, ConnectErrorFollows, DisconnectFollows,
     BroadcastFollows
<1>4. ASSUME NEW i \in DOMAIN client[c].starts,
             \/ ServeBaseline(c, i) \/ ApplyBaseline(c, i) \/ FetchFails(c, i)
             \/ \E k \in Conn : OpenSocket(c, i, k)
      PROVE  KeepsUp(c)
  BY <1>1, <1>4, ServeFollows, ApplyFollows, FetchFollows, OpenFollows
<1>5. ASSUME NEW i \in DOMAIN client[c].loops,
             \/ EndLoop(c, i) \/ SkipStale(c, i) \/ Gap(c, i) \/ Own(c, i) \/ Take(c, i)
             \/ Draw(c, i) \/ Resume(c, i) \/ CompleteReplay(c, i)
      PROVE  KeepsUp(c)
  BY <1>1, <1>5, EndFollows, NothingIsSkipped, OwnFollows, TakenFollows, DrawFollows,
     ResumeFollows, CompletesFollows
<1>6. CASE Reconnect(c) BY <1>1, <1>6, ReconnectFollows
<1>7. CASE Mount(c) \/ Send(c) BY <1>1, <1>7, MountFollows, SendFollows
<1> QED BY <1>2, <1>3, <1>4, <1>5, <1>6, <1>7 DEF TabStep, ConnectionStep, LoopStep

-----------------------------------------------------------------------------
(* The server accepts edits, saves, reloads and restarts *)

\* An edit is accepted: every open connection carries it, as somebody else's or
\* as the answer to the edit that the connection had sent.
LEMMA AcceptedFollows ==
  ASSUME NEW t \in Tabs, NEW xs \in [Conn -> Connections], NEW ys, NEW latest \in Nat,
         Follows(t, xs, latest),
         \A k \in Conn : xs[k].state # "open" => ys[k] = xs[k],
         \A k \in Conn : xs[k].state = "open" =>
           \E m \in Messages :
             /\ m.from = latest /\ m.to = latest + 1
             /\ ys[k].state = "open" /\ ys[k].wire = Append(xs[k].wire, m)
             /\ \/ ~Answers(k, m) /\ ys[k].up = xs[k].up
                \/ /\ Answers(k, m) /\ xs[k].up # << >> /\ m.mutation = Head(xs[k].up)
                   /\ ys[k].up = Tail(xs[k].up)
  PROVE  Follows(t, ys, latest + 1)
<1>1. CASE IsOffline(t, xs)
  <2>1. \A k \in Conn : ys[k] = Unused BY <1>1, UnusedIsClosed DEF IsOffline
  <2> QED BY <1>1, <2>1 DEF IsOffline, Follows
<1>2. CASE IsOnline(t, xs, latest)
  <2>1. /\ t.socket \in Conn /\ t.starts = << >> /\ t.timers = 0
        /\ \A k \in Conn \ {t.socket} : ys[k] = Unused
    BY <1>2, UnusedIsClosed DEF IsOnline
  <2>2. CASE xs[t.socket].state # "open"
    <3>1. ys[t.socket] = xs[t.socket] BY <2>1, <2>2
    <3>2. IsOnline(t, ys, latest + 1) BY <1>2, <2>1, <2>2, <3>1 DEF IsOnline
    <3> QED BY <3>2 DEF Follows
  <2>3. CASE xs[t.socket].state = "open"
    <3> DEFINE k == t.socket
               x == xs[k]
               w == x.wire
               q == t.queue
               Z == Open(t.view)
    <3>1. PICK m \in Messages :
             /\ m.from = latest /\ m.to = latest + 1
             /\ ys[k].state = "open" /\ ys[k].wire = Append(w, m)
             /\ \/ ~Answers(k, m) /\ ys[k].up = x.up
                \/ /\ Answers(k, m) /\ x.up # << >> /\ m.mutation = Head(x.up)
                   /\ ys[k].up = Tail(x.up)
      BY <2>1, <2>3
    <3>2. q \in Seq(Messages) /\ w \in Seq(Messages) /\ x.up \in Seq(Nat)
      BY <2>1 DEF Tabs, Connections
    <3>3. DOMAIN t.view \in SUBSET Nat
      <4>1. t.view \in Seq(Places) BY DEF Tabs
      <4> QED BY <4>1, LenProperties
    <3>4. Z \in SUBSET Nat BY <3>3 DEF Open
    <3>5. Leads(q \o w, Reaches(t), m.from) /\ InTurn(k, Z, q \o w)
          /\ OnTheirWay(k, Z, q \o w, x.up)
      BY <1>2, <2>3, <3>1 DEF IsOnline
    <3> DEFINE up == x.up
    <3> HIDE DEF q, w, Z, k, x, up
    <3>6. q \o w \in Seq(Messages) /\ q \o Append(w, m) = Append(q \o w, m)
      BY <3>2, MessageIsSent
    <3> DEFINE ms == q \o w
    <3> HIDE DEF ms
    <3>7. Leads(Append(ms, m), Reaches(t), m.to) BY <3>5, <3>6, LeadsAppend DEF ms
    <3>8. InTurn(k, Z, Append(ms, m)) /\ OnTheirWay(k, Z, Append(ms, m), ys[k].up)
      <4>1. ms \in Seq(Messages) /\ InTurn(k, Z, ms) /\ OnTheirWay(k, Z, ms, up)
            /\ up \in Seq(Nat)
        BY <3>2, <3>5, <3>6 DEF ms, up
      <4>2. CASE ~Answers(k, m) /\ ys[k].up = up BY <4>1, <4>2, OthersSent
      <4>3. CASE /\ Answers(k, m) /\ up # << >> /\ m.mutation = Head(up)
                 /\ ys[k].up = Tail(up)
        BY <3>4, <4>1, <4>3, OwnSent
      <4> QED BY <3>1, <4>2, <4>3 DEF up
    <3>9. /\ ys[t.socket].state = "open"
          /\ t.queue \o ys[t.socket].wire = Append(ms, m)
      BY <3>1, <3>6 DEF q, k, ms
    <3>10. IsOnline(t, ys, latest + 1)
      <4>1. /\ Leads(t.queue \o ys[t.socket].wire, Reaches(t), latest + 1)
            /\ InTurn(t.socket, Open(t.view), t.queue \o ys[t.socket].wire)
            /\ OnTheirWay(t.socket, Open(t.view), t.queue \o ys[t.socket].wire,
                          ys[t.socket].up)
        BY <3>1, <3>7, <3>8, <3>9 DEF k, Z
      <4> QED BY <2>1, <3>9, <4>1 DEF IsOnline
    <3> QED BY <3>10 DEF Follows
  <2> QED BY <2>2, <2>3
<1> QED BY <1>1, <1>2 DEF Follows

LEMMA ServerFollows ==
  ASSUME ReplayTypeOK, ServerStep, NEW c \in Client, Follows(client[c], conn[c], latestSeq)
  PROVE  Follows(client'[c], conn'[c], latestSeq')
<1> DEFINE t == client[c]
           xs == conn[c]
           ys == conn'[c]
<1>0. /\ t \in Tabs /\ xs \in [Conn -> Connections] /\ latestSeq \in Nat
      /\ client' = client
  BY TabAndConn, ServerStepTypes DEF ReplayTypeOK
<1>1. CASE Accept
  <2> DEFINE m == Live(latestSeq + 1, None, None)
  <2>1. /\ m \in Messages /\ m.from = latestSeq /\ m.to = latestSeq + 1
        /\ \A k \in Conn : ~Answers(k, m)
    BY <1>0 DEF Live, Messages, None, Answers
  <2>2. \A k \in Conn : xs[k].state # "open" => ys[k] = xs[k]
    BY <1>1 DEF Accept, IsOpen
  <2>3. ASSUME NEW k \in Conn, xs[k].state = "open"
        PROVE  ys[k].state = "open" /\ ys[k].wire = Append(xs[k].wire, m) /\ ys[k].up = xs[k].up
    <3>1. ys[k] = [xs[k] EXCEPT !.wire = Append(@, m)] BY <1>1, <2>3 DEF Accept, IsOpen
    <3>2. xs[k] \in Connections BY <1>0
    <3> HIDE DEF m, ys, xs
    <3> QED BY <2>3, <3>1, <3>2 DEF Connections
  <2>4. latestSeq' = latestSeq + 1 BY <1>1 DEF Accept
  <2> HIDE DEF m, ys, xs, t
  <2>5. Follows(t, ys, latestSeq + 1) BY <1>0, <2>1, <2>2, <2>3, AcceptedFollows DEF t, xs
  <2> QED BY <1>0, <2>4, <2>5 DEF t, ys
<1>2. ASSUME NEW d \in Client, NEW j \in Conn, AcceptFrom(d, j)
      PROVE  Follows(client'[c], conn'[c], latestSeq')
  <2> DEFINE up == conn[d][j].up
             m == IF c = d THEN Live(latestSeq + 1, j, Head(up))
                           ELSE Live(latestSeq + 1, None, None)
  <2>1. conn[d][j] \in Connections BY TabAndConn
  <2>2. up \in Seq(Nat) /\ up # << >> BY <1>2, <2>1 DEF AcceptFrom, Connections
  <2>3. Head(up) \in Nat
    <3> HIDE DEF up
    <3> QED BY <2>2
  <2>4. /\ m \in Messages /\ m.from = latestSeq /\ m.to = latestSeq + 1
        /\ \A k \in Conn : Answers(k, m) <=> c = d /\ k = j
        /\ c = d => m.mutation = Head(up)
    <3> HIDE DEF up
    <3>1. j \in Nat \ {0} BY DEF Conn
    <3> QED BY <1>0, <2>3, <3>1 DEF Live, Messages, None, Answers
  <2>5. \A k \in Conn : xs[k].state # "open" => ys[k] = xs[k]
    BY <1>2 DEF AcceptFrom, IsOpen
  <2>6. ASSUME NEW k \in Conn, xs[k].state = "open"
        PROVE  /\ ys[k].state = "open" /\ ys[k].wire = Append(xs[k].wire, m)
               /\ \/ ~Answers(k, m) /\ ys[k].up = xs[k].up
                  \/ /\ Answers(k, m) /\ xs[k].up # << >> /\ m.mutation = Head(xs[k].up)
                     /\ ys[k].up = Tail(xs[k].up)
    <3>1. xs[k] \in Connections BY <1>0
    <3>2. CASE c # d
      <4>1. ys[k] = [xs[k] EXCEPT !.wire = Append(@, m)]
        BY <1>2, <2>6, <3>2 DEF AcceptFrom, IsOpen
      <4> HIDE DEF m, ys, xs
      <4> QED BY <2>4, <2>6, <3>1, <3>2, <4>1 DEF Connections
    <3>3. CASE c = d
      <4>1. ys[k] = [xs[k] EXCEPT !.wire = Append(@, m),
                                  !.up = IF k = j THEN Tail(@) ELSE @]
        BY <1>2, <2>6, <3>3 DEF AcceptFrom, IsOpen
      <4>2. k = j => up = xs[k].up BY <3>3
      <4> HIDE DEF m, ys, xs, up
      <4>3. /\ ys[k].state = "open" /\ ys[k].wire = Append(xs[k].wire, m)
            /\ ys[k].up = IF k = j THEN Tail(xs[k].up) ELSE xs[k].up
        BY <2>6, <3>1, <4>1 DEF Connections
      <4> QED BY <2>2, <2>4, <3>3, <4>2, <4>3
    <3> QED BY <3>2, <3>3
  <2>7. latestSeq' = latestSeq + 1 BY <1>2 DEF AcceptFrom
  <2> HIDE DEF m, ys, xs, t
  <2>8. Follows(t, ys, latestSeq + 1)
    <3>1. \A k \in Conn : xs[k].state = "open" =>
            \E x \in Messages :
              /\ x.from = latestSeq /\ x.to = latestSeq + 1
              /\ ys[k].state = "open" /\ ys[k].wire = Append(xs[k].wire, x)
              /\ \/ ~Answers(k, x) /\ ys[k].up = xs[k].up
                 \/ /\ Answers(k, x) /\ xs[k].up # << >> /\ x.mutation = Head(xs[k].up)
                    /\ ys[k].up = Tail(xs[k].up)
      BY <2>4, <2>6
    <3>2. Follows(t, xs, latestSeq) BY DEF t, xs
    <3> QED BY <1>0, <2>5, <3>1, <3>2, AcceptedFollows
  <2> QED BY <1>0, <2>7, <2>8 DEF t, ys
<1>3. CASE Age \/ SaveWrite \/ SaveDone \/ Reload
  BY <1>0, <1>3 DEF Age, SaveWrite, SaveDone, Reload
<1>4. CASE Restart
  <2>1. latestSeq' = latestSeq /\ \A k \in Conn : conn'[c][k] \in {xs[k], Lost(xs[k])}
    BY <1>4 DEF Restart
  <2> QED BY <1>0, <2>1, LostFollows
<1>5. ASSUME NEW p \in pins, ExpirePin(p) PROVE Follows(client'[c], conn'[c], latestSeq')
  BY <1>0, <1>5 DEF ExpirePin
<1> QED BY <1>1, <1>2, <1>3, <1>4, <1>5 DEF ServerStep

-----------------------------------------------------------------------------
(* The invariant *)

LEMMA NewTabStarts ==
  /\ NewTab \in Tabs /\ DrawsInOrder(NewTab)
  /\ NewTab.starts \in Seq(Starts) /\ Len(NewTab.starts) = 1
  /\ NewTab.starts[1] = [stage |-> "ask", base |-> 0, reuse |-> None]
  /\ Open(NewTab.view) = {}
<1> DEFINE s == [stage |-> "ask", base |-> 0, reuse |-> None]
           p == <<s>>
<1>1. s \in Starts BY DEF Starts
<1>2. p \in Seq(Starts) /\ Len(p) = 1 /\ p[1] = s
  <2> HIDE DEF s
  <2> QED BY <1>1, OneElement
<1>3. /\ << >> \in Seq(Nat) /\ << >> \in Seq(Messages) /\ << >> \in Seq(Loops)
  BY EmptySeq
<1>4. NewTab = [view |-> << >>, seq |-> 0, awaiting |-> TRUE, refresh |-> FALSE,
                queue |-> << >>, processing |-> FALSE, loops |-> << >>, pending |-> << >>,
                mounted |-> FALSE, socket |-> None, opened |-> FALSE, starts |-> p,
                timers |-> 0, access |-> "none", overtaken |-> FALSE]
  BY DEF NewTab
<1> HIDE DEF p
<1>5. NewTab \in Tabs BY <1>2, <1>3, <1>4, NothingShown DEF Tabs
<1>6. DrawsInOrder(NewTab) BY <1>4, NothingShown, DrawsWithoutLoop
<1> QED BY <1>2, <1>4, <1>5, <1>6, NothingShown

LEMMA InitFollowInv == Init => FollowInv
<1> SUFFICES ASSUME Init PROVE FollowInv OBVIOUS
<1>1. conn \in [Client -> [Conn -> Connections]] BY UnusedType DEF Init
<1>2. client \in [Client -> Tabs] BY NewTabStarts DEF Init
<1>3. latestSeq \in Nat /\ storedSeq \in Nat BY DEF Init
<1>4. ASSUME NEW c \in Client PROVE DrawsInOrder(client[c]) /\ Follows(client[c], conn[c], latestSeq)
  <2>1. client[c] = NewTab /\ \A k \in Conn : conn[c][k] = Unused BY DEF Init
  <2>2. /\ NewTab.queue = << >> /\ NewTab.loops = << >> /\ NewTab.timers = 0
        /\ NewTab.socket = None
    BY DEF NewTab
  <2>3. /\ NewTab.starts[1].reuse = None /\ NewTab.starts[1].stage = "ask"
        /\ Len(NewTab.starts) = 1 /\ Open(NewTab.view) = {} /\ DrawsInOrder(NewTab)
    BY NewTabStarts
  <2> QED BY <2>1, <2>2, <2>3 DEF Follows, IsOffline
<1> QED BY <1>1, <1>2, <1>3, <1>4 DEF FollowInv, ReplayTypeOK

LEMMA StepFollowInv ==
  ASSUME FollowInv, [Next]_vars
  PROVE  FollowInv'
<1>0. /\ ReplayTypeOK
      /\ \A c \in Client : Undisturbed(client[c]) =>
           DrawsInOrder(client[c]) /\ Follows(client[c], conn[c], latestSeq)
  BY DEF FollowInv
<1>1. CASE ServerStep
  <2>1. ReplayTypeOK' /\ client' = client BY <1>0, <1>1, ServerStepTypes
  <2>2. \A c \in Client : Undisturbed(client[c]) => Follows(client'[c], conn'[c], latestSeq')
    BY <1>0, <1>1, ServerFollows
  <2> QED BY <1>0, <2>1, <2>2 DEF FollowInv
<1>2. ASSUME NEW c \in Client, TabStep(c)
      PROVE  FollowInv'
  <2>1. /\ ReplayTypeOK' /\ latestSeq' = latestSeq
        /\ \A d \in Client : d # c => client'[d] = client[d] /\ conn'[d] = conn[d]
    BY <1>0, <1>2, TabStepTypes
  <2>2. Undisturbed(client'[c]) =>
          DrawsInOrder(client'[c]) /\ Follows(client'[c], conn'[c], latestSeq)
    BY <1>0, <1>2, TabStepFollows DEF KeepsUp
  <2>3. ASSUME NEW d \in Client, Undisturbed(client'[d])
        PROVE  DrawsInOrder(client'[d]) /\ Follows(client'[d], conn'[d], latestSeq')
    <3>1. CASE d = c BY <2>1, <2>2, <2>3, <3>1
    <3>2. CASE d # c BY <1>0, <2>1, <2>3, <3>2
    <3> QED BY <3>1, <3>2
  <2> QED BY <2>1, <2>3 DEF FollowInv
<1>3. CASE UNCHANGED vars
  <2>1. latestSeq' = latestSeq /\ storedSeq' = storedSeq /\ client' = client /\ conn' = conn
    BY <1>3 DEF vars, server
  <2> QED BY <1>0, <2>1 DEF FollowInv, ReplayTypeOK
<1> QED BY <1>1, <1>2, <1>3 DEF Next, TabStep

LEMMA FollowInvHolds == Spec => []FollowInv
<1>1. Init => FollowInv BY InitFollowInv
<1>2. FollowInv /\ [Next]_vars => FollowInv' BY StepFollowInv
<1> QED BY <1>1, <1>2, PTL DEF Spec

-----------------------------------------------------------------------------
(* A tab shows the board as it was after some edit *)

\* However often a tab is cut off, refused and resynchronised, what it has
\* received is on its board once, in order and without a hole; and so is what it
\* has drawn itself, ahead of its turn when others' edits came between
\* (board_replay_module.js).
THEOREM TabsShowAPrefix == Spec => []ShowsAPrefix
<1>1. FollowInv => ShowsAPrefix
  <2> SUFFICES ASSUME FollowInv, NEW c \in Client, Undisturbed(client[c])
               PROVE  LET t     == client[c]
                          shown == {t.view[p].edit : p \in DOMAIN t.view} \ {None} IN
                      /\ \A n \in shown : 1..n \subseteq shown
                      /\ \A p, q \in DOMAIN t.view :
                           (p < q /\ None \notin {t.view[p].edit, t.view[q].edit}) =>
                             \/ t.view[p].edit < t.view[q].edit
                             \/ t.view[p].edit > t.view[q].edit
                                  /\ t.view[p].own /\ ~t.view[q].own
                      /\ t.loops = << >> => shown = 1..t.seq
    BY DEF ShowsAPrefix
  <2> DEFINE t == client[c]
             v == t.view
             n == Showing(t)
             shown == {v[p].edit : p \in DOMAIN v} \ {None}
  <2>1. t \in Tabs /\ DrawsInOrder(t) BY TabAndConn DEF FollowInv
  <2>2. v \in Seq(Places) /\ Shows(v, n) /\ t.seq \in Nat BY <2>1 DEF DrawsInOrder, Tabs
  <2>3. n \in Nat
    <3>1. CASE t.loops = << >> BY <2>2, <3>1 DEF Showing
    <3>2. CASE t.loops # << >>
      <4> HIDE DEF t
      <4>1. 1 \in DOMAIN t.loops BY <2>1, <3>2, IsTheLoop
      <4>2. t.loops[1] \in Loops BY <2>1, <4>1, OneLoop
      <4> QED BY <2>2, <4>2 DEF Showing, Loops
    <3> QED BY <3>1, <3>2
  <2>4. t.loops = << >> => n = t.seq BY DEF Showing
  <2>5. \A p \in DOMAIN v : v[p].edit \in Nat
    <3> HIDE DEF v
    <3>1. DOMAIN v = 1..Len(v) BY <2>2, LenProperties
    <3>2. \A p \in DOMAIN v : v[p] \in Places BY <2>2, <3>1, ElementOfSeq
    <3> QED BY <3>2 DEF Places
  <2> HIDE DEF v, n, t
  <2>6. shown = 1..n
    <3>1. ASSUME NEW m \in shown PROVE m \in 1..n
      BY <2>2, <2>3, <2>5 DEF Shows, None
    <3>2. ASSUME NEW m \in 1..n PROVE m \in shown
      <4>1. PICK p \in DOMAIN v : v[p].edit = m BY <2>2 DEF Shows
      <4> QED BY <2>3, <4>1 DEF None
    <3> QED BY <3>1, <3>2
  <2> HIDE DEF shown
  <2>7. \A m \in shown : 1..m \subseteq shown BY <2>3, <2>6
  <2>8. \A p, q \in DOMAIN v :
          (p < q /\ None \notin {v[p].edit, v[q].edit}) =>
            \/ v[p].edit < v[q].edit
            \/ v[p].edit > v[q].edit /\ v[p].own /\ ~v[q].own
    BY <2>2 DEF Shows
  <2> QED BY <2>4, <2>6, <2>7, <2>8 DEF shown, v, t
<1> QED BY <1>1, FollowInvHolds, PTL

-----------------------------------------------------------------------------
(* The stream is complete *)

\* Where each message begins and the last one ends, as StreamIsComplete says it.
LEMMA LeadsByEnds ==
  ASSUME NEW ms \in Seq(Messages), NEW n \in Nat, NEW e, Leads(ms, n, e)
  PROVE  LET ends == <<n>> \o [i \in DOMAIN ms |-> ms[i].to] IN
         /\ \A i \in DOMAIN ms : ms[i].from = ends[i]
         /\ ends[Len(ends)] = e
<1> DEFINE tos == [i \in DOMAIN ms |-> ms[i].to]
           ends == <<n>> \o tos
<1>1. Len(ms) \in Nat /\ DOMAIN ms = 1..Len(ms) BY LenProperties
<1>2. \A i \in 1..Len(ms) : ms[i].to \in Nat BY <1>1, ElementOfSeq DEF Messages
<1>3. tos \in Seq(Nat) /\ Len(tos) = Len(ms) /\ \A i \in 1..Len(ms) : tos[i] = ms[i].to
  <2>1. tos \in [1..Len(ms) -> Nat] BY <1>1, <1>2
  <2>2. \A i \in 1..Len(ms) : tos[i] = ms[i].to BY <1>1
  <2> HIDE DEF tos
  <2> QED BY <1>1, <2>1, <2>2, FunctionIsSeq
<1>4. <<n>> \in Seq(Nat) /\ Len(<<n>>) = 1 /\ <<n>>[1] = n BY OneElement
<1>5. /\ Len(ends) = Len(ms) + 1
      /\ \A i \in 1..Len(ms) + 1 : ends[i] = IF i = 1 THEN n ELSE ms[i - 1].to
  <2> HIDE DEF tos
  <2>1. /\ Len(ends) = Len(<<n>>) + Len(tos)
        /\ \A i \in 1..Len(<<n>>) + Len(tos) :
             ends[i] = IF i <= Len(<<n>>) THEN <<n>>[i] ELSE tos[i - Len(<<n>>)]
    BY <1>3, <1>4, ConcatProperties
  <2> HIDE DEF ends
  <2>2. Len(ends) = Len(ms) + 1 BY <1>1, <1>3, <1>4, <2>1
  <2>3. ASSUME NEW i \in 1..Len(ms) + 1
        PROVE  ends[i] = IF i = 1 THEN n ELSE ms[i - 1].to
    <3>1. ends[i] = IF i <= 1 THEN <<n>>[i] ELSE tos[i - 1] BY <1>1, <1>3, <1>4, <2>1
    <3>2. CASE i = 1 BY <1>4, <3>1, <3>2
    <3>3. CASE i # 1
      <4>1. i - 1 \in 1..Len(ms) /\ ~ (i <= 1) BY <1>1, <3>3
      <4> QED BY <1>3, <3>1, <3>3, <4>1
    <3> QED BY <3>2, <3>3
  <2> QED BY <2>2, <2>3
<1> HIDE DEF ends
<1>6. \A i \in DOMAIN ms : ms[i].from = ends[i]
  <2> TAKE i \in DOMAIN ms
  <2>1. i \in 1..Len(ms) + 1 BY <1>1
  <2>2. ms[i].from = IF i = 1 THEN n ELSE ms[i - 1].to BY DEF Leads, Linked
  <2> QED BY <1>5, <2>1, <2>2
<1>7. ends[Len(ends)] = e
  <2>1. Len(ms) + 1 \in 1..Len(ms) + 1 BY <1>1
  <2>2. Len(ms) = 0 <=> ms = << >> BY EmptySeq
  <2>3. CASE ms = << >>
    <3>1. Len(ms) + 1 = 1 BY <1>1, <2>2, <2>3
    <3> QED BY <1>5, <2>1, <2>3, <3>1 DEF Leads, End
  <2>4. CASE ms # << >>
    <3>1. Len(ms) + 1 # 1 /\ (Len(ms) + 1) - 1 = Len(ms) BY <1>1, <2>2, <2>4
    <3> QED BY <1>5, <2>1, <2>4, <3>1 DEF Leads, End
  <2> QED BY <2>3, <2>4
<1> QED BY <1>6, <1>7 DEF ends

\* A connected tab misses nothing: the batch begins where its baseline ends, and
\* every message, from the wire through the queue to the board, where the one
\* before it ends, up to the latest edit (replay.mjs prepares the batch and
\* joins the socket in one tick; board_replay_module.js).  And an edit of its
\* own that has no number yet is on its way to the server, or its answer back.
THEOREM NothingIsMissed == Spec => []StreamIsComplete
<1>1. FollowInv => StreamIsComplete
  <2> SUFFICES ASSUME FollowInv, NEW c \in Client, Undisturbed(client[c]),
                      client[c].socket # None, IsOpen(c, client[c].socket),
                      client[c].loops = << >>
               PROVE  LET t    == client[c]
                          x    == conn[c][t.socket]
                          rest == t.queue \o x.wire
                          ends == <<t.seq>> \o [i \in DOMAIN rest |-> rest[i].to] IN
                      /\ \A i \in DOMAIN rest : rest[i].from = ends[i]
                      /\ ends[Len(ends)] = latestSeq
                      /\ \A p \in DOMAIN t.view : t.view[p].edit = None =>
                           \/ \E i \in DOMAIN rest :
                                IsOwn(t, rest[i]) /\ rest[i].mutation = p
                           \/ \E i \in DOMAIN x.up : x.up[i] = p
    BY DEF StreamIsComplete
  <2> DEFINE t == client[c]
             x == conn[c][t.socket]
             rest == t.queue \o x.wire
  <2>1. /\ t \in Tabs /\ Follows(t, conn[c], latestSeq)
        /\ conn[c] \in [Conn -> Connections] /\ latestSeq \in Nat
    BY TabAndConn DEF FollowInv, ReplayTypeOK
  <2>2. t.socket \in Conn /\ t.seq \in Nat /\ t.queue \in Seq(Messages) BY <2>1 DEF Tabs
  <2>3. x.state = "open" /\ x \in Connections BY <2>1, <2>2 DEF IsOpen
  <2>4. IsOnline(t, conn[c], latestSeq)
    <3>1. x.state # "closed" BY <2>3
    <3> QED BY <2>1, <2>2, <3>1, OnlyConnection
  <2>5. Leads(rest, t.seq, latestSeq) BY <2>3, <2>4 DEF IsOnline, Reaches
  <2>6. rest \in Seq(Messages)
    <3>1. x.wire \in Seq(Messages) BY <2>3 DEF Connections
    <3> QED BY <2>2, <3>1, ConcatProperties
  <2>7. OnTheirWay(t.socket, Open(t.view), rest, x.up) BY <2>3, <2>4 DEF IsOnline
  <2>8. ASSUME NEW p \in DOMAIN t.view, t.view[p].edit = None
        PROVE  \/ \E i \in DOMAIN rest : IsOwn(t, rest[i]) /\ rest[i].mutation = p
               \/ \E i \in DOMAIN x.up : x.up[i] = p
    <3>1. p \in Open(t.view) BY <2>8 DEF Open
    <3> HIDE DEF rest
    <3> QED BY <2>7, <3>1 DEF OnTheirWay, HasAnswer, Answers, IsOwn
  <2> HIDE DEF rest
  <2>9. LET ends == <<t.seq>> \o [i \in DOMAIN rest |-> rest[i].to] IN
        /\ \A i \in DOMAIN rest : rest[i].from = ends[i]
        /\ ends[Len(ends)] = latestSeq
    BY <2>2, <2>5, <2>6, LeadsByEnds
  <2> QED BY <2>8, <2>9 DEF rest
<1> QED BY <1>1, FollowInvHolds, PTL

-----------------------------------------------------------------------------
(* What a save may trim *)

\* A set of numbers that is not empty has a least element, and Min is it.
LEMMA MinIsLeast ==
  ASSUME NEW S \in SUBSET Nat, S # {}
  PROVE  Min(S) \in S /\ \A n \in S : Min(S) <= n
<1>1. PICK m \in S : \A n \in S : m <= n BY Least
<1> QED BY <1>1 DEF Min

\* The greater of two numbers.
LEMMA MaxOfTwo ==
  ASSUME NEW m \in Nat, NEW n \in Nat
  PROVE  Max({m, n}) = IF m >= n THEN m ELSE n
BY DEF Max

\* What a save may trim is saved, and no pin is lost with it.
LEMMA TrimFloorIsSafe ==
  ASSUME NEW persisted \in Nat, old \in Nat, pins \subseteq Nat
  PROVE  /\ TrimFloor(persisted) \in Nat
         /\ TrimFloor(persisted) <= persisted
         /\ \A p \in pins : TrimFloor(persisted) <= p
<1> DEFINE S == {persisted, old} \union pins
<1>1. S \in SUBSET Nat /\ persisted \in S /\ pins \subseteq S OBVIOUS
<1>2. Min(S) \in S /\ \A n \in S : Min(S) <= n BY <1>1, MinIsLeast
<1> QED BY <1>1, <1>2 DEF TrimFloor

-----------------------------------------------------------------------------
(* The log, the saved file and the pins *)

LEMMA InitLogInv == Init => LogInv
BY DEF Init, LogInv, ServedBaselineIsReplayable, Replayable, None

\* The server's variables change in eight actions only.
LEMMA ServerSteps ==
  ASSUME [Next]_vars
  PROVE  \/ latestSeq' = latestSeq + 1
              /\ UNCHANGED <<persistedSeq, minReplayableSeq, old, storedSeq, saveTarget, pins>>
         \/ Age \/ SaveWrite \/ SaveDone \/ Reload \/ Restart
         \/ \E p \in pins : ExpirePin(p)
         \/ \E c \in Client : \E i \in DOMAIN client[c].starts : ServeBaseline(c, i)
         \/ UNCHANGED server
<1>1. CASE ServerStep BY <1>1 DEF ServerStep, Accept, AcceptFrom
<1>2. ASSUME NEW c \in Client, ConnectionStep(c)
      PROVE  \/ \E i \in DOMAIN client[c].starts : ServeBaseline(c, i)
             \/ UNCHANGED server
  BY <1>2 DEF ConnectionStep, Admit, Drop, OnConnectError, OnDisconnect, OnBroadcast,
              ApplyBaseline, FetchFails, OpenSocket, Reconnect, AccessRefresh
<1>3. ASSUME NEW c \in Client, LoopStep(c) PROVE UNCHANGED server
  BY <1>3 DEF LoopStep, EndLoop, SkipStale, Gap, Own, Take, Draw, Resume, CompleteReplay
<1>4. ASSUME NEW c \in Client, Mount(c) \/ Send(c) PROVE UNCHANGED server
  BY <1>4 DEF Mount, Send
<1>5. CASE UNCHANGED vars BY <1>5 DEF vars
<1> QED BY <1>1, <1>2, <1>3, <1>4, <1>5 DEF Next

LEMMA StepLogInv ==
  ASSUME Clearing = {}, LogInv, [Next]_vars
  PROVE  LogInv'
<1> USE DEF LogInv, ServedBaselineIsReplayable, Replayable, None
<1>1. CASE latestSeq' = latestSeq + 1
             /\ UNCHANGED <<persistedSeq, minReplayableSeq, old, storedSeq, saveTarget, pins>>
  BY <1>1
<1>2. CASE Age BY <1>2 DEF Age
<1>3. CASE SaveWrite
  <2>1. HasItems(latestSeq) BY <1>3 DEF SaveWrite, HasItems
  <2>2. storedSeq' = latestSeq /\ saveTarget' = latestSeq /\ latestSeq # 0
    BY <1>3, <2>1 DEF SaveWrite
  <2> QED BY <1>3, <2>2 DEF SaveWrite
<1>4. CASE SaveDone
  <2>1. storedSeq = saveTarget /\ persistedSeq' = saveTarget
    BY <1>4, MaxOfTwo DEF SaveDone
  <2>2. /\ TrimFloor(persistedSeq') \in Nat /\ TrimFloor(persistedSeq') <= persistedSeq'
        /\ \A p \in pins : TrimFloor(persistedSeq') <= p
    BY <2>1, TrimFloorIsSafe
  <2>3. /\ minReplayableSeq' \in Nat /\ minReplayableSeq' <= persistedSeq'
        /\ \A p \in pins : minReplayableSeq' <= p
    BY <1>4, <2>1, <2>2, MaxOfTwo DEF SaveDone
  <2> QED BY <1>4, <2>1, <2>3 DEF SaveDone
<1>5. CASE Reload BY <1>5 DEF Reload, LoadFromDisk
<1>6. CASE Restart BY <1>6 DEF Restart, LoadFromDisk
<1>7. ASSUME NEW p \in pins, ExpirePin(p) PROVE LogInv' BY <1>7 DEF ExpirePin
<1>8. ASSUME NEW c \in Client, NEW i \in DOMAIN client[c].starts, ServeBaseline(c, i)
      PROVE  LogInv'
  BY <1>8 DEF ServeBaseline
<1>9. CASE UNCHANGED server BY <1>9 DEF server
<1> QED BY <1>1, <1>2, <1>3, <1>4, <1>5, <1>6, <1>7, <1>8, <1>9, ServerSteps

\* On a board that is never cleared the log, the saved file and the pins stay
\* in step (mutation_log.mjs, data_persistence.mjs, registry.mjs).
THEOREM LogStaysInStep == Clearing = {} => (Spec => []LogInv)
<1> SUFFICES ASSUME Clearing = {} PROVE Spec => []LogInv OBVIOUS
<1>1. Init => LogInv BY InitLogInv
<1>2. LogInv /\ [Next]_vars => LogInv' BY StepLogInv
<1> QED BY <1>1, <1>2, PTL DEF Spec

\* A baseline a newcomer was served is never refused while its pin lasts: saves
\* do not trim what the pins protect, and a board is not unloaded behind them
\* (pinServedBoardBaseline, trimPersistedOlderThan, unloadBoard).
THEOREM ServedBaselinesStayReplayable ==
  Clearing = {} => (Spec => []ServedBaselineIsReplayable)
<1>1. LogInv => ServedBaselineIsReplayable BY DEF LogInv
<1> SUFFICES ASSUME Clearing = {} PROVE Spec => []ServedBaselineIsReplayable OBVIOUS
<1>2. Spec => []LogInv BY LogStaysInStep
<1> QED BY <1>1, <1>2, PTL
=============================================================================
