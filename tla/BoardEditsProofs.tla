-------------------------- MODULE BoardEditsProofs --------------------------
(***************************************************************************)
(* Undo and redo change no item that somebody else has changed since, put  *)
(* back whole gestures and take turns, for every value of the constants of *)
(* BoardEdits: whatever was edited, saved, refused, evicted, undone or     *)
(* restarted before.                                                       *)
(*                                                                         *)
(* The items and the sequences are not typed beyond what this needs: that  *)
(* a sequence is one, whatever its elements are.                           *)
(***************************************************************************)
EXTENDS BoardEdits, SequenceLemmas, FiniteSetTheorems

-----------------------------------------------------------------------------
(* Sequences of anything *)

Sequence(s) == s \in Seq(Range(s))

LEMMA SequenceOf == ASSUME NEW S, NEW s \in Seq(S) PROVE Sequence(s) /\ Range(s) \subseteq S
<1>1. s \in [1..Len(s) -> S] /\ Len(s) \in Nat BY LenProperties
<1>2. s \in [1..Len(s) -> Range(s)] BY <1>1 DEF Range
<1>3. s \in Seq(Range(s)) BY <1>1, <1>2, SeqDef
<1> QED BY <1>1, <1>3 DEF Sequence, Range

LEMMA SequenceHas ==
  ASSUME NEW s, Sequence(s)
  PROVE  /\ Len(s) \in Nat /\ DOMAIN s = 1..Len(s)
         /\ Range(s) = {s[k] : k \in 1..Len(s)}
         /\ s \in Seq(Range(s))
<1>1. Len(s) \in Nat /\ DOMAIN s = 1..Len(s) BY LenProperties DEF Sequence
<1> QED BY <1>1 DEF Range, Sequence

\* A function on 1..n is a sequence.
LEMMA FunctionSequence ==
  ASSUME NEW n \in Nat, NEW f, f = [k \in 1..n |-> f[k]]
  PROVE  Sequence(f) /\ Len(f) = n /\ DOMAIN f = 1..n
<1>1. f \in [1..n -> Range(f)] BY DEF Range
<1>2. f \in Seq(Range(f)) /\ Len(f) = n BY <1>1, FunctionIsSeq
<1> QED BY <1>2 DEF Sequence

LEMMA EmptySequence == Sequence(<<>>) /\ Range(<<>>) = {} /\ Len(<<>>) = 0
<1> DEFINE s == <<>>
           S == {}
<1>1. s \in Seq(S) /\ Len(s) = 0 BY EmptySeq
<1>2. \A x \in S : FALSE OBVIOUS
<1> HIDE DEF s, S
<1>3. Sequence(s) /\ Range(s) \subseteq S BY <1>1, SequenceOf
<1>4. Range(s) = {} BY <1>2, <1>3
<1> QED BY <1>1, <1>3, <1>4 DEF s

LEMMA SingleSequence ==
  ASSUME NEW x
  PROVE  Sequence(<<x>>) /\ Len(<<x>>) = 1 /\ <<x>>[1] = x /\ Range(<<x>>) = {x}
<1>1. <<x>> \in Seq({x}) /\ Len(<<x>>) = 1 /\ <<x>>[1] = x OBVIOUS
<1>2. Sequence(<<x>>) BY <1>1, SequenceOf
<1>3. Range(<<x>>) = {<<x>>[k] : k \in 1..1} BY <1>1, <1>2, SequenceHas
<1> QED BY <1>1, <1>2, <1>3

LEMMA JoinedSequence ==
  ASSUME NEW s, NEW t, Sequence(s), Sequence(t)
  PROVE  /\ Sequence(s \o t) /\ Range(s \o t) = Range(s) \cup Range(t)
         /\ Len(s \o t) = Len(s) + Len(t)
         /\ \A k \in 1..Len(s) : (s \o t)[k] = s[k]
         /\ \A k \in 1..Len(t) : (s \o t)[Len(s) + k] = t[k]
<1> DEFINE S == Range(s) \cup Range(t)
<1>1. s \in Seq(S) /\ t \in Seq(S) BY SequenceHas, SeqMonotonic
<1>2. /\ s \o t \in Seq(S) /\ Len(s \o t) = Len(s) + Len(t)
      /\ \A k \in 1..Len(s) + Len(t) : (s \o t)[k] = IF k <= Len(s) THEN s[k] ELSE t[k - Len(s)]
  BY <1>1, ConcatProperties
<1>3. Range(s \o t) = Range(s) \cup Range(t) BY <1>1, RangeOfConcat
<1>4. Len(s) \in Nat /\ Len(t) \in Nat BY SequenceHas
<1>5. ASSUME NEW k \in 1..Len(t) PROVE (s \o t)[Len(s) + k] = t[k]
  <2>1. /\ Len(s) + k \in 1..Len(s) + Len(t) /\ ~(Len(s) + k <= Len(s))
        /\ (Len(s) + k) - Len(s) = k
    BY <1>4
  <2> QED BY <1>2, <2>1
<1>6. \A k \in 1..Len(s) : (s \o t)[k] = s[k] BY <1>2, <1>4
<1>7. Sequence(s \o t)
  <2> HIDE DEF S
  <2> QED BY <1>2, SequenceOf
<1> QED BY <1>2, <1>3, <1>5, <1>6, <1>7

LEMMA LongerSequence ==
  ASSUME NEW s, Sequence(s), NEW x
  PROVE  /\ Sequence(Append(s, x)) /\ Range(Append(s, x)) = Range(s) \cup {x}
         /\ Len(Append(s, x)) = Len(s) + 1 /\ Append(s, x)[Len(s) + 1] = x
         /\ \A k \in 1..Len(s) : Append(s, x)[k] = s[k]
<1> DEFINE S == Range(s) \cup {x}
<1>1. s \in Seq(S) /\ x \in S BY SequenceHas, SeqMonotonic
<1>2. /\ Append(s, x) \in Seq(S) /\ Len(Append(s, x)) = Len(s) + 1
      /\ Append(s, x)[Len(s) + 1] = x /\ \A k \in 1..Len(s) : Append(s, x)[k] = s[k]
  BY <1>1, AppendProperties
<1>3. Len(s) \in Nat /\ Range(s) = {s[k] : k \in 1..Len(s)} BY SequenceHas
<1>4. Range(Append(s, x)) = {Append(s, x)[k] : k \in 1..Len(s) + 1}
  BY <1>2, SequenceOf, SequenceHas
<1>5. Range(s) \subseteq Range(Append(s, x)) BY <1>2, <1>3, <1>4
<1>6. x \in Range(Append(s, x)) BY <1>2, <1>3, <1>4
<1> QED BY <1>2, <1>5, <1>6, SequenceOf

\* A piece of a sequence.
LEMMA PieceSequence ==
  ASSUME NEW s, Sequence(s), NEW m \in Nat \ {0}, NEW n \in 0..Len(s)
  PROVE  /\ Sequence(SubSeq(s, m, n)) /\ Range(SubSeq(s, m, n)) \subseteq Range(s)
         /\ Len(SubSeq(s, m, n)) = IF m <= n THEN n - m + 1 ELSE 0
         /\ \A k \in 1..n - m + 1 : SubSeq(s, m, n)[k] = s[m + k - 1]
<1>1. s \in Seq(Range(s)) BY SequenceHas
<1>2. /\ SubSeq(s, m, n) \in Seq(Range(s))
      /\ Len(SubSeq(s, m, n)) = IF m <= n THEN n - m + 1 ELSE 0
      /\ \A k \in 1..n - m + 1 : SubSeq(s, m, n)[k] = s[m + k - 1]
  BY <1>1, SubSeqType
<1> QED BY <1>2, SequenceOf

\* What Only keeps.
LEMMA OnlySequence ==
  ASSUME NEW s, Sequence(s), NEW S
  PROVE  Sequence(Only(s, S)) /\ Range(Only(s, S)) = Range(s) \cap S
<1>1. Len(s) \in Nat /\ Range(s) = {s[k] : k \in 1..Len(s)} BY SequenceHas
<1>2. PICK f : /\ f[0] = <<>> /\ Only(s, S) = f[Len(s)]
               /\ \A k \in 1..Len(s) :
                    f[k] = IF s[k] \in S THEN Append(f[k - 1], s[k]) ELSE f[k - 1]
  BY <1>1, OnlySteps
<1> DEFINE T == {k \in 0..Len(s) : Sequence(f[k]) /\ Range(f[k]) = {s[j] : j \in 1..k} \cap S}
<1>3. 0 \in T BY <1>1, <1>2, EmptySequence
<1>4. ASSUME NEW k \in 1..Len(s), k - 1 \in T PROVE k \in T
  <2>1. Sequence(f[k - 1]) /\ Range(f[k - 1]) = {s[j] : j \in 1..(k - 1)} \cap S BY <1>4
  <2>2. {s[j] : j \in 1..k} = {s[j] : j \in 1..(k - 1)} \cup {s[k]} BY <1>1
  <2>3. CASE s[k] \in S
    <3>1. f[k] = Append(f[k - 1], s[k]) BY <1>2, <2>3
    <3>2. Sequence(f[k]) /\ Range(f[k]) = Range(f[k - 1]) \cup {s[k]}
      BY <2>1, <3>1, LongerSequence
    <3>3. Range(f[k]) = {s[j] : j \in 1..k} \cap S BY <2>1, <2>2, <2>3, <3>2
    <3> QED BY <1>1, <3>2, <3>3
  <2>4. CASE s[k] \notin S
    <3>1. f[k] = f[k - 1] BY <1>2, <2>4
    <3>2. Range(f[k]) = {s[j] : j \in 1..k} \cap S BY <2>1, <2>2, <2>4, <3>1
    <3> QED BY <1>1, <2>1, <3>1, <3>2
  <2> QED BY <2>3, <2>4
<1> HIDE DEF T
<1>5. 0..Len(s) \subseteq T BY <1>1, <1>3, <1>4, HoldsUpTo
<1>6. Len(s) \in T BY <1>1, <1>5
<1>7. Sequence(f[Len(s)]) /\ Range(f[Len(s)]) = {s[j] : j \in 1..Len(s)} \cap S
  BY <1>6 DEF T
<1> QED BY <1>1, <1>2, <1>7

\* The numbers of a sequence, and the names in one, are finitely many.
LEMMA FiniteRange ==
  ASSUME NEW s, Sequence(s)
  PROVE  IsFiniteSet(Range(s))
<1>1. Len(s) \in Nat /\ s \in [1..Len(s) -> Range(s)] /\ DOMAIN s = 1..Len(s)
  BY SequenceHas, LenProperties
<1>2. s \in Surjection(1..Len(s), Range(s)) BY <1>1 DEF Surjection, Range
<1>3. IsFiniteSet(1..Len(s)) BY <1>1, FS_Interval
<1> QED BY <1>2, <1>3, FS_Surjection

\* The least and the greatest of some of the numbers up to n.
LEMMA Extremes ==
  ASSUME NEW n \in Nat, NEW T \in SUBSET (1..n), T # {}
  PROVE  /\ Min(T) \in T /\ \A k \in T : Min(T) <= k
         /\ Max(T) \in T /\ \A k \in T : k <= Max(T)
<1>1. \E m \in T : \A k \in T : m <= k
  <2>1. T \subseteq Nat OBVIOUS
  <2> QED BY <2>1, Least
<1>2. Min(T) \in T /\ \A k \in T : Min(T) <= k
  <2>1. \E m \in T : \A k \in T : m =< k BY <1>1
  <2> QED BY <2>1 DEF Min
<1>3. \E m \in T : \A k \in T : m >= k
  <2> DEFINE U == {n - k : k \in T}
  <2>1. U \in SUBSET Nat /\ U # {}
    <3>1. \A k \in T : k \in 1..n OBVIOUS
    <3>2. \A k \in 1..n : n - k \in Nat OBVIOUS
    <3>3. \A x \in U : x \in Nat BY <3>1, <3>2
    <3> QED BY <3>3
  <2>2. PICK u \in U : \A v \in U : u <= v
    <3> HIDE DEF U
    <3> QED BY <2>1, Least
  <2>3. PICK m \in T : u = n - m BY <2>2
  <2>4. ASSUME NEW k \in T PROVE m >= k
    <3>1. n - m <= n - k BY <2>2, <2>3, <2>4
    <3> QED BY <3>1
  <2> QED BY <2>4
<1>4. Max(T) \in T /\ \A k \in T : Max(T) >= k BY <1>3 DEF Max
<1>5. \A k \in T : k <= Max(T) BY <1>4
<1> QED BY <1>2, <1>4, <1>5

\* The lesser of two numbers.
LEMMA MinOfTwo ==
  ASSUME NEW x \in Int, NEW y \in Int
  PROVE  Min({x, y}) = IF x <= y THEN x ELSE y
<1>1. \E m \in {x, y} : \A k \in {x, y} : m =< k OBVIOUS
<1>2. Min({x, y}) \in {x, y} /\ \A k \in {x, y} : Min({x, y}) =< k BY <1>1 DEF Min
<1> QED BY <1>2

-----------------------------------------------------------------------------
(* Boards *)

IsBoard(b) ==
  /\ DOMAIN b = {"items", "paint", "next", "live", "trim", "stored"}
  /\ Sequence(b.paint) /\ b.live \in Int /\ b.trim \in Nat

LEMMA SomeOfThem ==
  ASSUME NEW S, IsFiniteSet(S), NEW T \in SUBSET S
  PROVE  Cardinality(T) \in Nat
BY FS_Subset, FS_CardinalityType

LEMMA EmptyBoardIs == IsBoard(EmptyBoard)
BY EmptySequence DEF IsBoard, EmptyBoard

LEMMA UpsertAllBoard ==
  ASSUME NEW b, IsBoard(b), NEW ids, Sequence(ids), NEW item
  PROVE  IsBoard(UpsertAll(b, ids, item))
<1> DEFINE new  == Only(ids, {i \in Range(ids) : ~Known(b, i)})
           dead == {i \in Range(ids) : ~IsLive(b, i)}
<1>1. Sequence(b.paint \o new) BY OnlySequence, JoinedSequence DEF IsBoard
<1>2. Cardinality(dead) \in Nat
  <2>1. dead \in SUBSET Range(ids) OBVIOUS
  <2> HIDE DEF dead
  <2> QED BY <2>1, FiniteRange, SomeOfThem
<1> DEFINE c == UpsertAll(b, ids, item)
<1>3. /\ DOMAIN c = DOMAIN b /\ c.paint = b.paint \o new
      /\ c.live = b.live + Cardinality(dead) /\ c.trim = b.trim
  BY DEF UpsertAll, IsBoard
<1> HIDE DEF c, new, dead
<1>4. IsBoard(c) BY <1>1, <1>2, <1>3 DEF IsBoard
<1> QED BY <1>4 DEF c

LEMMA UpsertBoard ==
  ASSUME NEW b, IsBoard(b), NEW i, NEW item
  PROVE  IsBoard(Upsert(b, i, item))
BY SingleSequence, UpsertAllBoard DEF Upsert

LEMMA RemoveAllBoard ==
  ASSUME NEW b, IsBoard(b), NEW ids
  PROVE  IsBoard(RemoveAll(b, ids)) /\ RemoveAll(b, ids).paint = b.paint
<1> DEFINE out == {i \in LiveIds(b) : Contains(ids, i)}
<1>1. Cardinality(out) \in Nat
  <2>1. out \in SUBSET Id BY DEF LiveIds
  <2> HIDE DEF out
  <2> QED BY <2>1, EditsAssumption, SomeOfThem
<1> DEFINE c == RemoveAll(b, ids)
<1>2. /\ DOMAIN c = DOMAIN b /\ c.paint = b.paint
      /\ c.live = b.live - Cardinality(out) /\ c.trim = b.trim
  BY DEF RemoveAll, IsBoard
<1> HIDE DEF c, out
<1>3. IsBoard(c) BY <1>1, <1>2 DEF IsBoard
<1> QED BY <1>2, <1>3 DEF c

LEMMA EvictedOf ==
  ASSUME NEW b, IsBoard(b)
  PROVE  Sequence(Evicted(b)) /\ Range(Evicted(b)) \subseteq Range(b.paint)
<1> DEFINE rest  == SubSeq(b.paint, b.trim + 1, Len(b.paint))
           above == Only(rest, LiveIds(b))
           n     == Min({b.live - MaxItems, Len(above)})
<1>1. CASE b.live <= MaxItems
  <2>1. Evicted(b) = <<>> BY <1>1 DEF Evicted
  <2> QED BY <2>1, EmptySequence
<1>2. CASE ~(b.live <= MaxItems)
  <2>1. Sequence(b.paint) /\ b.live \in Int /\ b.trim + 1 \in Nat \ {0} BY DEF IsBoard
  <2>2. Len(b.paint) \in 0..Len(b.paint) BY <2>1, SequenceHas
  <2>3. Sequence(rest) /\ Range(rest) \subseteq Range(b.paint) BY <2>1, <2>2, PieceSequence
  <2>4. Sequence(above) /\ Range(above) \subseteq Range(b.paint)
    <3> HIDE DEF rest
    <3> QED BY <2>3, OnlySequence
  <2>5. Evicted(b) = SubSeq(above, 1, n) BY <1>2 DEF Evicted
  <2> HIDE DEF above
  <2>6. Len(above) \in Nat BY <2>4, SequenceHas
  <2>7. n \in 0..Len(above)
    <3>1. b.live - MaxItems \in Nat BY <1>2, <2>1, ItemAssumption
    <3>2. n = IF b.live - MaxItems <= Len(above) THEN b.live - MaxItems ELSE Len(above)
      BY <2>6, <3>1, MinOfTwo
    <3> HIDE DEF n
    <3> QED BY <2>6, <3>1, <3>2
  <2> HIDE DEF n
  <2>8. /\ Sequence(SubSeq(above, 1, n)) /\ Range(SubSeq(above, 1, n)) \subseteq Range(above)
    BY <2>4, <2>7, PieceSequence
  <2> QED BY <2>4, <2>5, <2>8
<1> QED BY <1>1, <1>2

LEMMA TrimOverflowBoard ==
  ASSUME NEW b, IsBoard(b)
  PROVE  IsBoard(TrimOverflow(b))
<1> DEFINE out == Evicted(b)
           at  == CHOOSE k \in DOMAIN b.paint : b.paint[k] = Last(out)
           t   == IF Len(out) = b.live - MaxItems THEN at ELSE Len(b.paint)
<1>1. CASE b.live <= MaxItems BY <1>1 DEF TrimOverflow
<1>2. CASE ~(b.live <= MaxItems)
  <2>1. /\ Sequence(b.paint) /\ b.live \in Int
        /\ Len(b.paint) \in Nat /\ DOMAIN b.paint = 1..Len(b.paint)
        /\ Range(b.paint) = {b.paint[k] : k \in 1..Len(b.paint)}
    BY SequenceHas DEF IsBoard
  <2>2. /\ Sequence(out) /\ Range(out) \subseteq Range(b.paint) /\ Len(out) \in Nat
        /\ Range(out) = {out[k] : k \in 1..Len(out)}
    BY EvictedOf, SequenceHas
  <2>3. TrimOverflow(b) = [RemoveAll(b, out) EXCEPT !.trim = t] BY <1>2 DEF TrimOverflow
  <2> HIDE DEF out
  <2>4. t \in Nat
    <3>1. CASE Len(out) = b.live - MaxItems
      <4>1. Len(out) \in 1..Len(out) BY <1>2, <2>1, <2>2, <3>1, ItemAssumption
      <4>2. Last(out) \in Range(b.paint) BY <2>2, <4>1 DEF Last
      <4>3. \E k \in DOMAIN b.paint : b.paint[k] = Last(out) BY <2>1, <4>2
      <4>4. at \in DOMAIN b.paint BY <4>3
      <4> HIDE DEF at
      <4> QED BY <2>1, <3>1, <4>4
    <3>2. CASE Len(out) # b.live - MaxItems BY <2>1, <3>2
    <3> QED BY <3>1, <3>2
  <2> HIDE DEF t
  <2>5. IsBoard(RemoveAll(b, out)) BY RemoveAllBoard
  <2>6. IsBoard([RemoveAll(b, out) EXCEPT !.trim = t]) BY <2>4, <2>5 DEF IsBoard
  <2> QED BY <2>3, <2>6
<1> QED BY <1>1, <1>2

LEMMA ForgetBoard ==
  ASSUME NEW b, IsBoard(b), NEW out
  PROVE  IsBoard(Forget(b, out))
<1>1. CASE out = {} BY <1>1 DEF Forget
<1>2. CASE out # {}
  <2> DEFINE c == Forget(b, out)
  <2>1. /\ DOMAIN c = DOMAIN b /\ c.paint = Only(b.paint, Range(b.paint) \ out)
        /\ c.live = b.live /\ c.trim = 0
    BY <1>2 DEF Forget, IsBoard
  <2> HIDE DEF c
  <2>2. Sequence(c.paint) BY <2>1, OnlySequence DEF IsBoard
  <2>3. IsBoard(c) BY <2>1, <2>2 DEF IsBoard
  <2> QED BY <2>3 DEF c
<1> QED BY <1>1, <1>2

LEMMA CleanBoard ==
  ASSUME NEW b, IsBoard(b)
  PROVE  IsBoard(Clean(b))
<1> DEFINE c == Forget(b, Range(Evicted(b)))
<1>1. IsBoard(c) BY ForgetBoard
<1>2. Len(Evicted(b)) \in Nat BY EvictedOf, SequenceHas
<1>3. Clean(b) = [c EXCEPT !.live = @ - Len(Evicted(b))] BY DEF Clean
<1> HIDE DEF c
<1>4. IsBoard([c EXCEPT !.live = @ - Len(Evicted(b))]) BY <1>1, <1>2 DEF IsBoard
<1> QED BY <1>3, <1>4

LEMMA ClearAllBoard ==
  ASSUME NEW b, IsBoard(b)
  PROVE  IsBoard(ClearAll(b))
<1> DEFINE c == ClearAll(b)
<1>1. DOMAIN c = DOMAIN b /\ c.paint = b.paint /\ c.live = 0 /\ c.trim = Len(b.paint)
  BY DEF ClearAll, IsBoard
<1>2. Len(b.paint) \in Nat BY SequenceHas DEF IsBoard
<1> HIDE DEF c
<1>3. IsBoard(c) BY <1>1, <1>2 DEF IsBoard
<1> QED BY <1>3 DEF c

LEMMA SortedSequence ==
  ASSUME NEW b, Sequence(b.paint)
  PROVE  Sequence(Sorted(b))
<1>1. Len(b.paint) \in Nat /\ DOMAIN b.paint = 1..Len(b.paint) BY SequenceHas
<1> DEFINE f        == Sorted(b)
           Order(k) == b.items[b.paint[k]].order
           Lower(k) == {l \in DOMAIN b.paint : \/ Order(l) < Order(k)
                                               \/ Order(l) = Order(k) /\ l < k}
           At(n)    == b.paint[CHOOSE k \in DOMAIN b.paint : Cardinality(Lower(k)) = n - 1]
<1>2. f = [n \in 1..Len(b.paint) |-> f[n]]
  <2>1. f = [n \in DOMAIN b.paint |-> At(n)] BY Zenon DEF Sorted
  <2> HIDE DEF At, f
  <2> QED BY <1>1, <2>1
<1> HIDE DEF f
<1>3. Sequence(f) BY <1>1, <1>2, FunctionSequence
<1> QED BY <1>3 DEF f

LEMMA RestoreBoard ==
  ASSUME NEW b, IsBoard(b), NEW entries, Sequence(entries)
  PROVE  IsBoard(Restore(b, entries))
<1> DEFINE given   == Only(entries, {e \in Range(entries) : e.item # NoItem})
           removed == RemoveAll(b, [k \in DOMAIN entries |-> entries[k].id])
           ids     == [k \in DOMAIN given |-> given[k].id]
           new     == [i \in Range(ids) |-> LET e == given[CHOOSE k \in DOMAIN ids : ids[k] = i]
                                            IN  Fresh(e.item, e.order)]
           put     == UpsertAll(removed, ids, new)
<1>1. Restore(b, entries) = [put EXCEPT !.paint = Sorted(put), !.trim = 0] BY DEF Restore
<1>2. Sequence(given) BY OnlySequence
<1> HIDE DEF given
<1>3. Sequence(ids)
  <2>1. Len(given) \in Nat /\ DOMAIN given = 1..Len(given) BY <1>2, SequenceHas
  <2>2. ids = [k \in 1..Len(given) |-> ids[k]] BY <2>1
  <2> HIDE DEF ids
  <2> QED BY <2>1, <2>2, FunctionSequence
<1>4. IsBoard(removed) BY RemoveAllBoard
<1> HIDE DEF removed, ids, new
<1>5. IsBoard(put) BY <1>3, <1>4, UpsertAllBoard
<1> HIDE DEF put
<1>6. Sequence(Sorted(put)) BY <1>5, SortedSequence DEF IsBoard
<1>7. IsBoard([put EXCEPT !.paint = Sorted(put), !.trim = 0]) BY <1>5, <1>6 DEF IsBoard
<1> QED BY <1>1, <1>7

-----------------------------------------------------------------------------
(* Mutations *)

IsMutation(m) ==
  /\ m.type \in {"create", "append", "text", "move", "copy", "delete", "clear", "restore"}
  /\ Sequence(m.ids) /\ Sequence(m.new) /\ Sequence(m.items)

LEMMA EffectBoard ==
  ASSUME NEW b, IsBoard(b), NEW m, IsMutation(m), NEW n
  PROVE  IsBoard(Effect(b, m, n))
<1>1. CASE m.type = "create"
  <2> DEFINE item == Fresh(NewContent(m.kind), OrderFor(b, m.ids[1]))
  <2>1. Effect(b, m, n) = Upsert(b, m.ids[1], item) BY <1>1 DEF Effect
  <2> HIDE DEF item
  <2> QED BY <2>1, UpsertBoard
<1>2. CASE m.type = "append"
  <2> DEFINE item == Extended(b.items[m.ids[1]], n)
  <2>1. Effect(b, m, n) = Upsert(b, m.ids[1], item) BY <1>2 DEF Effect
  <2> HIDE DEF item
  <2> QED BY <2>1, UpsertBoard
<1>3. CASE m.type = "text"
  <2> DEFINE item == Retyped(b.items[m.ids[1]], n)
  <2>1. Effect(b, m, n) = Upsert(b, m.ids[1], item) BY <1>3 DEF Effect
  <2> HIDE DEF item
  <2> QED BY <2>1, UpsertBoard
<1>4. CASE m.type = "move"
  <2> DEFINE item == [i \in Range(m.ids) |-> Moved(b.items[i], n)]
  <2>1. Effect(b, m, n) = UpsertAll(b, m.ids, item) BY <1>4 DEF Effect
  <2> HIDE DEF item
  <2> QED BY <2>1, UpsertAllBoard DEF IsMutation
<1>5. CASE m.type = "copy"
  <2> DEFINE item == [i \in Range(m.new) |->
                        CopyOf(b, m.ids[CHOOSE k \in DOMAIN m.ids : m.new[k] = i], i)]
  <2>1. Effect(b, m, n) = UpsertAll(b, m.new, item) BY <1>5 DEF Effect
  <2> HIDE DEF item
  <2> QED BY <2>1, UpsertAllBoard DEF IsMutation
<1>6. CASE m.type = "delete"
  <2>1. Effect(b, m, n) = RemoveAll(b, m.ids) BY <1>6 DEF Effect
  <2> QED BY <2>1, RemoveAllBoard
<1>7. CASE m.type = "clear"
  <2>1. Effect(b, m, n) = ClearAll(b) BY <1>7 DEF Effect
  <2> QED BY <2>1, ClearAllBoard
<1>8. CASE m.type = "restore"
  <2>1. Effect(b, m, n) = Restore(b, m.items) BY <1>8 DEF Effect
  <2> QED BY <2>1, RestoreBoard DEF IsMutation
<1> QED BY <1>1, <1>2, <1>3, <1>4, <1>5, <1>6, <1>7, <1>8 DEF IsMutation

LEMMA ProcessBoard ==
  ASSUME NEW b, IsBoard(b), NEW m, IsMutation(m), NEW n
  PROVE  IsBoard(Process(b, m, n))
BY EffectBoard, TrimOverflowBoard DEF Process

LEMMA PlainMutation ==
  ASSUME NEW type \in {"create", "append", "text", "move", "copy", "delete", "clear", "restore"},
         NEW ids, Sequence(ids)
  PROVE  /\ IsMutation(Mutation(type, ids)) /\ Mutation(type, ids).type = type
         /\ Mutation(type, ids).ids = ids
BY EmptySequence DEF IsMutation, Mutation

-----------------------------------------------------------------------------
(* What a save writes and a load reads *)

LEMMA LoadedBoard ==
  ASSUME NEW file, Sequence(file)
  PROVE  IsBoard(Loaded(file))
<1> DEFINE c == Loaded(file)
           p == [k \in DOMAIN file |-> file[k].id]
<1>1. Len(file) \in Nat /\ DOMAIN file = 1..Len(file) BY SequenceHas
<1>2. /\ DOMAIN c = {"items", "paint", "next", "live", "trim", "stored"}
      /\ c.paint = p /\ c.live = Len(file) /\ c.trim = 0
  BY DEF Loaded
<1>3. p = [k \in 1..Len(file) |-> p[k]] BY <1>1
<1> HIDE DEF c, p
<1>4. Sequence(p) BY <1>1, <1>3, FunctionSequence
<1>5. IsBoard(c) BY <1>1, <1>2, <1>4 DEF IsBoard
<1> QED BY <1>5 DEF c

LEMMA FinalizeBoard ==
  ASSUME NEW b, IsBoard(b), NEW s, NEW ids, NEW changed
  PROVE  IsBoard(Finalize(b, s, ids, changed))
<1> DEFINE After(i) ==
             CASE i \notin ids \/ ~Known(b, i) -> b.items[i]
               [] i \in changed ->
                    IF s.items[i].live THEN Rebased(b.items[i], s.items[i]) ELSE b.items[i]
               [] b.items[i].dirty \/ b.items[i].source # None -> Settled(b.items[i])
               [] OTHER -> b.items[i]
           items == [i \in Id |-> After(i)]
           c     == [b EXCEPT !.items = items, !.stored = ids]
           out   == {i \in Id \ changed : Known(s, i) /\ Known(b, i) /\ ~b.items[i].live}
<1>1. Finalize(b, s, ids, changed) = Forget(c, out) BY DEF Finalize
<1> HIDE DEF items, out
<1>2. IsBoard(c) BY DEF IsBoard
<1> HIDE DEF c
<1> QED BY <1>1, <1>2, ForgetBoard

\* The items that are not in the file, and which of them go where.
New(b) == Only(b.paint, LiveIds(b) \ b.stored)
LowerThan(b, out, order) ==
  LET left == Only(New(b), {i \in Range(New(b)) : b.items[i].source = None} \ Range(out))
      stop == {k \in DOMAIN left : b.items[left[k]].order >= order}
  IN  IF stop = {} THEN left ELSE SubSeq(left, 1, Min(stop) - 1)
Placing(b, out, i) ==
  IF ~Known(b, i) THEN out
  ELSE out \o LowerThan(b, out, b.items[i].order)
           \o (IF IsLive(b, i) /\ i \in b.stored THEN <<i>> ELSE <<>>)
PlacedFunction(f, b, file, n) ==
  f = [k \in 0..n |-> IF k = 0 THEN <<>> ELSE Placing(b, f[k - 1], file[k].id)]

LEMMA PlacedExists ==
  ASSUME NEW b, NEW file, NEW n \in Nat
  PROVE  \E f : PlacedFunction(f, b, file, n)
<1> DEFINE T == {m \in Nat : ~ \E f : PlacedFunction(f, b, file, m)}
<1> SUFFICES ASSUME T # {} PROVE FALSE OBVIOUS
<1>1. PICK m \in T : \A k \in T : m <= k
  <2>1. T \subseteq Nat OBVIOUS
  <2> HIDE DEF T
  <2> QED BY <2>1, Least
<1>2. CASE m = 0
  <2> DEFINE f == [k \in 0..0 |-> <<>>]
  <2>1. PlacedFunction(f, b, file, 0) BY DEF PlacedFunction
  <2> QED BY <1>2, <2>1
<1>3. CASE m # 0
  <2>1. m - 1 \in Nat /\ m - 1 \notin T BY <1>1, <1>3
  <2>2. PICK f : PlacedFunction(f, b, file, m - 1) BY <2>1
  <2> DEFINE last == Placing(b, f[m - 1], file[m].id)
             g    == [k \in 0..m |-> IF k = m THEN last ELSE f[k]]
  <2>3. \A k \in 0..(m - 1) : f[k] = IF k = 0 THEN <<>> ELSE Placing(b, f[k - 1], file[k].id)
    BY <2>2 DEF PlacedFunction
  <2>4. \A k \in 0..m : g[k] = IF k = 0 THEN <<>> ELSE Placing(b, g[k - 1], file[k].id)
    BY <1>3, <2>1, <2>3
  <2>5. PlacedFunction(g, b, file, m) BY <2>4 DEF PlacedFunction
  <2> QED BY <2>5
<1> QED BY <1>2, <1>3

LEMMA LowerThanSequence ==
  ASSUME NEW b, IsBoard(b), NEW out, NEW order
  PROVE  Sequence(LowerThan(b, out, order))
<1> DEFINE left == Only(New(b), {i \in Range(New(b)) : b.items[i].source = None} \ Range(out))
           stop == {k \in DOMAIN left : b.items[left[k]].order >= order}
<1>1. Sequence(New(b)) BY OnlySequence DEF New, IsBoard
<1>2. Sequence(left) BY <1>1, OnlySequence
<1>3. LowerThan(b, out, order) = IF stop = {} THEN left ELSE SubSeq(left, 1, Min(stop) - 1)
  BY DEF LowerThan
<1> HIDE DEF left
<1>4. Len(left) \in Nat /\ DOMAIN left = 1..Len(left) BY <1>2, SequenceHas
<1>5. stop \in SUBSET (1..Len(left)) BY <1>4
<1> HIDE DEF stop
<1>6. CASE stop # {}
  <2>1. Min(stop) \in stop BY <1>4, <1>5, <1>6, Extremes
  <2> DEFINE l == Min(stop) - 1
  <2>2. l \in 0..Len(left)
    <3>1. Min(stop) \in 1..Len(left) BY <1>5, <2>1
    <3> QED BY <1>4, <3>1
  <2> HIDE DEF l
  <2>3. Sequence(SubSeq(left, 1, l)) BY <1>2, <2>2, PieceSequence
  <2> QED BY <1>3, <1>6, <2>3 DEF l
<1> QED BY <1>2, <1>3, <1>6

LEMMA PlacingSequence ==
  ASSUME NEW b, IsBoard(b), NEW out, Sequence(out), NEW i
  PROVE  Sequence(Placing(b, out, i))
<1> DEFINE lower == LowerThan(b, out, b.items[i].order)
           own   == IF IsLive(b, i) /\ i \in b.stored THEN <<i>> ELSE <<>>
<1>1. Sequence(lower) BY LowerThanSequence
<1>2. Sequence(own) BY EmptySequence, SingleSequence
<1>3. Placing(b, out, i) = IF ~Known(b, i) THEN out ELSE (out \o lower) \o own BY DEF Placing
<1> HIDE DEF lower, own
<1>4. Sequence(out \o lower) BY <1>1, JoinedSequence
<1>5. Sequence((out \o lower) \o own) BY <1>2, <1>4, JoinedSequence
<1> QED BY <1>3, <1>5

LEMMA WriteFileSequence ==
  ASSUME NEW b, IsBoard(b), NEW file, Sequence(file)
  PROVE  Sequence(WriteFile(b, file))
<1> DEFINE old    == CHOOSE f : PlacedFunction(f, b, file, Len(file))
           placed == old[Len(file)]
           all    == Only(placed \o Only(New(b), Range(New(b)) \ Range(placed)),
                          {i \in Id : Stores(b, file, i)})
           w      == WriteFile(b, file)
<1>1. w = [k \in DOMAIN all |-> [id |-> all[k], c |-> Serialized(b, file, all[k])]]
  BY DEF WriteFile, PlacedFunction, Placing, LowerThan, New
<1>2. Len(file) \in Nat BY SequenceHas
<1>3. PlacedFunction(old, b, file, Len(file)) BY <1>2, PlacedExists
<1> HIDE DEF old
<1>4. \A k \in 0..Len(file) :
        old[k] = IF k = 0 THEN <<>> ELSE Placing(b, old[k - 1], file[k].id)
  BY <1>3, Zenon DEF PlacedFunction
<1> DEFINE T == {k \in 0..Len(file) : Sequence(old[k])}
<1>5. 0 \in T BY <1>2, <1>4, EmptySequence
<1>6. ASSUME NEW k \in 1..Len(file), k - 1 \in T PROVE k \in T
  <2>1. k \in 0..Len(file) /\ k # 0 BY <1>2
  <2>2. old[k] = Placing(b, old[k - 1], file[k].id) BY <1>4, <2>1
  <2>3. Sequence(old[k]) BY <1>6, <2>2, PlacingSequence
  <2> QED BY <2>1, <2>3
<1> HIDE DEF T
<1>7. 0..Len(file) \subseteq T BY <1>2, <1>5, <1>6, HoldsUpTo
<1>8. Len(file) \in T BY <1>2, <1>7
<1>9. Sequence(placed) BY <1>8 DEF T
<1> HIDE DEF placed
<1>10. Sequence(New(b)) BY OnlySequence DEF New, IsBoard
<1> DEFINE more == Only(New(b), Range(New(b)) \ Range(placed))
<1>11. Sequence(more) BY <1>10, OnlySequence
<1>12. Sequence(placed \o more)
  <2> HIDE DEF more
  <2> QED BY <1>9, <1>11, JoinedSequence
<1>13. Sequence(all) BY <1>12, OnlySequence
<1> HIDE DEF all
<1>14. Len(all) \in Nat /\ DOMAIN all = 1..Len(all) BY <1>13, SequenceHas
<1>15. w = [k \in 1..Len(all) |-> w[k]] BY <1>1, <1>14
<1> HIDE DEF w
<1>16. Sequence(w) BY <1>14, <1>15, FunctionSequence
<1> QED BY <1>16 DEF w

-----------------------------------------------------------------------------
(* The journal, the screens, the file and the save *)

DiskOK == disk.seq \in 0..Len(log) /\ Sequence(disk.file)
JobOK ==
  job.running => /\ DOMAIN job = {"running", "b", "seq", "changed"}
                 /\ IsBoard(job.b) /\ job.seq \in 0..Len(log)
LogOK ==
  /\ Sequence(log) /\ \A k \in 1..Len(log) : IsMutation(log[k])
  /\ Sequence(screens) /\ Len(screens) = Len(log)

\* What is replayed of the journal.
ReplayStep(r, k) ==
  IF r.ok /\ Accepts(r.b, log[k]) THEN [ok |-> TRUE, b |-> Process(r.b, log[k], k)]
  ELSE [r EXCEPT !.ok = FALSE]
ReplayOnce(r, k) == CHOOSE s \in {ReplayStep(q, k) : q \in {r}} : TRUE
ReplayFunction(f, n) ==
  f = [k \in 0..n |-> IF k = 0 THEN [ok |-> TRUE, b |-> Loaded(disk.file)]
                      ELSE ReplayOnce(f[k - 1], disk.seq + k)]

LEMMA ReplayExists ==
  ASSUME NEW n \in Nat
  PROVE  \E f : ReplayFunction(f, n)
<1> DEFINE T == {m \in Nat : ~ \E f : ReplayFunction(f, m)}
<1> SUFFICES ASSUME T # {} PROVE FALSE OBVIOUS
<1>1. PICK m \in T : \A k \in T : m <= k
  <2>1. T \subseteq Nat OBVIOUS
  <2> HIDE DEF T
  <2> QED BY <2>1, Least
<1> DEFINE first == [ok |-> TRUE, b |-> Loaded(disk.file)]
<1>2. CASE m = 0
  <2> DEFINE f == [k \in 0..0 |-> first]
  <2>1. ReplayFunction(f, 0) BY DEF ReplayFunction
  <2> QED BY <1>2, <2>1
<1>3. CASE m # 0
  <2>1. m - 1 \in Nat /\ m - 1 \notin T BY <1>1, <1>3
  <2>2. PICK f : ReplayFunction(f, m - 1) BY <2>1
  <2> DEFINE last == ReplayOnce(f[m - 1], disk.seq + m)
             g    == [k \in 0..m |-> IF k = m THEN last ELSE f[k]]
  <2>3. \A k \in 0..(m - 1) :
          f[k] = IF k = 0 THEN first ELSE ReplayOnce(f[k - 1], disk.seq + k)
    BY <2>2 DEF ReplayFunction
  <2>4. ASSUME NEW k \in 0..m
        PROVE  g[k] = IF k = 0 THEN first ELSE ReplayOnce(g[k - 1], disk.seq + k)
    <3> HIDE DEF first
    <3>1. k # 0 => g[k - 1] = f[k - 1] BY <1>3, <2>1
    <3>2. CASE k = m BY <1>3, <3>1, <3>2
    <3>3. CASE k # m
      <4>1. k \in 0..(m - 1) /\ g[k] = f[k] BY <2>1, <3>3
      <4> QED BY <2>3, <3>1, <4>1
    <3> QED BY <3>2, <3>3
  <2>5. ReplayFunction(g, m) BY <2>4 DEF ReplayFunction
  <2> QED BY <2>5
<1> QED BY <1>2, <1>3

LEMMA RecoveredBoard ==
  ASSUME LogOK, DiskOK, Recovered.ok
  PROVE  IsBoard(Recovered.b)
<1> DEFINE n        == Len(log) - disk.seq
           replayed == CHOOSE f : ReplayFunction(f, n)
<1>1. Recovered = replayed[n] BY DEF Recovered, ReplayFunction, ReplayOnce, ReplayStep
<1>2. n \in Nat /\ Len(log) \in Nat /\ disk.seq \in Nat
  <2>1. Len(log) \in Nat BY SequenceHas DEF LogOK
  <2> QED BY <2>1 DEF DiskOK
<1> HIDE DEF n
<1>3. ReplayFunction(replayed, n) BY <1>2, ReplayExists
<1> HIDE DEF replayed
<1>4. \A k \in 0..n : replayed[k] = IF k = 0 THEN [ok |-> TRUE, b |-> Loaded(disk.file)]
                                    ELSE ReplayOnce(replayed[k - 1], disk.seq + k)
  BY <1>3, Zenon DEF ReplayFunction
<1> DEFINE Good(r) == r.ok => IsBoard(r.b)
           T       == {k \in 0..n : /\ DOMAIN replayed[k] = {"ok", "b"}
                                    /\ replayed[k].ok => IsBoard(replayed[k].b)}
<1>5. 0 \in T
  <2>1. replayed[0] = [ok |-> TRUE, b |-> Loaded(disk.file)]
    <3>1. 0 \in 0..n BY <1>2
    <3> QED BY <1>4, <3>1, Zenon
  <2>2. IsBoard(Loaded(disk.file)) BY LoadedBoard DEF DiskOK
  <2>3. DOMAIN replayed[0] = {"ok", "b"} /\ replayed[0].b = Loaded(disk.file) BY <2>1
  <2> QED BY <1>2, <2>2, <2>3
<1>6. ASSUME NEW k \in 1..n, k - 1 \in T PROVE k \in T
  <2> DEFINE r == replayed[k - 1]
             l == disk.seq + k
  <2>1. k \in 0..n /\ k # 0 /\ l \in 1..Len(log) BY <1>2 DEF n
  <2>2. replayed[k] = ReplayOnce(r, l) BY <1>4, <2>1
  <2>3. DOMAIN r = {"ok", "b"} /\ (r.ok => IsBoard(r.b)) BY <1>6
  <2>4. IsMutation(log[l]) BY <2>1 DEF LogOK
  <2> HIDE DEF r, l
  <2>5. ReplayOnce(r, l) = ReplayStep(r, l) BY DEF ReplayOnce
  <2>6. CASE r.ok /\ Accepts(r.b, log[l])
    <3>1. ReplayStep(r, l) = [ok |-> TRUE, b |-> Process(r.b, log[l], l)]
      BY <2>6 DEF ReplayStep
    <3>2. IsBoard(Process(r.b, log[l], l)) BY <2>3, <2>4, <2>6, ProcessBoard
    <3>3. DOMAIN replayed[k] = {"ok", "b"} /\ replayed[k].b = Process(r.b, log[l], l)
      BY <2>2, <2>5, <3>1
    <3> QED BY <2>1, <3>2, <3>3
  <2>7. CASE ~(r.ok /\ Accepts(r.b, log[l]))
    <3>1. ReplayStep(r, l) = [r EXCEPT !.ok = FALSE] BY <2>7 DEF ReplayStep
    <3>2. DOMAIN replayed[k] = {"ok", "b"} /\ replayed[k].ok = FALSE
      BY <2>2, <2>3, <2>5, <3>1
    <3> QED BY <2>1, <3>2
  <2> QED BY <2>6, <2>7
<1> HIDE DEF T
<1>7. 0..n \subseteq T BY <1>2, <1>5, <1>6, HoldsUpTo
<1>8. n \in T BY <1>2, <1>7
<1>9. replayed[n].ok => IsBoard(replayed[n].b) BY <1>8 DEF T
<1> QED BY <1>1, <1>9

\* What a recorded mutation does to the journal and the screens.
LEMMA RecordEffect ==
  ASSUME LogOK, NEW m, IsMutation(m), NEW evicted, Sequence(evicted), Record(m, evicted)
  PROVE  /\ LogOK' /\ Len(log') = Len(log) + 1 + Len(evicted)
         /\ log'[Len(log) + 1] = m
         /\ \A k \in 1..Len(evicted) : log'[Len(log) + 1 + k].type = "delete"
<1> DEFINE Del(k) == Mutation("delete", <<evicted[k]>>)
           dels   == [k \in DOMAIN evicted |-> Del(k)]
           all    == <<m>> \o dels
           drawn[k \in 0..Len(all)] ==
             IF k = 0 THEN shown ELSE Draw(drawn[k - 1], all[k], Len(log) + k)
<1>1. Len(evicted) \in Nat /\ DOMAIN evicted = 1..Len(evicted) BY SequenceHas
<1>2. ASSUME NEW k \in 1..Len(evicted) PROVE IsMutation(Del(k)) /\ Del(k).type = "delete"
  BY SingleSequence, PlainMutation
<1>3. screens' = screens \o [k \in 1..Len(all) |-> drawn[k]]
  BY DEF Record
<1>4. log' = log \o all BY DEF Record
<1> HIDE DEF drawn
<1>5. Sequence(dels) /\ Len(dels) = Len(evicted)
      /\ \A k \in 1..Len(evicted) : dels[k] = Del(k)
  <2>1. dels = [k \in 1..Len(evicted) |-> dels[k]] BY <1>1
  <2>2. \A k \in 1..Len(evicted) : dels[k] = Del(k) BY <1>1
  <2> HIDE DEF dels
  <2> QED BY <1>1, <2>1, <2>2, FunctionSequence
<1> HIDE DEF dels
<1>6. /\ Sequence(all) /\ Len(all) = 1 + Len(evicted) /\ all[1] = m
      /\ \A k \in 1..Len(evicted) : all[1 + k] = Del(k)
  BY <1>1, <1>5, SingleSequence, JoinedSequence
<1> HIDE DEF all, Del
<1>7. Len(log) \in Nat BY SequenceHas DEF LogOK
<1>8. /\ Sequence(log') /\ Len(log') = Len(log) + Len(all)
      /\ \A k \in 1..Len(log) : log'[k] = log[k]
      /\ \A k \in 1..Len(all) : log'[Len(log) + k] = all[k]
  <2>1. Sequence(log) BY DEF LogOK
  <2>2. /\ Sequence(log \o all) /\ Len(log \o all) = Len(log) + Len(all)
        /\ \A k \in 1..Len(log) : (log \o all)[k] = log[k]
        /\ \A k \in 1..Len(all) : (log \o all)[Len(log) + k] = all[k]
    BY <1>6, <2>1, JoinedSequence
  <2> QED BY <1>4, <2>2
<1>9. \A k \in 1..Len(evicted) : log'[Len(log) + 1 + k] = Del(k)
  <2>1. \A k \in 1..Len(evicted) : 1 + k \in 1..Len(all) /\ Len(log) + (1 + k) = Len(log) + 1 + k
    BY <1>1, <1>6, <1>7
  <2> QED BY <1>6, <1>8, <2>1
<1>10. log'[Len(log) + 1] = m BY <1>1, <1>6, <1>8
<1>11. ASSUME NEW k \in 1..Len(log') PROVE IsMutation(log'[k])
  <2>1. CASE k \in 1..Len(log) BY <1>8, <2>1 DEF LogOK
  <2>2. CASE k = Len(log) + 1 BY <1>10, <2>2
  <2>3. CASE k - Len(log) - 1 \in 1..Len(evicted)
    <3>1. log'[Len(log) + 1 + (k - Len(log) - 1)] = Del(k - Len(log) - 1) BY <1>9, <2>3
    <3>2. Len(log) + 1 + (k - Len(log) - 1) = k BY <1>7
    <3> QED BY <1>2, <2>3, <3>1, <3>2
  <2> QED BY <1>1, <1>6, <1>7, <1>8, <2>1, <2>2, <2>3
<1> DEFINE new == [k \in 1..Len(all) |-> drawn[k]]
<1>12. Sequence(new) /\ Len(new) = Len(all)
  <2>1. new = [k \in 1..Len(all) |-> new[k]] /\ Len(all) \in Nat BY <1>1, <1>6
  <2> HIDE DEF new
  <2> QED BY <2>1, FunctionSequence
<1> HIDE DEF new
<1>13. Sequence(screens') /\ Len(screens') = Len(screens) + Len(all)
  BY <1>3, <1>12, JoinedSequence DEF LogOK, new
<1>14. LogOK' BY <1>8, <1>11, <1>13 DEF LogOK
<1> QED BY <1>1, <1>2, <1>6, <1>7, <1>8, <1>9, <1>10, <1>14

-----------------------------------------------------------------------------
(* The order of the stacks: what a user has undone comes after what is not *)

UndoneLast(h) ==
  \A j, k \in 1..Len(h) : j < k /\ h[j].owner = h[k].owner /\ h[j].undone => h[k].undone

\* The same owners, with the same actions undone.
SameUndone(t, h) ==
  /\ Len(t) = Len(h)
  /\ \A j \in 1..Len(h) : t[j].owner = h[j].owner /\ t[j].undone = h[j].undone

LEMMA SameKeepsOrder ==
  ASSUME NEW h, NEW t, UndoneLast(h), SameUndone(t, h)
  PROVE  UndoneLast(t)
BY DEF UndoneLast, SameUndone

\* Elements of h in their order.
Within(t, h, e) ==
  /\ \A j \in 1..Len(t) : e[j] \in 1..Len(h) /\ t[j] = h[e[j]]
  /\ \A j, k \in 1..Len(t) : j < k => e[j] < e[k]

LEMMA WithinKeepsOrder ==
  ASSUME NEW h, NEW t, UndoneLast(h), NEW e, Within(t, h, e)
  PROVE  UndoneLast(t)
<1> SUFFICES ASSUME NEW j \in 1..Len(t), NEW k \in 1..Len(t), j < k,
                    t[j].owner = t[k].owner, t[j].undone
             PROVE  t[k].undone
  BY DEF UndoneLast
<1>1. /\ e[j] \in 1..Len(h) /\ t[j] = h[e[j]] /\ e[k] \in 1..Len(h) /\ t[k] = h[e[k]]
      /\ e[j] < e[k]
  BY DEF Within
<1> QED BY <1>1 DEF UndoneLast

LEMMA RecentOrder ==
  ASSUME NEW h, Sequence(h), UndoneLast(h)
  PROVE  UndoneLast(Recent(h))
<1>1. Len(h) \in Nat /\ MaxActions \in Nat \ {0} BY SequenceHas, HistoryAssumption
<1>2. CASE Len(h) > MaxActions
  <2> DEFINE m == Len(h) - MaxActions + 1
             n == Len(h)
             t == SubSeq(h, m, n)
             e == [j \in 1..MaxActions |-> m + j - 1]
  <2>1. Recent(h) = t BY <1>2 DEF Recent
  <2>2. /\ m \in Nat \ {0} /\ n \in 0..Len(h) /\ n - m + 1 = MaxActions /\ m <= n
        /\ \A j \in 1..MaxActions : m + j - 1 \in 1..Len(h)
    BY <1>1, <1>2
  <2> HIDE DEF m, n
  <2>3. Len(t) = MaxActions /\ \A j \in 1..MaxActions : t[j] = h[m + j - 1]
    BY <2>2, PieceSequence
  <2> HIDE DEF t
  <2>4. Within(t, h, e) BY <1>1, <2>2, <2>3 DEF Within
  <2> HIDE DEF e
  <2> QED BY <2>1, <2>4, WithinKeepsOrder
<1>3. CASE ~(Len(h) > MaxActions) BY <1>3 DEF Recent
<1> QED BY <1>2, <1>3

LEMMA RemoveAtOrder ==
  ASSUME NEW h, Sequence(h), UndoneLast(h), NEW k \in 1..Len(h)
  PROVE  UndoneLast(RemoveAt(h, k))
<1>1. Len(h) \in Nat BY SequenceHas
<1> DEFINE a == k - 1
           b == k + 1
           n == Len(h)
           l == SubSeq(h, 1, a)
           r == SubSeq(h, b, n)
           t == l \o r
           e == [j \in 1..Len(h) - 1 |-> IF j < k THEN j ELSE j + 1]
<1>2. a \in 0..Len(h) /\ b \in Nat \ {0} /\ n \in 0..Len(h) /\ 1 \in Nat \ {0}
      /\ a = k - 1 /\ b = k + 1 /\ n = Len(h)
  BY <1>1
<1>3. RemoveAt(h, k) = t BY DEF RemoveAt
<1> HIDE DEF a, b, n
<1>4. Sequence(l) /\ Len(l) = k - 1 /\ \A j \in 1..(k - 1) : l[j] = h[j]
  <2>1. /\ Sequence(l) /\ Len(l) = IF 1 <= a THEN a - 1 + 1 ELSE 0
        /\ \A j \in 1..a - 1 + 1 : l[j] = h[1 + j - 1]
    BY <1>1, <1>2, PieceSequence
  <2> HIDE DEF l
  <2>2. \A j \in 1..(k - 1) : j \in 1..a - 1 + 1 /\ 1 + j - 1 = j BY <1>1, <1>2
  <2>3. \A j \in 1..(k - 1) : l[j] = h[1 + j - 1] BY <2>1, <2>2
  <2> QED BY <1>1, <1>2, <2>1, <2>2, <2>3
<1>5. Sequence(r) /\ Len(r) = Len(h) - k /\ \A j \in 1..(Len(h) - k) : r[j] = h[k + j]
  <2>1. /\ Sequence(r) /\ Len(r) = IF b <= n THEN n - b + 1 ELSE 0
        /\ \A j \in 1..n - b + 1 : r[j] = h[b + j - 1]
    BY <1>1, <1>2, PieceSequence
  <2> HIDE DEF r
  <2>2. \A j \in 1..(Len(h) - k) : j \in 1..n - b + 1 /\ b + j - 1 = k + j BY <1>1, <1>2
  <2>3. \A j \in 1..(Len(h) - k) : r[j] = h[b + j - 1] BY <2>1, <2>2
  <2> QED BY <1>1, <1>2, <2>1, <2>2, <2>3
<1> HIDE DEF l, r
<1>6. /\ Sequence(t) /\ Len(t) = Len(l) + Len(r)
      /\ \A j \in 1..Len(l) : t[j] = l[j]
      /\ \A j \in 1..Len(r) : t[Len(l) + j] = r[j]
  <2>1. Sequence(l) /\ Sequence(r) BY <1>4, <1>5
  <2> QED BY <2>1, JoinedSequence
<1> HIDE DEF t
<1>7. Len(t) = Len(h) - 1 BY <1>1, <1>4, <1>5, <1>6
<1>8. ASSUME NEW j \in 1..Len(h) - 1 PROVE e[j] \in 1..Len(h) /\ t[j] = h[e[j]]
  <2>1. CASE j < k BY <1>1, <1>4, <1>6, <2>1
  <2>2. CASE ~(j < k)
    <3> DEFINE i == j - (k - 1)
    <3>1. i \in 1..(Len(h) - k) /\ Len(l) + i = j /\ k + i = j + 1 BY <1>1, <1>4, <2>2
    <3> HIDE DEF i
    <3>2. t[j] = h[j + 1]
      <4>1. t[Len(l) + i] = r[i] BY <1>5, <1>6, <3>1
      <4>2. r[i] = h[k + i] BY <1>5, <3>1
      <4> QED BY <3>1, <4>1, <4>2
    <3> QED BY <1>1, <2>2, <3>2
  <2> QED BY <2>1, <2>2
<1>9. \A i, j \in 1..Len(h) - 1 : i < j => e[i] < e[j] BY <1>1
<1> HIDE DEF e
<1>10. Within(t, h, e) BY <1>7, <1>8, <1>9 DEF Within
<1> QED BY <1>3, <1>10, WithinKeepsOrder

LEMMA OnlyOrder ==
  ASSUME NEW h, Sequence(h), UndoneLast(h), NEW S
  PROVE  UndoneLast(Only(h, S))
<1>1. Len(h) \in Nat BY SequenceHas
<1>2. PICK f : /\ f[0] = <<>> /\ Only(h, S) = f[Len(h)]
               /\ \A k \in 1..Len(h) :
                    f[k] = IF h[k] \in S THEN Append(f[k - 1], h[k]) ELSE f[k - 1]
  BY <1>1, OnlySteps
<1> DEFINE Among(t, k) == \A i \in 1..Len(t) : \E j \in 1..k : t[i] = h[j]
           T == {k \in 0..Len(h) : Sequence(f[k]) /\ Among(f[k], k) /\ UndoneLast(f[k])}
<1>3. 0 \in T
  <2>1. Sequence(f[0]) /\ Len(f[0]) = 0 BY <1>2, EmptySequence
  <2> QED BY <1>1, <2>1 DEF UndoneLast
<1>4. ASSUME NEW k \in 1..Len(h), k - 1 \in T PROVE k \in T
  <2> DEFINE t == f[k - 1]
  <2>1. Sequence(t) /\ Among(t, k - 1) /\ UndoneLast(t) BY <1>4
  <2>2. Len(t) \in Nat BY <2>1, SequenceHas
  <2>3. CASE h[k] \in S
    <3>1. f[k] = Append(t, h[k]) BY <1>2, <2>3
    <3>2. /\ Sequence(f[k]) /\ Len(f[k]) = Len(t) + 1 /\ f[k][Len(t) + 1] = h[k]
          /\ \A i \in 1..Len(t) : f[k][i] = t[i]
      BY <2>1, <3>1, LongerSequence
    <3> HIDE DEF t
    <3>3. ASSUME NEW i \in 1..Len(t) PROVE \E j \in 1..(k - 1) : t[i] = h[j] BY <2>1
    <3>4. \A i \in 1..Len(t) + 1 : i \in 1..Len(t) \/ i = Len(t) + 1 BY <2>2
    <3>5. Among(f[k], k)
      <4>1. ASSUME NEW i \in 1..Len(t) PROVE \E j \in 1..k : f[k][i] = h[j]
        <5>1. PICK j \in 1..(k - 1) : t[i] = h[j] BY <3>3
        <5>2. j \in 1..k /\ f[k][i] = h[j] BY <1>1, <3>2, <5>1
        <5> QED BY <5>2
      <4>2. k \in 1..k BY <1>1
      <4> QED BY <3>2, <3>4, <4>1, <4>2
    <3>6. ASSUME NEW i \in 1..Len(t), t[i].owner = h[k].owner, t[i].undone PROVE h[k].undone
      <4>1. PICK j \in 1..(k - 1) : t[i] = h[j] BY <3>3
      <4>2. j \in 1..Len(h) /\ j < k BY <1>1, <4>1
      <4> QED BY <3>6, <4>1, <4>2 DEF UndoneLast
    <3>7. UndoneLast(f[k])
      <4> SUFFICES ASSUME NEW i \in 1..Len(t) + 1, NEW j \in 1..Len(t) + 1, i < j,
                          f[k][i].owner = f[k][j].owner, f[k][i].undone
                   PROVE  f[k][j].undone
        BY <3>2 DEF UndoneLast
      <4>1. i \in 1..Len(t) /\ f[k][i] = t[i] BY <2>2, <3>2
      <4>2. CASE j \in 1..Len(t)
        <5>1. f[k][j] = t[j] BY <3>2, <4>2
        <5> QED BY <2>1, <4>1, <4>2, <5>1 DEF UndoneLast
      <4>3. CASE j = Len(t) + 1 BY <3>2, <3>6, <4>1, <4>3
      <4> QED BY <3>4, <4>2, <4>3
    <3>8. k \in 0..Len(h) BY <1>1
    <3> HIDE DEF Among
    <3> QED BY <3>2, <3>5, <3>7, <3>8
  <2>4. CASE h[k] \notin S
    <3>1. f[k] = t BY <1>2, <2>4
    <3> HIDE DEF t
    <3>2. \A j \in 1..(k - 1) : j \in 1..k BY <1>1
    <3>3. Among(t, k) BY <2>1, <3>2
    <3>4. Among(f[k], k) BY <3>1, <3>3
    <3>5. k \in 0..Len(h) BY <1>1
    <3> HIDE DEF Among
    <3> QED BY <2>1, <3>1, <3>4, <3>5
  <2> QED BY <2>3, <2>4
<1> HIDE DEF T
<1>5. 0..Len(h) \subseteq T BY <1>1, <1>3, <1>4, HoldsUpTo
<1>6. Len(h) \in T BY <1>1, <1>5
<1> QED BY <1>2, <1>6 DEF T

-----------------------------------------------------------------------------
(* The stacks of actions *)

\* The entries say one thing of each item.
OneItemEach(entries) ==
  \A d \in Range(entries), e \in Range(entries) : d.id = e.id => d.item = e.item

\* An action knows what was before it, and when it is undone, what was after it.
IsAction(a) ==
  /\ DOMAIN a = {"owner", "group", "before", "after", "undone", "valid"}
  /\ Sequence(a.before) /\ Sequence(a.after)
  /\ a.undone \in BOOLEAN /\ (~a.undone => a.after = <<>>)
  /\ IdsOf(a.after) \subseteq IdsOf(a.before)
  /\ a.undone /\ a.valid => IdsOf(a.before) \subseteq IdsOf(a.after)
  /\ OneItemEach(a.before) /\ OneItemEach(a.after)

\* Nobody but the owner, and those in `ids' if the owner is u, has changed what
\* a valid action may put back.
Mine(a, w, u, ids) ==
  a.valid => \A i \in Id \cap IdsOf(a.before) :
               w[i] \in {a.owner, None} \/ (a.owner = u /\ i \in ids)
StacksBut(h, w, u, ids) ==
  Sequence(h) /\ \A a \in Range(h) : IsAction(a) /\ Mine(a, w, u, ids)
Stacks(h, w) == \A u : StacksBut(h, w, u, {})

LEMMA IdsOfElements ==
  ASSUME NEW s, Sequence(s)
  PROVE  IdsOf(s) = {e.id : e \in Range(s)}
BY DEF IdsOf, Range

LEMMA IdsOfEmpty == IdsOf(<<>>) = {}
BY IdsOfElements, EmptySequence

LEMMA IdsOfJoined ==
  ASSUME NEW s, NEW t, Sequence(s), Sequence(t)
  PROVE  IdsOf(s \o t) = IdsOf(s) \cup IdsOf(t)
BY IdsOfElements, JoinedSequence

LEMMA NothingOnce == OneItemEach(<<>>)
BY EmptySequence DEF OneItemEach

LEMMA PartOnce ==
  ASSUME NEW s, OneItemEach(s), NEW t, Range(t) \subseteq Range(s)
  PROVE  OneItemEach(t)
BY DEF OneItemEach

LEMMA JoinedOnce ==
  ASSUME NEW s, NEW t, Sequence(s), Sequence(t), OneItemEach(s), OneItemEach(t),
         IdsOf(s) \cap IdsOf(t) = {}
  PROVE  OneItemEach(s \o t)
<1>1. Range(s \o t) = Range(s) \cup Range(t) BY JoinedSequence
<1>2. \A d \in Range(s), e \in Range(t) : d.id # e.id BY IdsOfElements
<1> QED BY <1>1, <1>2 DEF OneItemEach

LEMMA StacksBoth ==
  ASSUME NEW h, NEW w
  PROVE  Stacks(h, w) <=>
           /\ Sequence(h)
           /\ \A a \in Range(h) :
                /\ IsAction(a)
                /\ a.valid => \A i \in Id \cap IdsOf(a.before) : w[i] \in {a.owner, None}
BY DEF Stacks, StacksBut, Mine

LEMMA StacksWeaker ==
  ASSUME NEW h, NEW w, Stacks(h, w), NEW u, NEW ids
  PROVE  StacksBut(h, w, u, ids)
BY StacksBoth DEF StacksBut, Mine

LEMMA PartOfStacks ==
  ASSUME NEW h, NEW w, NEW u, NEW ids, StacksBut(h, w, u, ids),
         NEW t, Sequence(t), Range(t) \subseteq Range(h)
  PROVE  StacksBut(t, w, u, ids)
BY DEF StacksBut

LEMMA RecentStacks ==
  ASSUME NEW h, NEW w, NEW u, NEW ids, StacksBut(h, w, u, ids)
  PROVE  StacksBut(Recent(h), w, u, ids) /\ Len(Recent(h)) <= MaxActions
<1>1. Sequence(h) /\ Len(h) \in Nat BY SequenceHas DEF StacksBut
<1>2. MaxActions \in Nat \ {0} BY HistoryAssumption
<1>3. CASE Len(h) > MaxActions
  <2> DEFINE m == Len(h) - MaxActions + 1
             n == Len(h)
  <2>1. Recent(h) = SubSeq(h, m, n) BY <1>3 DEF Recent
  <2>2. m \in Nat \ {0} /\ n \in 0..Len(h) /\ n - m + 1 = MaxActions /\ m <= n
    BY <1>1, <1>2, <1>3
  <2> HIDE DEF m, n
  <2>3. /\ Sequence(SubSeq(h, m, n)) /\ Range(SubSeq(h, m, n)) \subseteq Range(h)
        /\ Len(SubSeq(h, m, n)) = MaxActions
    BY <1>1, <2>2, PieceSequence
  <2> QED BY <1>2, <2>1, <2>3, PartOfStacks
<1>4. CASE ~(Len(h) > MaxActions) BY <1>1, <1>2, <1>4 DEF Recent
<1> QED BY <1>3, <1>4

LEMMA RemoveAtStacks ==
  ASSUME NEW h, NEW w, Stacks(h, w), NEW k \in 1..Len(h)
  PROVE  Stacks(RemoveAt(h, k), w) /\ Len(RemoveAt(h, k)) <= Len(h)
<1>1. Sequence(h) /\ Len(h) \in Nat BY SequenceHas, StacksBoth
<1> DEFINE a == k - 1
           b == k + 1
           n == Len(h)
<1>2. a \in 0..Len(h) /\ b \in Nat \ {0} /\ n \in 0..Len(h) /\ 1 \in Nat \ {0}
      /\ a = k - 1 /\ b = k + 1 /\ n = Len(h)
  BY <1>1
<1>3. RemoveAt(h, k) = SubSeq(h, 1, a) \o SubSeq(h, b, n) BY DEF RemoveAt
<1> HIDE DEF a, b, n
<1>4. /\ Sequence(SubSeq(h, 1, a)) /\ Range(SubSeq(h, 1, a)) \subseteq Range(h)
      /\ Len(SubSeq(h, 1, a)) = k - 1
  BY <1>1, <1>2, PieceSequence
<1>5. /\ Sequence(SubSeq(h, b, n)) /\ Range(SubSeq(h, b, n)) \subseteq Range(h)
      /\ Len(SubSeq(h, b, n)) = Len(h) - k
  BY <1>1, <1>2, PieceSequence
<1>6. /\ Sequence(RemoveAt(h, k)) /\ Range(RemoveAt(h, k)) \subseteq Range(h)
      /\ Len(RemoveAt(h, k)) = (k - 1) + (Len(h) - k)
  <2> DEFINE l == SubSeq(h, 1, a)
             r == SubSeq(h, b, n)
  <2>1. /\ Sequence(l) /\ Range(l) \subseteq Range(h) /\ Len(l) = k - 1
        /\ Sequence(r) /\ Range(r) \subseteq Range(h) /\ Len(r) = Len(h) - k
        /\ RemoveAt(h, k) = l \o r
    BY <1>3, <1>4, <1>5
  <2> HIDE DEF l, r
  <2>2. Sequence(l \o r) /\ Range(l \o r) = Range(l) \cup Range(r) /\ Len(l \o r) = Len(l) + Len(r)
    BY <2>1, JoinedSequence
  <2> QED BY <2>1, <2>2
<1>7. \A u : StacksBut(RemoveAt(h, k), w, u, {}) BY <1>6, PartOfStacks DEF Stacks
<1> QED BY <1>1, <1>6, <1>7 DEF Stacks

LEMMA ForgottenAction ==
  ASSUME NEW a, IsAction(a)
  PROVE  /\ IsAction(Forgotten(a)) /\ ~Forgotten(a).valid
         /\ Forgotten(a).owner = a.owner /\ Forgotten(a).undone = a.undone
<1> DEFINE e == <<>>
           f == [a EXCEPT !.valid = FALSE, !.before = e, !.after = e]
<1>1. Forgotten(a) = f BY DEF Forgotten
<1>2. /\ DOMAIN f = DOMAIN a /\ f.valid = FALSE /\ f.before = e /\ f.after = e
      /\ f.owner = a.owner /\ f.undone = a.undone
  BY DEF IsAction
<1>3. Sequence(e) /\ IdsOf(e) = {} /\ e = <<>> /\ OneItemEach(e)
  BY EmptySequence, IdsOfEmpty, NothingOnce
<1> HIDE DEF f, e
<1>4. IsAction(f) BY <1>2, <1>3 DEF IsAction
<1> QED BY <1>1, <1>2, <1>4

\* A recorded mutation of u changes the items in `changed': what others may put
\* back of them is forgotten.
LEMMA ObserveStacks ==
  ASSUME NEW h, NEW w, NEW u, NEW ids, StacksBut(h, w, u, ids),
         NEW changed, ids \subseteq changed, NEW clears \in BOOLEAN
  PROVE  /\ Stacks(Observe(h, u, changed, clears),
                   [i \in Id |-> IF i \in changed THEN u ELSE w[i]])
         /\ SameUndone(Observe(h, u, changed, clears), h)
<1> DEFINE o  == Observe(h, u, changed, clears)
           w2 == [i \in Id |-> IF i \in changed THEN u ELSE w[i]]
           Gives(k) == h[k].owner # u /\ (clears \/ IdsOf(h[k].before) \cap changed # {})
<1>1. Sequence(h) /\ Len(h) \in Nat /\ DOMAIN h = 1..Len(h) BY SequenceHas DEF StacksBut
<1>2. \A k \in 1..Len(h) : o[k] = IF Gives(k) THEN Forgotten(h[k]) ELSE h[k]
  BY <1>1 DEF Observe
<1>3. Sequence(o) /\ Len(o) = Len(h)
  <2>1. o = [k \in 1..Len(h) |-> o[k]] BY <1>1 DEF Observe
  <2> HIDE DEF o
  <2> QED BY <1>1, <2>1, FunctionSequence
<1>4. \A i \in Id : w2[i] = IF i \in changed THEN u ELSE w[i] OBVIOUS
<1> HIDE DEF o, w2
<1>5. ASSUME NEW k \in 1..Len(h)
      PROVE  /\ IsAction(o[k])
             /\ o[k].valid => \A i \in Id \cap IdsOf(o[k].before) : w2[i] \in {o[k].owner, None}
             /\ o[k].owner = h[k].owner /\ o[k].undone = h[k].undone
  <2>1. h[k] \in Range(h) BY <1>1, SequenceHas
  <2>2. IsAction(h[k]) /\ Mine(h[k], w, u, ids) BY <2>1 DEF StacksBut
  <2>3. CASE Gives(k)
    <3>1. o[k] = Forgotten(h[k]) BY <1>2, <2>3
    <3> QED BY <2>2, <3>1, ForgottenAction
  <2>4. CASE ~Gives(k)
    <3>1. o[k] = h[k] BY <1>2, <2>4
    <3>2. ASSUME h[k].valid, NEW i \in Id \cap IdsOf(h[k].before)
          PROVE  w2[i] \in {h[k].owner, None}
      <4>1. w[i] \in {h[k].owner, None} \/ (h[k].owner = u /\ i \in ids)
        BY <2>2, <3>2 DEF Mine
      <4>2. CASE h[k].owner = u BY <1>4, <4>1, <4>2
      <4>3. CASE h[k].owner # u
        <5>1. i \notin changed BY <2>4, <4>3
        <5> QED BY <1>4, <4>1, <4>3, <5>1
      <4> QED BY <4>2, <4>3
    <3> QED BY <2>2, <3>1, <3>2
  <2> QED BY <2>3, <2>4
<1>6. \A a \in Range(o) : \E k \in 1..Len(h) : a = o[k] BY <1>3, SequenceHas
<1>7. Stacks(o, w2) BY <1>3, <1>5, <1>6, StacksBoth
<1>8. SameUndone(o, h) BY <1>3, <1>5 DEF SameUndone
<1> QED BY <1>7, <1>8 DEF o, w2

LEMMA LatestIs ==
  ASSUME NEW h, Sequence(h), NEW u, \E k \in 1..Len(h) : h[k].owner = u
  PROVE  /\ LatestOf(h, u) \in 1..Len(h) /\ h[LatestOf(h, u)].owner = u
         /\ \A k \in 1..Len(h) : h[k].owner = u => k <= LatestOf(h, u)
<1> DEFINE mine == {k \in DOMAIN h : h[k].owner = u}
<1>1. Len(h) \in Nat /\ DOMAIN h = 1..Len(h) BY SequenceHas
<1>2. LatestOf(h, u) = Max(mine) BY <1>1 DEF LatestOf
<1>3. mine \in SUBSET (1..Len(h)) /\ mine # {} BY <1>1
<1>4. \A k \in 1..Len(h) : k \in mine <=> h[k].owner = u BY <1>1
<1> HIDE DEF mine
<1>5. Max(mine) \in mine /\ \A k \in mine : k <= Max(mine) BY <1>1, <1>3, Extremes
<1> QED BY <1>2, <1>3, <1>4, <1>5

LEMMA LatestExists ==
  ASSUME NEW h, Sequence(h), NEW u, LatestOf(h, u) # 0
  PROVE  LatestOf(h, u) \in 1..Len(h) /\ h[LatestOf(h, u)].owner = u
<1>1. \E k \in 1..Len(h) : h[k].owner = u BY SequenceHas DEF LatestOf
<1> QED BY <1>1, LatestIs

LEMMA PeekIs ==
  ASSUME NEW h, Sequence(h), NEW u, NEW redo \in BOOLEAN, Peek(h, u, redo) # 0
  PROVE  /\ Peek(h, u, redo) \in 1..Len(h) /\ h[Peek(h, u, redo)].owner = u
         /\ h[Peek(h, u, redo)].undone = redo
<1> DEFINE mine == {k \in DOMAIN h : h[k].owner = u /\ h[k].undone = redo}
<1>1. Len(h) \in Nat /\ DOMAIN h = 1..Len(h) BY SequenceHas
<1>2. Peek(h, u, redo) = IF mine = {} THEN 0 ELSE IF redo THEN Min(mine) ELSE Max(mine)
  BY DEF Peek
<1>3. /\ mine \in SUBSET (1..Len(h))
      /\ \A k \in mine : h[k].owner = u /\ h[k].undone = redo
  BY <1>1
<1> HIDE DEF mine
<1>4. mine # {} BY <1>2
<1>5. Min(mine) \in mine /\ Max(mine) \in mine BY <1>1, <1>3, <1>4, Extremes
<1> QED BY <1>2, <1>3, <1>4, <1>5

\* A write opens the user's latest action, which is not undone.
LEMMA OpenedStacks ==
  ASSUME NEW h, NEW w, Stacks(h, w), NEW u, NEW g
  PROVE  LET open == Opened(h, u, g)
             k    == LatestOf(open, u)
         IN  /\ Stacks(open, w) /\ k \in 1..Len(open) /\ open[k].owner = u /\ ~open[k].undone
             /\ UndoneLast(h) => UndoneLast(open)
<1> DEFINE open == Opened(h, u, g)
           k    == LatestOf(open, u)
<1>1. Sequence(h) BY StacksBoth
<1>2. CASE Continues(h, u, g)
  <2>1. open = h BY <1>2 DEF Opened
  <2>2. LatestOf(h, u) # 0 /\ ~h[LatestOf(h, u)].undone BY <1>2 DEF Continues
  <2> QED BY <1>1, <2>1, <2>2, LatestExists
<1>3. CASE ~Continues(h, u, g)
  <2> DEFINE S    == {a \in Range(h) : a.owner # u \/ ~a.undone}
             kept == Only(h, S)
             new  == NewAction(u, g)
  <2>1. open = Append(kept, new) BY <1>3 DEF Opened
  <2>2. Sequence(kept) /\ Range(kept) \subseteq Range(h) BY <1>1, OnlySequence
  <2>3. IsAction(new) /\ new.before = <<>> /\ new.owner = u /\ new.undone = FALSE
    <3> DEFINE e == <<>>
    <3>1. /\ DOMAIN new = {"owner", "group", "before", "after", "undone", "valid"}
          /\ new.before = e /\ new.after = e /\ new.owner = u /\ new.undone = FALSE
      BY DEF NewAction
    <3>2. Sequence(e) /\ IdsOf(e) = {} /\ e = <<>> /\ OneItemEach(e)
      BY EmptySequence, IdsOfEmpty, NothingOnce
    <3> HIDE DEF new, e
    <3> QED BY <3>1, <3>2 DEF IsAction
  <2> HIDE DEF new, kept
  <2>4. /\ Sequence(open) /\ Range(open) = Range(kept) \cup {new} /\ Len(open) = Len(kept) + 1
        /\ open[Len(kept) + 1] = new
    BY <2>1, <2>2, LongerSequence
  <2>5. IdsOf(new.before) = {} BY <2>3, IdsOfEmpty
  <2>6. Stacks(open, w) BY <2>2, <2>3, <2>4, <2>5, StacksBoth
  <2>7. Len(kept) \in Nat BY <2>2, SequenceHas
  <2> HIDE DEF open
  <2>8. /\ k \in 1..Len(open) /\ open[k].owner = u
        /\ \A j \in 1..Len(open) : open[j].owner = u => j <= k
    <3>1. \E j \in 1..Len(open) : open[j].owner = u BY <2>3, <2>4, <2>7
    <3> QED BY <2>4, <3>1, LatestIs
  <2>9. k = Len(kept) + 1
    <3>1. Len(kept) + 1 <= k BY <2>3, <2>4, <2>7, <2>8
    <3> HIDE DEF k
    <3> QED BY <2>4, <2>7, <2>8, <3>1
  <2>10. ~open[k].undone BY <2>3, <2>4, <2>9
  <2>11. ASSUME UndoneLast(h) PROVE UndoneLast(open)
    <3>1. UndoneLast(kept) BY <1>1, <2>11, OnlyOrder DEF kept
    <3>2. \A j \in 1..Len(kept) : open[j] = kept[j] BY <2>1, <2>2, LongerSequence DEF open
    <3>3. ASSUME NEW j \in 1..Len(kept) PROVE kept[j].owner # u \/ ~kept[j].undone
      <4>1. Range(kept) \subseteq S BY <1>1, OnlySequence DEF kept
      <4>2. kept[j] \in Range(kept) BY <2>2, SequenceHas
      <4> QED BY <4>1, <4>2
    <3> SUFFICES ASSUME NEW i \in 1..Len(open), NEW j \in 1..Len(open), i < j,
                        open[i].owner = open[j].owner, open[i].undone
                 PROVE  open[j].undone
      BY DEF UndoneLast
    <3>4. i \in 1..Len(kept) /\ open[i] = kept[i] BY <2>4, <2>7, <3>2
    <3>5. CASE j \in 1..Len(kept) BY <3>1, <3>2, <3>4, <3>5 DEF UndoneLast
    <3>6. CASE j = Len(kept) + 1 BY <2>3, <2>4, <3>3, <3>4, <3>6
    <3> QED BY <2>4, <2>7, <3>5, <3>6
  <2> QED BY <2>6, <2>8, <2>10, <2>11 DEF open
<1> QED BY <1>2, <1>3

\* t is h with a in the place of its element k.
Replaced(t, h, k, a) ==
  /\ DOMAIN t = DOMAIN h /\ t = [j \in DOMAIN h |-> t[j]]
  /\ \A j \in 1..Len(h) : t[j] = IF j = k THEN a ELSE h[j]

\* What a continued or a new action may become.
LEMMA ChangedStacks ==
  ASSUME NEW h, NEW w, NEW u, NEW ids, StacksBut(h, w, u, ids), NEW k \in 1..Len(h),
         NEW a, IsAction(a), Mine(a, w, u, ids),
         NEW t, Replaced(t, h, k, a)
  PROVE  StacksBut(t, w, u, ids) /\ Len(t) = Len(h)
<1>1. Sequence(h) /\ Len(h) \in Nat /\ DOMAIN h = 1..Len(h) BY SequenceHas DEF StacksBut
<1>2. Sequence(t) /\ Len(t) = Len(h)
  <2>1. t = [j \in 1..Len(h) |-> t[j]] BY <1>1 DEF Replaced
  <2> QED BY <1>1, <2>1, FunctionSequence
<1>3. ASSUME NEW j \in 1..Len(h) PROVE IsAction(t[j]) /\ Mine(t[j], w, u, ids)
  <2>1. h[j] \in Range(h) BY <1>1, SequenceHas
  <2>2. IsAction(h[j]) /\ Mine(h[j], w, u, ids) BY <2>1 DEF StacksBut
  <2>3. t[j] = IF j = k THEN a ELSE h[j] BY DEF Replaced
  <2> QED BY <2>2, <2>3
<1>4. \A x \in Range(t) : \E j \in 1..Len(h) : x = t[j] BY <1>2, SequenceHas
<1>5. \A x \in Range(t) : IsAction(x) /\ Mine(x, w, u, ids) BY <1>3, <1>4
<1> QED BY <1>2, <1>5 DEF StacksBut

LEMMA ReplacedSame ==
  ASSUME NEW h, Sequence(h), NEW k \in 1..Len(h), NEW a,
         a.owner = h[k].owner, a.undone = h[k].undone, NEW t, Replaced(t, h, k, a)
  PROVE  SameUndone(t, h)
<1>1. Len(h) \in Nat /\ DOMAIN h = 1..Len(h) BY SequenceHas
<1>2. t = [j \in 1..Len(h) |-> t[j]] BY <1>1 DEF Replaced
<1>3. Len(t) = Len(h) BY <1>1, <1>2, FunctionSequence
<1>4. ASSUME NEW j \in 1..Len(h) PROVE t[j].owner = h[j].owner /\ t[j].undone = h[j].undone
  <2>1. t[j] = IF j = k THEN a ELSE h[j] BY DEF Replaced
  <2> QED BY <2>1
<1> QED BY <1>3, <1>4 DEF SameUndone

LEMMA ChangedAction ==
  ASSUME NEW h, NEW w, Stacks(h, w), NEW k \in 1..Len(h), NEW a, IsAction(a),
         a.valid => \A i \in Id \cap IdsOf(a.before) : w[i] \in {a.owner, None},
         NEW t, Replaced(t, h, k, a)
  PROVE  Stacks(t, w) /\ Len(t) = Len(h)
<1> DEFINE none == {}
<1>1. ASSUME NEW u PROVE StacksBut(h, w, u, none) /\ Mine(a, w, u, none) BY DEF Stacks, Mine
<1>2. \A u : StacksBut(h, w, u, none) /\ Mine(a, w, u, none) BY <1>1
<1> HIDE DEF none
<1>3. ASSUME NEW u PROVE StacksBut(t, w, u, none) /\ Len(t) = Len(h) BY <1>2, ChangedStacks
<1> QED BY <1>3 DEF Stacks, none

LEMMA BeginStacks ==
  ASSUME NEW h, NEW w, Stacks(h, w), NEW u, NEW g,
         NEW snap, Sequence(snap), OneItemEach(snap),
         NEW ids, IdsOf(snap) \subseteq ids
  PROVE  /\ StacksBut(Begin(h, u, g, snap), w, u, ids)
         /\ Len(Begin(h, u, g, snap)) <= MaxActions
         /\ UndoneLast(h) => UndoneLast(Begin(h, u, g, snap))
<1> DEFINE open == Opened(h, u, g)
           k    == LatestOf(open, u)
           S    == {e \in Range(snap) : e.id \notin IdsOf(open[k].before)}
           new  == Only(snap, S)
           all  == open[k].before \o new
           none == <<>>
           full == [open EXCEPT ![k].valid = FALSE, ![k].before = none]
           more == [open EXCEPT ![k].before = all]
<1>1. Begin(h, u, g, snap) = IF ~open[k].valid THEN Recent(open)
                             ELSE IF Len(all) > MaxRestored THEN Recent(full) ELSE Recent(more)
  BY DEF Begin
<1>2. /\ Stacks(open, w) /\ k \in 1..Len(open) /\ open[k].owner = u /\ ~open[k].undone
      /\ UndoneLast(h) => UndoneLast(open)
  BY OpenedStacks
<1>3. Sequence(new) /\ Range(new) \subseteq Range(snap) BY OnlySequence
<1>4. IdsOf(new) \subseteq ids /\ IdsOf(open[k].before) \cap IdsOf(new) = {}
  <2>1. Range(new) \subseteq S BY OnlySequence
  <2> HIDE DEF new
  <2> QED BY <1>3, <2>1, IdsOfElements
<1> HIDE DEF open, k, new
<1>5. Sequence(open) /\ DOMAIN open = 1..Len(open) /\ StacksBut(open, w, u, ids)
  BY <1>2, SequenceHas, StacksBoth, StacksWeaker
<1>6. open[k] \in Range(open) BY <1>2, <1>5, SequenceHas
<1>7. IsAction(open[k]) /\ Mine(open[k], w, u, ids) BY <1>5, <1>6 DEF StacksBut
<1>8. open[k].after = <<>> BY <1>2, <1>7 DEF IsAction
<1>9. /\ Sequence(all) /\ IdsOf(all) = IdsOf(open[k].before) \cup IdsOf(new)
      /\ OneItemEach(all)
  <2>1. OneItemEach(new) BY <1>3, PartOnce
  <2> QED BY <1>3, <1>4, <1>7, <2>1, JoinedSequence, IdsOfJoined, JoinedOnce DEF IsAction
<1>10. Sequence(none) /\ IdsOf(none) = {} /\ OneItemEach(none)
  BY EmptySequence, IdsOfEmpty, NothingOnce
<1> HIDE DEF none, all
<1>11. StacksBut(full, w, u, ids) /\ SameUndone(full, open)
  <2> DEFINE a == [open[k] EXCEPT !.valid = FALSE, !.before = none]
  <2>1. /\ DOMAIN a = DOMAIN open[k] /\ a.before = none /\ a.after = open[k].after
        /\ a.valid = FALSE /\ a.undone = open[k].undone /\ a.owner = open[k].owner
    BY <1>7 DEF IsAction
  <2>2. Replaced(full, open, k, a) BY <1>2, <1>5, <1>7 DEF IsAction, Replaced
  <2> HIDE DEF a, full
  <2>3. IsAction(a) /\ Mine(a, w, u, ids) BY <1>7, <1>8, <1>10, <2>1, IdsOfEmpty DEF IsAction, Mine
  <2>4. SameUndone(full, open) BY <1>2, <1>5, <2>1, <2>2, ReplacedSame
  <2> QED BY <1>2, <1>5, <2>2, <2>3, <2>4, ChangedStacks
<1>12. StacksBut(more, w, u, ids) /\ SameUndone(more, open)
  <2> DEFINE a == [open[k] EXCEPT !.before = all]
  <2>1. /\ DOMAIN a = DOMAIN open[k] /\ a.before = all /\ a.after = open[k].after
        /\ a.valid = open[k].valid /\ a.undone = open[k].undone /\ a.owner = open[k].owner
    BY <1>7 DEF IsAction
  <2>2. Replaced(more, open, k, a) BY <1>2, <1>5, <1>7 DEF IsAction, Replaced
  <2> HIDE DEF a, more
  <2>3. IsAction(a)
    <3>1. ~a.undone /\ a.after = <<>> /\ IdsOf(a.after) = {} BY <1>2, <1>8, <2>1, IdsOfEmpty
    <3>2. OneItemEach(a.after) BY <1>7, <2>1 DEF IsAction
    <3> QED BY <1>7, <1>9, <2>1, <3>1, <3>2 DEF IsAction
  <2>4. Mine(a, w, u, ids) BY <1>2, <1>4, <1>7, <1>9, <2>1 DEF Mine
  <2>5. SameUndone(more, open) BY <1>2, <1>5, <2>1, <2>2, ReplacedSame
  <2> QED BY <1>2, <1>5, <2>2, <2>3, <2>4, <2>5, ChangedStacks
<1> HIDE DEF full, more
<1>13. ASSUME UndoneLast(h)
       PROVE  UndoneLast(Recent(open)) /\ UndoneLast(Recent(full)) /\ UndoneLast(Recent(more))
  <2>1. UndoneLast(open) /\ UndoneLast(full) /\ UndoneLast(more)
    BY <1>2, <1>11, <1>12, <1>13, SameKeepsOrder
  <2>2. Sequence(full) /\ Sequence(more) BY <1>11, <1>12 DEF StacksBut
  <2> QED BY <1>5, <2>1, <2>2, RecentOrder
<1>14. /\ StacksBut(Begin(h, u, g, snap), w, u, ids)
       /\ Len(Begin(h, u, g, snap)) <= MaxActions
  BY <1>1, <1>5, <1>11, <1>12, RecentStacks
<1> QED BY <1>1, <1>13, <1>14

LEMMA RejectedStacks ==
  ASSUME NEW h, NEW w, Stacks(h, w), Len(h) <= MaxActions, NEW u, NEW g,
         NEW snap, Sequence(snap), OneItemEach(snap)
  PROVE  /\ Stacks(Rejected(h, u, g, snap), w)
         /\ SameUndone(Rejected(h, u, g, snap), h)
<1>1. CASE ~Continues(h, u, g) BY <1>1 DEF Rejected, SameUndone
<1>2. CASE Continues(h, u, g)
  <2> DEFINE k     == LatestOf(h, u)
             old   == IdsOf(h[k].before)
             begun == Begin(h, u, g, snap)[k]
             kept  == Only(begun.before, {e \in Range(begun.before) : e.id \in old})
             t     == [h EXCEPT ![k].before = kept]
             a     == [h[k] EXCEPT !.before = kept]
  <2>1. Rejected(h, u, g, snap) = t BY <1>2 DEF Rejected
  <2>2. Sequence(h) /\ Len(h) \in Nat /\ DOMAIN h = 1..Len(h) BY SequenceHas, StacksBoth
  <2>3. k \in 1..Len(h) /\ h[k].owner = u /\ ~h[k].undone
    <3>1. LatestOf(h, u) # 0 /\ ~h[LatestOf(h, u)].undone BY <1>2 DEF Continues
    <3> QED BY <2>2, <3>1, LatestExists
  <2> HIDE DEF k
  <2>4. h[k] \in Range(h) BY <2>2, <2>3, SequenceHas
  <2>5. /\ IsAction(h[k])
        /\ h[k].valid => \A i \in Id \cap old : w[i] \in {h[k].owner, None}
    BY <2>4, StacksBoth
  <2>6. h[k].after = <<>> BY <2>3, <2>5 DEF IsAction
  <2>7. Sequence(begun.before) /\ OneItemEach(begun.before)
    <3> DEFINE b   == Begin(h, u, g, snap)
               ids == IdsOf(snap)
    <3>1. StacksBut(b, w, u, ids) BY BeginStacks
    <3>2. Len(b) = Len(h)
      <4> DEFINE S    == {e \in Range(snap) : e.id \notin IdsOf(h[k].before)}
                 all  == h[k].before \o Only(snap, S)
                 none == <<>>
                 full == [h EXCEPT ![k].valid = FALSE, ![k].before = none]
                 more == [h EXCEPT ![k].before = all]
      <4>1. Opened(h, u, g) = h BY <1>2 DEF Opened
      <4>2. b = IF ~h[k].valid THEN Recent(h)
                ELSE IF Len(all) > MaxRestored THEN Recent(full) ELSE Recent(more)
        BY <4>1 DEF Begin, k
      <4> HIDE DEF all, none
      <4>3. /\ full = [j \in 1..Len(h) |-> full[j]] /\ more = [j \in 1..Len(h) |-> more[j]]
        BY <2>2
      <4> HIDE DEF full, more, b
      <4>4. Len(full) = Len(h) /\ Len(more) = Len(h) BY <2>2, <4>3, FunctionSequence
      <4>5. ~(Len(h) > MaxActions) BY <2>2, HistoryAssumption
      <4>6. Recent(h) = h /\ Recent(full) = full /\ Recent(more) = more
        BY <4>4, <4>5 DEF Recent
      <4> QED BY <4>2, <4>4, <4>6
    <3> HIDE DEF b, ids
    <3>3. b[k] \in Range(b) BY <2>3, <3>1, <3>2, SequenceHas DEF StacksBut
    <3>4. IsAction(b[k]) BY <3>1, <3>3 DEF StacksBut
    <3> QED BY <3>4 DEF IsAction, b
  <2> HIDE DEF begun
  <2>8. Sequence(kept) /\ IdsOf(kept) \subseteq old /\ OneItemEach(kept)
    <3>1. Sequence(kept) /\ Range(kept) \subseteq {e \in Range(begun.before) : e.id \in old}
      BY <2>7, OnlySequence
    <3> HIDE DEF kept, old
    <3>2. IdsOf(kept) = {e.id : e \in Range(kept)} BY <3>1, IdsOfElements
    <3>3. OneItemEach(kept) BY <2>7, <3>1, PartOnce
    <3> QED BY <3>1, <3>2, <3>3
  <2> HIDE DEF kept
  <2>9. /\ DOMAIN a = DOMAIN h[k] /\ a.before = kept /\ a.after = h[k].after
        /\ a.valid = h[k].valid /\ a.undone = h[k].undone /\ a.owner = h[k].owner
    BY <2>5 DEF IsAction
  <2>10. Replaced(t, h, k, a) BY <2>2, <2>3, <2>5 DEF IsAction, Replaced
  <2> HIDE DEF a, t
  <2>11. IsAction(a) BY <2>5, <2>6, <2>8, <2>9, IdsOfEmpty DEF IsAction
  <2>12. a.valid => \A i \in Id \cap IdsOf(a.before) : w[i] \in {a.owner, None}
    BY <2>5, <2>8, <2>9
  <2>13. Stacks(t, w) BY <2>3, <2>10, <2>11, <2>12, ChangedAction
  <2>14. SameUndone(t, h) BY <2>2, <2>3, <2>9, <2>10, ReplacedSame
  <2> QED BY <2>1, <2>13, <2>14
<1> QED BY <1>1, <1>2

\* An action undone or redone.
LEMMA ReversedStacks ==
  ASSUME NEW h, NEW w, Stacks(h, w), NEW k \in 1..Len(h), NEW redo \in BOOLEAN,
         NEW now, Sequence(now), OneItemEach(now), IdsOf(now) = IdsOf(h[k].before)
  PROVE  /\ Stacks(Reversed(h, k, redo, now), w)
         /\ Len(Reversed(h, k, redo, now)) = Len(h)
         /\ Reversed(h, k, redo, now)[k].before = h[k].before
         /\ ~redo => Reversed(h, k, redo, now)[k].after = now
         /\ \A j \in 1..Len(h) :
              /\ Reversed(h, k, redo, now)[j].owner = h[j].owner
              /\ Reversed(h, k, redo, now)[j].undone = IF j = k THEN ~redo ELSE h[j].undone
<1> DEFINE none == <<>>
           next == IF redo THEN none ELSE now
           t    == [h EXCEPT ![k].undone = ~redo, ![k].after = next]
           a    == [h[k] EXCEPT !.undone = ~redo, !.after = next]
<1>1. Reversed(h, k, redo, now) = t BY DEF Reversed
<1>2. Sequence(h) /\ Len(h) \in Nat /\ DOMAIN h = 1..Len(h) BY SequenceHas, StacksBoth
<1>3. h[k] \in Range(h) BY <1>2, SequenceHas
<1>4. /\ IsAction(h[k])
      /\ h[k].valid => \A i \in Id \cap IdsOf(h[k].before) : w[i] \in {h[k].owner, None}
  BY <1>3, StacksBoth
<1>5. Sequence(none) /\ IdsOf(none) = {} /\ none = <<>> /\ OneItemEach(none)
  BY EmptySequence, IdsOfEmpty, NothingOnce
<1>6. /\ Sequence(next) /\ IdsOf(next) \subseteq IdsOf(h[k].before) /\ OneItemEach(next)
      /\ redo => next = <<>>
      /\ ~redo => next = now
  <2> HIDE DEF none
  <2> QED BY <1>5
<1> HIDE DEF next
<1>7. /\ DOMAIN a = DOMAIN h[k] /\ a.before = h[k].before /\ a.after = next
      /\ a.valid = h[k].valid /\ a.undone = ~redo /\ a.owner = h[k].owner
  BY <1>4 DEF IsAction
<1>8. Replaced(t, h, k, a) BY <1>2, <1>4 DEF IsAction, Replaced
<1> HIDE DEF a, t
<1>9. IsAction(a) BY <1>4, <1>6, <1>7 DEF IsAction
<1>10. a.valid => \A i \in Id \cap IdsOf(a.before) : w[i] \in {a.owner, None} BY <1>4, <1>7
<1>11. Stacks(t, w) /\ Len(t) = Len(h) BY <1>8, <1>9, <1>10, ChangedAction
<1>12. ASSUME NEW j \in 1..Len(h)
       PROVE  t[j].owner = h[j].owner /\ t[j].undone = IF j = k THEN ~redo ELSE h[j].undone
  <2>1. t[j] = IF j = k THEN a ELSE h[j] BY <1>8 DEF Replaced
  <2> QED BY <1>7, <2>1
<1>13. t[k].before = h[k].before /\ (~redo => t[k].after = now) BY <1>6, <1>7, <1>8 DEF Replaced
<1> QED BY <1>1, <1>11, <1>12, <1>13

\* An action undone is the next that the user can redo, and the other way round.
LEMMA ReversedOrder ==
  ASSUME NEW h, Sequence(h), \A j \in 1..Len(h) : h[j].undone \in BOOLEAN, UndoneLast(h),
         NEW u, NEW redo \in BOOLEAN, NEW k, k = Peek(h, u, redo), k # 0,
         NEW t, Sequence(t), Len(t) = Len(h),
         \A j \in 1..Len(h) : /\ t[j].owner = h[j].owner
                              /\ t[j].undone = IF j = k THEN ~redo ELSE h[j].undone
  PROVE  UndoneLast(t) /\ Peek(t, u, ~redo) = k
<1> DEFINE mine  == {j \in DOMAIN h : h[j].owner = u /\ h[j].undone = redo}
           yours == {j \in DOMAIN t : t[j].owner = u /\ t[j].undone = ~redo}
<1>1. Len(h) \in Nat /\ DOMAIN h = 1..Len(h) /\ DOMAIN t = 1..Len(h) BY SequenceHas
<1>2. k = IF mine = {} THEN 0 ELSE IF redo THEN Min(mine) ELSE Max(mine) BY DEF Peek
<1>3. mine \in SUBSET (1..Len(h)) /\ yours \in SUBSET (1..Len(h)) BY <1>1
<1>4. \A j \in 1..Len(h) : j \in mine <=> h[j].owner = u /\ h[j].undone = redo BY <1>1
<1>5. \A j \in 1..Len(h) : j \in yours <=> t[j].owner = u /\ t[j].undone = ~redo BY <1>1
<1>6. Peek(t, u, ~redo) = IF yours = {} THEN 0 ELSE IF ~redo THEN Min(yours) ELSE Max(yours)
  BY DEF Peek
<1> HIDE DEF mine, yours
<1>7. mine # {} BY <1>2
<1>8. /\ Min(mine) \in mine /\ \A j \in mine : Min(mine) <= j
      /\ Max(mine) \in mine /\ \A j \in mine : j <= Max(mine)
  BY <1>1, <1>3, <1>7, Extremes
<1>9. /\ k \in 1..Len(h) /\ h[k].owner = u /\ h[k].undone = redo
      /\ redo => \A j \in mine : k <= j
      /\ ~redo => \A j \in mine : j <= k
  BY <1>2, <1>3, <1>4, <1>7, <1>8
<1>10. k \in yours BY <1>5, <1>9
<1>11. /\ Min(yours) \in yours /\ \A j \in yours : Min(yours) <= j
       /\ Max(yours) \in yours /\ \A j \in yours : j <= Max(yours)
  BY <1>1, <1>3, <1>10, Extremes
<1>12. ASSUME NEW j \in yours, j # k
       PROVE  IF redo THEN j < k ELSE k < j
  <2>1. j \in 1..Len(h) /\ h[j].owner = u /\ h[j].undone = ~redo BY <1>3, <1>5, <1>12
  <2>2. CASE redo
    <3>1. k < j => h[j].undone BY <1>9, <2>1, <2>2 DEF UndoneLast
    <3>2. ~(k < j) BY <2>1, <2>2, <3>1
    <3>3. j < k BY <1>1, <1>9, <1>12, <2>1, <3>2
    <3> QED BY <2>2, <3>3
  <2>3. CASE ~redo
    <3>1. j < k => h[k].undone BY <1>9, <2>1, <2>3 DEF UndoneLast
    <3>2. ~(j < k) BY <1>9, <2>1, <2>3, <3>1
    <3> QED BY <1>1, <1>9, <1>12, <2>1, <2>3, <3>2
  <2> QED BY <2>2, <2>3
<1>13. CASE redo
  <2>1. Max(yours) = k
    <3>1. k <= Max(yours) /\ Max(yours) \in 1..Len(h) BY <1>3, <1>10, <1>11
    <3>2. Max(yours) # k => Max(yours) < k BY <1>11, <1>12, <1>13
    <3> QED BY <1>9, <3>1, <3>2
  <2>2. Peek(t, u, ~redo) = k BY <1>6, <1>10, <1>13, <2>1
  <2>3. UndoneLast(t)
    <3> SUFFICES ASSUME NEW i \in 1..Len(h), NEW j \in 1..Len(h), i < j,
                        t[i].owner = t[j].owner, t[i].undone
                 PROVE  t[j].undone
      BY DEF UndoneLast
    <3>1. i # k /\ h[i].undone /\ h[i].owner = h[j].owner BY <1>13
    <3>2. h[j].undone BY <3>1 DEF UndoneLast
    <3>3. j # k
      <4>1. j = k => i \in mine BY <1>4, <1>9, <1>13, <3>1
      <4>2. j = k => k <= i BY <1>9, <1>13, <4>1
      <4> QED BY <4>2
    <3> QED BY <3>2, <3>3
  <2> QED BY <2>2, <2>3
<1>14. CASE ~redo
  <2>1. Min(yours) = k
    <3>1. Min(yours) <= k /\ Min(yours) \in 1..Len(h) BY <1>3, <1>10, <1>11
    <3>2. Min(yours) # k => k < Min(yours) BY <1>11, <1>12, <1>14
    <3> QED BY <1>9, <3>1, <3>2
  <2>2. Peek(t, u, ~redo) = k BY <1>6, <1>10, <1>14, <2>1
  <2>3. UndoneLast(t)
    <3> SUFFICES ASSUME NEW i \in 1..Len(h), NEW j \in 1..Len(h), i < j,
                        t[i].owner = t[j].owner, t[i].undone
                 PROVE  t[j].undone
      BY DEF UndoneLast
    <3>1. CASE j = k BY <1>14, <3>1
    <3>2. CASE j # k /\ i # k
      <4>1. h[i].undone /\ h[i].owner = h[j].owner BY <3>2
      <4> QED BY <3>2, <4>1 DEF UndoneLast
    <3>3. CASE j # k /\ i = k
      <4>1. h[j].owner = u BY <1>9, <3>3
      <4>2. ~h[j].undone => j \in mine BY <1>4, <1>14, <4>1
      <4>3. ~h[j].undone => j <= k BY <1>9, <1>14, <4>2
      <4> QED BY <3>3, <4>3
    <3> QED BY <3>1, <3>2, <3>3
  <2> QED BY <2>2, <2>3
<1> QED BY <1>13, <1>14

LEMMA SnapshotsSequence ==
  ASSUME NEW ids, Sequence(ids)
  PROVE  /\ Sequence(Snapshots(ids)) /\ IdsOf(Snapshots(ids)) = Range(ids)
         /\ OneItemEach(Snapshots(ids))
<1> DEFINE t == Snapshots(ids)
<1>1. Len(ids) \in Nat /\ DOMAIN ids = 1..Len(ids) BY SequenceHas
<1>2. /\ t = [k \in 1..Len(ids) |-> t[k]]
      /\ \A k \in 1..Len(ids) : t[k] = Snapshot(ids[k])
  BY <1>1 DEF Snapshots
<1>3. \A k \in 1..Len(ids) : Snapshot(ids[k]).id = ids[k] BY DEF Snapshot
<1> HIDE DEF t
<1>4. Sequence(t) /\ DOMAIN t = 1..Len(ids) BY <1>1, <1>2, FunctionSequence
<1>5. IdsOf(t) = Range(ids) BY <1>1, <1>2, <1>3, <1>4 DEF IdsOf, Range
<1>6. OneItemEach(t)
  <2>1. \A e \in Range(t) : \E k \in 1..Len(ids) : e = t[k] BY <1>4 DEF Range
  <2>2. \A e \in Range(t) : e = Snapshot(e.id) BY <1>2, <1>3, <2>1
  <2> QED BY <2>2 DEF OneItemEach
<1> QED BY <1>4, <1>5, <1>6 DEF t

-----------------------------------------------------------------------------
(* The invariant, and each action *)

\* The stacks: a valid action names no item that somebody else has changed last,
\* whatever has been evicted, refused or dropped; it has one entry for each item,
\* and when undone the same items in both directions; and what a user has undone
\* comes last.  And what this needs of the rest: the sequences are sequences.
EditsInv ==
  /\ IsBoard(board) /\ LogOK /\ DiskOK /\ JobOK
  /\ Stacks(history, writer) /\ Len(history) <= MaxActions /\ UndoneLast(history)

LEMMA InitEdits == Init => EditsInv
<1> SUFFICES ASSUME Init PROVE EditsInv OBVIOUS
<1> DEFINE e == <<>>
<1>1. board = EmptyBoard /\ history = e /\ log = e /\ screens = e /\ e = <<>>
      /\ disk.seq = 0 /\ disk.file = e /\ ~job.running
  BY DEF Init, NoJob
<1>2. Sequence(e) /\ Range(e) = {} /\ Len(e) = 0 BY EmptySequence
<1>3. MaxActions \in Nat BY HistoryAssumption
<1> HIDE DEF e
<1>4. Stacks(history, writer) BY <1>1, <1>2, StacksBoth
<1>5. LogOK /\ DiskOK /\ JobOK BY <1>1, <1>2 DEF LogOK, DiskOK, JobOK
<1>6. Len(history) <= MaxActions BY <1>1, <1>2, <1>3
<1>7. UndoneLast(history) BY <1>1, <1>2 DEF UndoneLast
<1> QED BY <1>1, <1>4, <1>5, <1>6, <1>7, EmptyBoardIs DEF EditsInv

LEMMA SelectionSequence ==
  ASSUME NEW ids \in Selections
  PROVE  Sequence(ids)
<1>1. PICK s \in SUBSET LiveIds(board) : ids = SetToSeq(s) BY DEF Selections
<1>2. IsFiniteSet(s)
  <2>1. s \in SUBSET Id BY DEF LiveIds
  <2> QED BY <2>1, EditsAssumption, FS_Subset
<1>3. Cardinality(s) \in Nat /\ ExistsBijection(1..Cardinality(s), s) BY <1>2, FS_CardinalityType
<1>4. \E f \in [1..Cardinality(s) -> s] : IsInjective(f)
  BY <1>3 DEF ExistsBijection, Bijection, Injection, IsInjective
<1>5. SetToSeq(s) \in [1..Cardinality(s) -> s] BY <1>4 DEF SetToSeq
<1> QED BY <1>1, <1>3, <1>5, FunctionIsSeq, SequenceOf

LEMMA NextIdsSequence ==
  ASSUME NEW n \in Nat, NEW s \in NextIds(n)
  PROVE  Sequence(s)
<1>1. s = [k \in 1..n |-> Cardinality(UsedIds) + k] BY DEF NextIds
<1>2. s = [k \in 1..n |-> s[k]] BY <1>1
<1> QED BY <1>2, FunctionSequence

LEMMA AffectedSequence ==
  ASSUME IsBoard(board), NEW m, IsMutation(m)
  PROVE  Sequence(Affected(m))
<1>1. CASE m.type = "clear"
  <2>1. Affected(m) = LivePaint(board) BY <1>1 DEF Affected
  <2> QED BY <2>1, OnlySequence DEF LivePaint, IsBoard
<1>2. CASE m.type = "copy" BY <1>2 DEF Affected, IsMutation
<1>3. CASE m.type = "restore"
  <2> DEFINE t == [k \in DOMAIN m.items |-> m.items[k].id]
  <2>1. Affected(m) = t BY <1>3 DEF Affected
  <2>2. Len(m.items) \in Nat /\ DOMAIN m.items = 1..Len(m.items) BY SequenceHas DEF IsMutation
  <2>3. t = [k \in 1..Len(m.items) |-> t[k]] BY <2>2
  <2> HIDE DEF t
  <2> QED BY <2>1, <2>2, <2>3, FunctionSequence
<1>4. CASE m.type \notin {"clear", "copy", "restore"} BY <1>4 DEF Affected, IsMutation
<1> QED BY <1>1, <1>2, <1>3, <1>4

LEMMA JobKeeps ==
  ASSUME JobOK, Len(log) \in Nat, Len(log') \in Nat, Len(log) <= Len(log'),
         NEW m, Changes(m)
  PROVE  JobOK'
<1>1. CASE ~job.running BY <1>1 DEF JobOK, Changes
<1>2. CASE job.running
  <2> DEFINE c == job.changed \cup {i \in Id : \/ board.items[i] # board'.items[i]
                                               \/ m.type = "clear" /\ Known(board, i)}
  <2>1. job' = [job EXCEPT !.changed = c] BY <1>2 DEF Changes
  <2> HIDE DEF c
  <2>2. /\ DOMAIN job = {"running", "b", "seq", "changed"}
        /\ IsBoard(job.b) /\ job.seq \in 0..Len(log)
    BY <1>2 DEF JobOK
  <2>3. DOMAIN job' = DOMAIN job /\ job'.b = job.b /\ job'.seq = job.seq BY <2>1, <2>2
  <2>4. job'.seq \in 0..Len(log') BY <2>2, <2>3
  <2> QED BY <2>2, <2>3, <2>4 DEF JobOK
<1> QED BY <1>1, <1>2

\* An edit is recorded as itself and the evictions after it, none of which is a
\* restoration.
LEMMA EditKeeps ==
  ASSUME EditsInv, NEW m, IsMutation(m), m.type # "restore", Edit(m)
  PROVE  EditsInv' /\ ~Reverses
<1> DEFINE done     == Effect(board, m, Len(log) + 1)
           affected == Affected(m)
           evicted  == Evicted(done)
           before   == Snapshots(affected)
           changed  == Range(affected) \cup Range(evicted)
           clears   == m.type = "clear"
<1>1. /\ board' = TrimOverflow(done) /\ Record(m, evicted) /\ Changes(m)
      /\ UNCHANGED <<disk, persistedSeq>>
  BY DEF Edit
<1>2. PICK u, g : /\ history' = Observe(Begin(history, u, g, before), u, changed, clears)
                  /\ WrittenBy(u, changed)
  BY DEF Edit
<1>3. IsBoard(done) BY EffectBoard DEF EditsInv
<1>4. Sequence(affected) BY AffectedSequence DEF EditsInv
<1> HIDE DEF done, affected
<1>5. IsBoard(board') BY <1>1, <1>3, TrimOverflowBoard
<1>6. Sequence(evicted) BY <1>3, EvictedOf
<1>7. Sequence(before) /\ IdsOf(before) = Range(affected) /\ OneItemEach(before)
  BY <1>4, SnapshotsSequence
<1> HIDE DEF before, evicted
<1>8. /\ LogOK' /\ Len(log') = Len(log) + 1 + Len(evicted) /\ log'[Len(log) + 1] = m
  BY <1>1, <1>6, RecordEffect DEF EditsInv
<1>9. Len(log) \in Nat /\ Len(log') \in Nat /\ Len(evicted) \in Nat
  BY <1>6, <1>8, SequenceHas DEF EditsInv, LogOK
<1>10. Len(log) <= Len(log') BY <1>8, <1>9
<1>11. DiskOK'
  <2>1. disk.seq \in 0..Len(log) /\ Sequence(disk.file) BY DEF EditsInv, DiskOK
  <2>2. disk' = disk BY <1>1
  <2>3. disk.seq \in 0..Len(log') BY <1>9, <1>10, <2>1
  <2> QED BY <2>1, <2>2, <2>3 DEF DiskOK
<1>12. JobOK' BY <1>1, <1>9, <1>10, JobKeeps DEF EditsInv
<1>13. Stacks(history', writer') /\ Len(history') <= MaxActions /\ UndoneLast(history')
  <2> DEFINE begun == Begin(history, u, g, before)
             ids   == Range(affected)
  <2>1. Stacks(history, writer) /\ UndoneLast(history) BY DEF EditsInv
  <2>2. IdsOf(before) \subseteq ids BY <1>7
  <2> HIDE DEF ids
  <2>3. StacksBut(begun, writer, u, ids) /\ Len(begun) <= MaxActions /\ UndoneLast(begun)
    BY <1>7, <2>1, <2>2, BeginStacks
  <2>4. ids \subseteq changed /\ clears \in BOOLEAN BY DEF ids
  <2> HIDE DEF begun, changed, clears
  <2>5. /\ Stacks(Observe(begun, u, changed, clears),
                  [i \in Id |-> IF i \in changed THEN u ELSE writer[i]])
        /\ SameUndone(Observe(begun, u, changed, clears), begun)
    BY <2>3, <2>4, ObserveStacks
  <2>6. SameUndone(history', begun) /\ Stacks(history', writer')
    BY <1>2, <2>5 DEF WrittenBy, begun
  <2> QED BY <2>3, <2>6, SameKeepsOrder DEF SameUndone
<1>14. ~Reverses
  <2>1. Last(log') = log'[Len(log')] BY DEF Last
  <2>2. Reverses => Len(log') = Len(log) + 1 /\ Last(log').type = "restore" BY DEF Reverses
  <2> QED BY <1>8, <2>1, <2>2
<1> QED BY <1>5, <1>8, <1>11, <1>12, <1>13, <1>14 DEF EditsInv

LEMMA WriteKeeps ==
  ASSUME EditsInv, Create \/ AddPoint \/ SetText \/ Move \/ Copy \/ Delete \/ Clear
  PROVE  EditsInv' /\ ~Reverses
<1>1. CASE Create
  <2>1. PICK s \in NextIds(1), kind \in Kinds : Edit([Mutation("create", s) EXCEPT !.kind = kind])
    BY <1>1 DEF Create
  <2> DEFINE p == Mutation("create", s)
             m == [p EXCEPT !.kind = kind]
  <2>2. Sequence(s) BY NextIdsSequence
  <2>3. IsMutation(p) /\ p.type = "create" BY <2>2, PlainMutation
  <2>4. DOMAIN p = {"type", "ids", "new", "kind", "items", "by"} BY DEF Mutation
  <2> HIDE DEF p
  <2>5. m.type = p.type /\ m.ids = p.ids /\ m.new = p.new /\ m.items = p.items BY <2>4
  <2>6. Edit(m) BY <2>1 DEF p
  <2> HIDE DEF m
  <2>7. IsMutation(m) /\ m.type # "restore" BY <2>3, <2>5 DEF IsMutation
  <2> QED BY <2>6, <2>7, EditKeeps
<1>2. CASE AddPoint
  <2>1. PICK i : Edit(Mutation("append", <<i>>)) BY <1>2 DEF AddPoint
  <2>2. /\ IsMutation(Mutation("append", <<i>>)) /\ Mutation("append", <<i>>).type = "append"
    BY SingleSequence, PlainMutation
  <2> QED BY <2>1, <2>2, EditKeeps
<1>3. CASE SetText
  <2>1. PICK i : Edit(Mutation("text", <<i>>)) BY <1>3 DEF SetText
  <2>2. /\ IsMutation(Mutation("text", <<i>>)) /\ Mutation("text", <<i>>).type = "text"
    BY SingleSequence, PlainMutation
  <2> QED BY <2>1, <2>2, EditKeeps
<1>4. CASE Move
  <2>1. PICK ids \in Selections : Edit(Mutation("move", ids)) BY <1>4 DEF Move
  <2>2. /\ IsMutation(Mutation("move", ids)) /\ Mutation("move", ids).type = "move"
    BY SelectionSequence, PlainMutation
  <2> QED BY <2>1, <2>2, EditKeeps
<1>5. CASE Copy
  <2>1. PICK ids \in Selections : \E s \in NextIds(Len(ids)) :
          Edit([Mutation("copy", ids) EXCEPT !.new = s])
    BY <1>5 DEF Copy
  <2> PICK new \in NextIds(Len(ids)) : Edit([Mutation("copy", ids) EXCEPT !.new = new])
    BY <2>1
  <2> DEFINE p == Mutation("copy", ids)
             m == [p EXCEPT !.new = new]
  <2>2. Sequence(ids) BY SelectionSequence
  <2>3. Sequence(new) BY <2>2, SequenceHas, NextIdsSequence
  <2>4. IsMutation(p) /\ p.type = "copy" BY <2>2, PlainMutation
  <2>5. DOMAIN p = {"type", "ids", "new", "kind", "items", "by"} BY DEF Mutation
  <2> HIDE DEF p
  <2>6. m.type = p.type /\ m.ids = p.ids /\ m.new = new /\ m.items = p.items BY <2>5
  <2>7. Edit(m) BY DEF p
  <2> HIDE DEF m
  <2>8. IsMutation(m) /\ m.type # "restore" BY <2>3, <2>4, <2>6 DEF IsMutation
  <2> QED BY <2>7, <2>8, EditKeeps
<1>6. CASE Delete
  <2>1. PICK ids \in Selections : Edit(Mutation("delete", ids)) BY <1>6 DEF Delete
  <2>2. /\ IsMutation(Mutation("delete", ids)) /\ Mutation("delete", ids).type = "delete"
    BY SelectionSequence, PlainMutation
  <2> QED BY <2>1, <2>2, EditKeeps
<1>7. CASE Clear
  <2>1. Edit(Mutation("clear", <<>>)) BY <1>7 DEF Clear
  <2>2. /\ IsMutation(Mutation("clear", <<>>)) /\ Mutation("clear", <<>>).type = "clear"
    BY EmptySequence, PlainMutation
  <2> QED BY <2>1, <2>2, EditKeeps
<1> QED BY <1>1, <1>2, <1>3, <1>4, <1>5, <1>6, <1>7

\* A step that leaves the journal as it is reverses nothing.
LEMMA NothingReversed ==
  ASSUME LogOK, UNCHANGED log
  PROVE  ~Reverses
<1>1. Len(log) \in Nat BY SequenceHas DEF LogOK
<1> QED BY <1>1 DEF Reverses

LEMMA RefuseKeeps ==
  ASSUME EditsInv, RefuseBatch
  PROVE  EditsInv' /\ ~Reverses
<1>1. UNCHANGED <<board, log, disk, persistedSeq, job, writer, screens>> BY DEF RefuseBatch
<1> DEFINE R(u, x, y, z) == Rejected(history, u, x, Snapshots(<<y, z>>))
           Refusals(u) == {R(u, x, y, z) : x \in Gestures(u), y \in LiveIds(board),
                                           z \in UsedIds \ LiveIds(board)}
<1>2. \E u \in User : \E actions \in Refusals(u) : history' = actions BY DEF RefuseBatch
<1> HIDE DEF R, Refusals
<1>3. PICK u : history' \in Refusals(u) BY <1>2
<1>4. \E x, y, z : history' = R(u, x, y, z) BY <1>3 DEF Refusals
<1> PICK g, i, j : history' = R(u, g, i, j) BY <1>4
<1> DEFINE pair == <<i, j>>
           snap == Snapshots(pair)
<1>5. Sequence(pair)
  <2> DEFINE S == {i, j}
  <2>1. pair \in Seq(S) OBVIOUS
  <2> HIDE DEF pair, S
  <2> QED BY <2>1, SequenceOf
<1> HIDE DEF pair
<1>6. Sequence(snap) /\ OneItemEach(snap) BY <1>5, SnapshotsSequence
<1>7. history' = Rejected(history, u, g, snap) BY DEF pair, R
<1> HIDE DEF snap
<1>8. /\ Stacks(history', writer) /\ Len(history') = Len(history)
      /\ UndoneLast(history')
  <2>1. Stacks(history', writer) /\ SameUndone(history', history)
    BY <1>6, <1>7, RejectedStacks DEF EditsInv
  <2> QED BY <2>1, SameKeepsOrder DEF EditsInv, SameUndone
<1>9. LogOK' /\ DiskOK' /\ JobOK' BY <1>1 DEF EditsInv, LogOK, DiskOK, JobOK
<1>10. ~Reverses BY <1>1, NothingReversed DEF EditsInv
<1> QED BY <1>1, <1>8, <1>9, <1>10 DEF EditsInv

LEMMA DropKeeps ==
  ASSUME EditsInv, DropSeed
  PROVE  EditsInv' /\ ~Reverses
<1>1. PICK i \in LiveIds(board) :
        /\ board' = RemoveAll(board, <<i>>)
        /\ Record(Mutation("delete", <<i>>), <<>>)
        /\ Changes(Mutation("delete", <<i>>))
        /\ \E u \in User : \E g \in Gestures(u) :
             history' = Observe(Rejected(history, u, g, Snapshots(<<i>>)), None, {i}, FALSE)
        /\ WrittenBy(None, {i})
        /\ UNCHANGED <<disk, persistedSeq>>
  BY DEF DropSeed
<1>2. PICK u, g : history' = Observe(Rejected(history, u, g, Snapshots(<<i>>)), None, {i}, FALSE)
  BY <1>1
<1> DEFINE m    == Mutation("delete", <<i>>)
           none == <<>>
           snap == Snapshots(<<i>>)
           kept == Rejected(history, u, g, snap)
           ids  == {}
           out  == {i}
           no   == FALSE
<1>3. IsMutation(m) /\ m.type = "delete" BY SingleSequence, PlainMutation
<1>4. Sequence(none) /\ Len(none) = 0 BY EmptySequence
<1>5. Record(m, none) /\ Changes(m) BY <1>1
<1>6. Sequence(snap) /\ OneItemEach(snap)
  <2> DEFINE one == <<i>>
  <2>1. Sequence(one) BY SingleSequence
  <2> HIDE DEF one
  <2>2. Sequence(Snapshots(one)) /\ OneItemEach(Snapshots(one)) BY <2>1, SnapshotsSequence
  <2> QED BY <2>2 DEF one
<1>7. history' = Observe(kept, None, out, no) /\ no \in BOOLEAN BY <1>2
<1>8. writer' = [x \in Id |-> IF x \in out THEN None ELSE writer[x]] BY <1>1 DEF WrittenBy
<1>9. ids \subseteq out OBVIOUS
<1> HIDE DEF m, none, snap, ids, out, no
<1>10. LogOK' /\ Len(log') = Len(log) + 1 + 0 /\ log'[Len(log) + 1] = m
  BY <1>3, <1>4, <1>5, RecordEffect DEF EditsInv
<1>11. Len(log) \in Nat BY SequenceHas DEF EditsInv, LogOK
<1>12. Stacks(kept, writer) /\ Len(kept) = Len(history) /\ UndoneLast(kept)
  <2>1. Stacks(kept, writer) /\ SameUndone(kept, history)
    BY <1>6, RejectedStacks DEF EditsInv
  <2> HIDE DEF kept
  <2> QED BY <2>1, SameKeepsOrder DEF EditsInv, SameUndone
<1> HIDE DEF kept
<1>13. StacksBut(kept, writer, None, ids) BY <1>12, StacksWeaker
<1>14. Stacks(history', writer') /\ Len(history') = Len(kept) /\ UndoneLast(history')
  <2>1. /\ Stacks(Observe(kept, None, out, no),
                  [x \in Id |-> IF x \in out THEN None ELSE writer[x]])
        /\ SameUndone(Observe(kept, None, out, no), kept)
    BY <1>7, <1>9, <1>13, ObserveStacks
  <2>2. SameUndone(history', kept) BY <1>7, <2>1
  <2> QED BY <1>7, <1>8, <1>12, <2>1, <2>2, SameKeepsOrder DEF SameUndone
<1>15. IsBoard(board') BY <1>1, RemoveAllBoard DEF EditsInv
<1>16. Len(log') \in Nat /\ Len(log) <= Len(log') BY <1>10, <1>11
<1>17. JobOK' BY <1>5, <1>11, <1>16, JobKeeps DEF EditsInv
<1>18. DiskOK'
  <2>1. disk.seq \in 0..Len(log) /\ Sequence(disk.file) BY DEF EditsInv, DiskOK
  <2>2. disk' = disk BY <1>1
  <2>3. disk.seq \in 0..Len(log') BY <1>11, <1>16, <2>1
  <2> QED BY <2>1, <2>2, <2>3 DEF DiskOK
<1>19. ~Reverses
  <2>1. Last(log') = log'[Len(log')] BY DEF Last
  <2>2. Reverses => Len(log') = Len(log) + 1 /\ Last(log').type = "restore" BY DEF Reverses
  <2> QED BY <1>3, <1>10, <2>1, <2>2
<1>20. Len(history') <= MaxActions BY <1>12, <1>14 DEF EditsInv
<1> QED BY <1>10, <1>14, <1>15, <1>17, <1>18, <1>19, <1>20 DEF EditsInv

\* What is drawn of one recorded mutation.
LEMMA DrawnOnce ==
  ASSUME LogOK, NEW m, Record(m, <<>>)
  PROVE  shown' = Draw(shown, m, Len(log) + 1)
<1> DEFINE dels == [k \in DOMAIN <<>> |-> Mutation("delete", <<(<<>>)[k]>>)]
           all  == <<m>> \o dels
           drawn[k \in 0..Len(all)] ==
             IF k = 0 THEN shown ELSE Draw(drawn[k - 1], all[k], Len(log) + k)
           new  == [k \in 1..Len(all) |-> drawn[k]]
<1>1. log' = log \o all /\ screens' = screens \o new BY DEF Record
<1>2. dels = <<>> OBVIOUS
<1> HIDE DEF dels
<1>3. Len(all) = 1 /\ all[1] = m /\ Sequence(all)
  <2>1. all = <<m>> BY <1>2
  <2> QED BY <2>1, SingleSequence
<1> HIDE DEF all
<1>4. drawn = [k \in 0..Len(all) |->
                 IF k = 0 THEN shown ELSE Draw(drawn[k - 1], all[k], Len(log) + k)]
  <2> DEFINE last == Draw(shown, all[1], Len(log) + 1)
             f    == [k \in 0..1 |-> IF k = 0 THEN shown ELSE last]
  <2>1. f[0] = shown OBVIOUS
  <2>2. ASSUME NEW k \in 0..1
        PROVE  f[k] = IF k = 0 THEN shown ELSE Draw(f[k - 1], all[k], Len(log) + k)
    <3>1. k = 0 \/ k = 1 OBVIOUS
    <3> QED BY <2>1, <3>1
  <2> HIDE DEF f
  <2>3. f = [k \in 0..1 |-> f[k]] BY DEF f
  <2>4. f = [k \in 0..Len(all) |->
               IF k = 0 THEN shown ELSE Draw(f[k - 1], all[k], Len(log) + k)]
    BY <1>3, <2>2, <2>3
  <2> QED BY <2>4
<1> HIDE DEF drawn
<1>5. drawn[1] = Draw(shown, m, Len(log) + 1)
  <2>1. 0 \in 0..Len(all) /\ 1 \in 0..Len(all) /\ 1 # 0 /\ 1 - 1 = 0 BY <1>3
  <2>2. drawn[0] = shown BY <1>4, <2>1
  <2>3. drawn[1] = Draw(drawn[0], all[1], Len(log) + 1) BY <1>4, <2>1
  <2> QED BY <1>3, <2>2, <2>3
<1>6. Sequence(new) /\ Len(new) = 1 /\ new[1] = drawn[1]
  <2>1. new = [k \in 1..1 |-> new[k]] /\ new[1] = drawn[1] BY <1>3
  <2> HIDE DEF new
  <2> QED BY <2>1, FunctionSequence
<1> HIDE DEF new
<1>7. Len(screens) = Len(log) /\ Sequence(screens) /\ Sequence(log) BY DEF LogOK
<1>8. Len(log) \in Nat BY <1>7, SequenceHas
<1>9. Len(log \o all) = Len(log) + 1
  <2>1. Len(log \o all) = Len(log) + Len(all) BY <1>3, <1>7, JoinedSequence
  <2> QED BY <1>3, <2>1
<1>10. (screens \o new)[Len(screens) + 1] = new[1]
  <2>1. /\ Sequence(screens \o new) /\ Len(screens \o new) = Len(screens) + Len(new)
        /\ \A k \in 1..Len(new) : (screens \o new)[Len(screens) + k] = new[k]
    <3>1. Sequence(screens) /\ Sequence(new) BY <1>6, <1>7
    <3> QED BY <3>1, JoinedSequence
  <2> QED BY <1>6, <2>1
<1>11. Len(log') = Len(log) + 1 /\ screens'[Len(log) + 1] = drawn[1]
  BY <1>1, <1>6, <1>7, <1>9, <1>10
<1>12. shown' = screens'[Len(log')] BY <1>8, <1>11 DEF shown, ShownAfter
<1> QED BY <1>5, <1>11, <1>12

\* The step reverses one of u's actions, and reversing it again is what u can do
\* next; the other actions are left where they are.
TakesItsTurn(u) ==
  /\ DOMAIN history' = DOMAIN history
  /\ \E k \in DOMAIN history :
       /\ history[k].owner = u /\ history'[k].undone = ~history[k].undone
       /\ Peek(history', u, history'[k].undone) = k
       /\ \A j \in DOMAIN history : /\ history'[j].owner = history[j].owner
                                    /\ j # k => history'[j].undone = history[j].undone

\* The step puts back all items of action k, as the action remembers them, and
\* an undo remembers what it takes away.
PutsBack(k) ==
  LET kept == Entries(history, k, history[k].undone) IN
  /\ IdsOf(kept) = IdsOf(history[k].before) /\ history'[k].before = history[k].before
  /\ \A l \in DOMAIN kept : kept[l].id \in Id => shown'.items[kept[l].id] = kept[l].item
  /\ history'[k].undone => IdsOf(history'[k].after) = IdsOf(history[k].before)

\* An undo or a redo puts back items of an action that is still valid, and
\* nobody else has changed those.
LEMMA ReverseKeeps ==
  ASSUME EditsInv, NEW u, NEW redo \in BOOLEAN, ReverseEdit(u, redo)
  PROVE  /\ EditsInv' /\ Last(log').by = u /\ TakesItsTurn(u)
         /\ \A j \in DOMAIN history : history'[j].undone # history[j].undone => PutsBack(j)
         /\ \A i \in Id : shown'.items[i] # shown.items[i] => writer[i] \in {u, None}
<1> DEFINE k       == Peek(history, u, redo)
           entries == Entries(history, k, redo)
           none    == <<>>
           first   == Mutation("restore", none)
           plain   == [first EXCEPT !.items = entries, !.by = u]
           ids     == [l \in DOMAIN history[k].before |-> history[k].before[l].id]
           now     == Snapshots(ids)
           done    == Process(board, plain, Len(log) + 1)
           m       == [plain EXCEPT !.items = Anchored(done, entries)]
           named   == IdsOf(entries)
<1>1. /\ k # 0 /\ history[k].valid
      /\ board' = done
      /\ history' = Recent(Reversed(Observe(history, u, named, FALSE), k, redo, now))
      /\ Record(m, none) /\ WrittenBy(u, named) /\ Changes(m)
      /\ UNCHANGED <<disk, persistedSeq>>
  BY DEF ReverseEdit
<1>2. Sequence(none) /\ Len(none) = 0 /\ none = <<>> BY EmptySequence
<1> HIDE DEF none
<1>3. Stacks(history, writer) /\ Sequence(history) /\ IsBoard(board) /\ LogOK
  BY StacksBoth DEF EditsInv
<1>4. k \in 1..Len(history) /\ history[k].owner = u BY <1>1, <1>3, PeekIs
<1>5. history[k] \in Range(history) BY <1>3, <1>4, SequenceHas
<1>6. /\ IsAction(history[k])
      /\ \A i \in Id \cap IdsOf(history[k].before) : writer[i] \in {history[k].owner, None}
  BY <1>1, <1>3, <1>5, StacksBoth
<1>7. /\ Sequence(entries) /\ OneItemEach(entries) /\ named = IdsOf(history[k].before)
      /\ entries = Entries(history, k, history[k].undone)
  <2>1. history[k].undone = redo BY <1>1, <1>3, PeekIs
  <2> QED BY <1>1, <1>6, <2>1 DEF IsAction, Entries
<1>8. Sequence(ids) /\ Range(ids) = IdsOf(history[k].before)
  <2> DEFINE old == history[k].before
  <2>1. Sequence(old) BY <1>6 DEF IsAction
  <2> HIDE DEF old
  <2>2. Len(old) \in Nat /\ DOMAIN old = 1..Len(old) BY <2>1, SequenceHas
  <2> DEFINE t == [l \in DOMAIN old |-> old[l].id]
  <2>3. t = [l \in 1..Len(old) |-> t[l]] /\ \A l \in 1..Len(old) : t[l] = old[l].id BY <2>2
  <2>4. ids = t BY DEF old
  <2> HIDE DEF t
  <2>5. Sequence(t) /\ DOMAIN t = 1..Len(old) BY <2>2, <2>3, FunctionSequence
  <2>6. Range(t) = IdsOf(old) BY <2>2, <2>3, <2>5 DEF Range, IdsOf
  <2> HIDE DEF ids
  <2> QED BY <2>4, <2>5, <2>6 DEF old
<1>9. /\ IsMutation(plain) /\ plain.type = "restore" /\ plain.by = u /\ plain.items = entries
      /\ DOMAIN plain = {"type", "ids", "new", "kind", "items", "by"}
  <2>1. IsMutation(first) /\ first.type = "restore" BY <1>2, PlainMutation
  <2>2. DOMAIN first = {"type", "ids", "new", "kind", "items", "by"} BY DEF Mutation
  <2> HIDE DEF first, entries
  <2>3. /\ plain.type = first.type /\ plain.ids = first.ids /\ plain.new = first.new
        /\ plain.items = entries /\ plain.by = u /\ DOMAIN plain = DOMAIN first
    BY <2>2
  <2> HIDE DEF plain
  <2> QED BY <1>7, <2>1, <2>2, <2>3 DEF IsMutation
<1> HIDE DEF plain, ids, entries, first, k
<1>10. IsBoard(done) BY <1>3, <1>9, ProcessBoard
<1> HIDE DEF done
<1>11. /\ Sequence(Anchored(done, entries)) /\ IdsOf(Anchored(done, entries)) = named
       /\ DOMAIN Anchored(done, entries) = DOMAIN entries
       /\ \A l \in DOMAIN entries : /\ Anchored(done, entries)[l].id = entries[l].id
                                    /\ Anchored(done, entries)[l].item = entries[l].item
  <2> DEFINE t == Anchored(done, entries)
  <2>1. Len(entries) \in Nat /\ DOMAIN entries = 1..Len(entries) BY <1>7, SequenceHas
  <2>2. /\ t = [l \in 1..Len(entries) |-> t[l]]
        /\ \A l \in 1..Len(entries) : t[l].id = entries[l].id /\ t[l].item = entries[l].item
    BY <2>1 DEF Anchored
  <2> HIDE DEF t
  <2>3. Sequence(t) /\ DOMAIN t = 1..Len(entries) BY <2>1, <2>2, FunctionSequence
  <2>4. IdsOf(t) = IdsOf(entries) BY <2>1, <2>2, <2>3 DEF IdsOf
  <2> QED BY <2>1, <2>2, <2>3, <2>4 DEF t
<1>12. /\ IsMutation(m) /\ m.type = "restore" /\ m.by = u /\ IdsOf(m.items) = named
       /\ m.items = Anchored(done, entries)
  <2> DEFINE anchored == Anchored(done, entries)
  <2>1. /\ m.type = plain.type /\ m.ids = plain.ids /\ m.new = plain.new /\ m.by = plain.by
        /\ m.items = anchored
    BY <1>9
  <2> HIDE DEF m, anchored
  <2> QED BY <1>9, <1>11, <2>1 DEF IsMutation, anchored
<1> HIDE DEF m
<1>13. LogOK' /\ Len(log') = Len(log) + 1 + 0 /\ log'[Len(log) + 1] = m
  BY <1>1, <1>2, <1>3, <1>12, RecordEffect
<1>14. Len(log) \in Nat /\ Len(log') \in Nat /\ Len(log) <= Len(log')
  BY <1>3, <1>13, SequenceHas DEF LogOK
<1>15. Last(log').by = u
  <2>1. Last(log') = log'[Len(log')] BY DEF Last
  <2> QED BY <1>12, <1>13, <1>14, <2>1
<1>16. /\ \A i \in Id : i \notin named => shown'.items[i] = shown.items[i]
       /\ \A l \in DOMAIN entries :
            entries[l].id \in Id => shown'.items[entries[l].id] = entries[l].item
  <2>1. shown' = Draw(shown, m, Len(log) + 1) BY <1>1, <1>2, <1>3, DrawnOnce
  <2>2. shown' = DrawRestored(shown, m.items) BY <1>12, <2>1 DEF Draw
  <2> DEFINE back == m.items
             ItemOf(i) == back[CHOOSE k2 \in DOMAIN back : back[k2].id = i].item
  <2>3. \A i \in Id : shown'.items[i] = IF i \in IdsOf(back) THEN ItemOf(i) ELSE shown.items[i]
    BY <2>2 DEF DrawRestored
  <2>4. DOMAIN back = DOMAIN entries /\ \A l \in DOMAIN entries :
          back[l].id = entries[l].id /\ back[l].item = entries[l].item
    BY <1>11, <1>12
  <2> HIDE DEF back
  <2>5. ASSUME NEW l \in DOMAIN entries, entries[l].id \in Id
        PROVE  shown'.items[entries[l].id] = entries[l].item
    <3> DEFINE i == entries[l].id
               c == CHOOSE k2 \in DOMAIN back : back[k2].id = i
    <3>1. c \in DOMAIN back /\ back[c].id = i BY <2>4
    <3>2. i \in IdsOf(back) BY <2>4 DEF IdsOf
    <3>3. shown'.items[i] = back[c].item BY <2>3, <2>5, <3>2
    <3> HIDE DEF c, i
    <3>4. c \in DOMAIN entries /\ entries[c].id = i /\ back[c].item = entries[c].item
      BY <2>4, <3>1
    <3>5. entries[c] \in Range(entries) /\ entries[l] \in Range(entries) BY <3>4 DEF Range
    <3>6. entries[c].item = entries[l].item BY <1>7, <3>4, <3>5 DEF OneItemEach, i
    <3> QED BY <3>3, <3>4, <3>6 DEF i
  <2> QED BY <1>12, <2>3, <2>5 DEF back
<1>17. ASSUME NEW i \in Id, shown'.items[i] # shown.items[i] PROVE writer[i] \in {u, None}
  <2>1. i \in named BY <1>16, <1>17
  <2> QED BY <1>4, <1>6, <1>7, <2>1
<1>18. /\ Stacks(history', writer') /\ Len(history') <= MaxActions
       /\ UndoneLast(history') /\ TakesItsTurn(u)
       /\ \A j \in DOMAIN history : history'[j].undone # history[j].undone => PutsBack(j)
  <2> DEFINE empty == {}
             no    == FALSE
             seen  == Observe(history, u, named, no)
             w     == [i \in Id |-> IF i \in named THEN u ELSE writer[i]]
             back  == Reversed(seen, k, redo, now)
  <2>1. StacksBut(history, writer, u, empty) BY <1>3 DEF Stacks
  <2>2. empty \subseteq named /\ no \in BOOLEAN OBVIOUS
  <2>3. history' = Recent(back) /\ writer' = w BY <1>1 DEF WrittenBy
  <2>4. seen[k] = history[k]
    <3>1. k \in DOMAIN history BY <1>3, <1>4, SequenceHas
    <3> QED BY <1>4, <3>1 DEF Observe
  <2> HIDE DEF named, no, empty
  <2>5. Stacks(seen, w) /\ SameUndone(seen, history) BY <2>1, <2>2, ObserveStacks
  <2>6. Sequence(now) /\ IdsOf(now) = IdsOf(seen[k].before) /\ OneItemEach(now)
    BY <1>8, <2>4, SnapshotsSequence
  <2> HIDE DEF seen, w, now
  <2>7. Len(seen) = Len(history) BY <2>5 DEF SameUndone
  <2>8. /\ Stacks(back, w) /\ Len(back) = Len(seen)
        /\ back[k].before = seen[k].before /\ (~redo => back[k].after = now)
        /\ \A j \in 1..Len(seen) : /\ back[j].owner = seen[j].owner
                                   /\ back[j].undone = IF j = k THEN ~redo ELSE seen[j].undone
    BY <1>4, <2>5, <2>6, <2>7, ReversedStacks
  <2> HIDE DEF back
  <2>9. Sequence(back) BY <2>8, StacksBoth
  <2>10. history' = back
    <3>1. Len(back) <= MaxActions BY <2>7, <2>8 DEF EditsInv
    <3>2. Len(back) \in Nat BY <2>9, SequenceHas
    <3> QED BY <2>3, <3>1, <3>2, HistoryAssumption DEF Recent
  <2>11. \A j \in 1..Len(history) :
           /\ back[j].owner = history[j].owner
           /\ back[j].undone = IF j = k THEN ~redo ELSE history[j].undone
    BY <2>5, <2>7, <2>8 DEF SameUndone
  <2>12. \A j \in 1..Len(history) : history[j].undone \in BOOLEAN
    <3>1. ASSUME NEW j \in 1..Len(history) PROVE history[j].undone \in BOOLEAN
      <4>1. history[j] \in Range(history) BY <1>3, SequenceHas
      <4>2. IsAction(history[j]) BY <1>3, <4>1, StacksBoth
      <4> QED BY <4>2 DEF IsAction
    <3> QED BY <3>1
  <2>13. UndoneLast(back) /\ Peek(back, u, ~redo) = k
    <3>1. k = Peek(history, u, redo) /\ k # 0 BY <1>1 DEF k
    <3>2. UndoneLast(history) BY DEF EditsInv
    <3> QED BY <1>3, <2>7, <2>8, <2>9, <2>11, <2>12, <3>1, <3>2, ReversedOrder
  <2>14. TakesItsTurn(u)
    <3>1. history[k].undone = redo BY <1>1, <1>3, PeekIs DEF k
    <3>2. DOMAIN history = 1..Len(history) /\ DOMAIN back = 1..Len(history)
      BY <1>3, <2>7, <2>8, <2>9, SequenceHas
    <3>3. back[k].undone = ~redo BY <1>4, <2>11
    <3> QED BY <1>4, <2>10, <2>11, <2>13, <3>1, <3>2, <3>3 DEF TakesItsTurn
  <2>15. PutsBack(k)
    <3>1. history'[k].before = history[k].before /\ history'[k].undone = ~redo
      BY <1>4, <2>4, <2>8, <2>10, <2>11
    <3>2. ~redo => IdsOf(history'[k].after) = IdsOf(history[k].before)
      BY <2>4, <2>6, <2>8, <2>10
    <3> QED BY <1>7, <1>16, <3>1, <3>2 DEF PutsBack, named
  <2>16. ASSUME NEW j \in DOMAIN history, history'[j].undone # history[j].undone
         PROVE  PutsBack(j)
    <3>1. j \in 1..Len(history) BY <1>3, SequenceHas
    <3>2. j = k BY <2>10, <2>11, <2>16, <3>1
    <3> QED BY <2>15, <3>2
  <2> QED BY <2>3, <2>7, <2>8, <2>10, <2>13, <2>14, <2>16 DEF EditsInv
<1>19. JobOK' BY <1>1, <1>14, JobKeeps DEF EditsInv
<1>20. DiskOK'
  <2>1. disk.seq \in 0..Len(log) /\ Sequence(disk.file) BY DEF EditsInv, DiskOK
  <2>2. disk' = disk BY <1>1
  <2>3. disk.seq \in 0..Len(log') BY <1>14, <2>1
  <2> QED BY <2>1, <2>2, <2>3 DEF DiskOK
<1>21. IsBoard(board') BY <1>1, <1>10
<1> QED BY <1>13, <1>15, <1>17, <1>18, <1>19, <1>20, <1>21 DEF EditsInv

LEMMA GiveUpKeeps ==
  ASSUME EditsInv, NEW u, NEW redo \in BOOLEAN, GiveUp(u, redo)
  PROVE  EditsInv' /\ ~Reverses
<1> DEFINE k == Peek(history, u, redo)
<1>1. /\ k # 0 /\ history' = RemoveAt(history, k)
      /\ UNCHANGED <<board, log, disk, persistedSeq, job, writer, screens>>
  BY DEF GiveUp
<1>2. Stacks(history, writer) /\ Sequence(history) /\ Len(history) \in Nat
  BY StacksBoth, SequenceHas DEF EditsInv
<1>3. k \in 1..Len(history) BY <1>1, <1>2, PeekIs
<1> HIDE DEF k
<1>4. Stacks(history', writer) /\ Len(history') <= Len(history)
  BY <1>1, <1>2, <1>3, RemoveAtStacks
<1>5. UndoneLast(history') BY <1>1, <1>2, <1>3, RemoveAtOrder DEF EditsInv
<1>6. Len(history') \in Nat BY <1>4, StacksBoth, SequenceHas
<1>7. Len(history') <= MaxActions BY <1>2, <1>4, <1>6, HistoryAssumption DEF EditsInv
<1>8. LogOK' /\ DiskOK' /\ JobOK' BY <1>1 DEF EditsInv, LogOK, DiskOK, JobOK
<1>9. ~Reverses BY <1>1, NothingReversed DEF EditsInv
<1> QED BY <1>1, <1>4, <1>5, <1>7, <1>8, <1>9 DEF EditsInv

LEMMA SavingKeeps ==
  ASSUME EditsInv, StartSave \/ FinishSave \/ SaveFails
  PROVE  EditsInv' /\ ~Reverses
<1>1. UNCHANGED <<history, log, writer, screens>> BY DEF StartSave, FinishSave, SaveFails
<1>2. /\ LogOK' /\ Stacks(history', writer') /\ Len(history') <= MaxActions
      /\ UndoneLast(history')
  BY <1>1 DEF EditsInv, LogOK
<1>3. ~Reverses BY <1>1, NothingReversed DEF EditsInv
<1>4. Len(log) \in Nat BY SequenceHas DEF EditsInv, LogOK
<1>5. CASE StartSave
  <2>1. /\ board' = Clean(board) /\ disk' = disk
        /\ job' = [running |-> TRUE, b |-> Clean(board), seq |-> Len(log), changed |-> {}]
    BY <1>5 DEF StartSave
  <2>2. IsBoard(Clean(board)) BY CleanBoard DEF EditsInv
  <2>3. /\ DOMAIN job' = {"running", "b", "seq", "changed"}
        /\ job'.b = Clean(board) /\ job'.seq = Len(log)
    BY <2>1
  <2>4. JobOK' BY <1>1, <1>4, <2>2, <2>3 DEF JobOK
  <2>5. DiskOK' BY <1>1, <2>1 DEF EditsInv, DiskOK
  <2> QED BY <1>2, <1>3, <2>1, <2>2, <2>4, <2>5 DEF EditsInv
<1>6. CASE FinishSave
  <2> DEFINE file   == WriteFile(job.b, disk.file)
             ids    == {file[k].id : k \in DOMAIN file}
             noFile == job.b.stored = {} /\ file = <<>>
             number == IF noFile THEN 0 ELSE SeqSaved
  <2>1. /\ job.running /\ disk' = [seq |-> number, file |-> file]
        /\ board' = Finalize(board, job.b, ids, job.changed) /\ job' = NoJob
    BY <1>6 DEF FinishSave
  <2>2. IsBoard(job.b) /\ job.seq \in 0..Len(log) /\ Sequence(disk.file)
    BY <2>1 DEF EditsInv, JobOK, DiskOK
  <2>3. Sequence(file) BY <2>2, WriteFileSequence
  <2> HIDE DEF file, ids, noFile
  <2>4. number \in 0..Len(log) BY <1>4, <2>2 DEF SeqSaved
  <2> HIDE DEF number
  <2>5. DiskOK' BY <1>1, <2>1, <2>3, <2>4 DEF DiskOK
  <2>6. IsBoard(board') BY <2>1, FinalizeBoard DEF EditsInv
  <2>7. JobOK' BY <2>1 DEF JobOK, NoJob
  <2> QED BY <1>2, <1>3, <2>5, <2>6, <2>7 DEF EditsInv
<1>7. CASE SaveFails
  <2>1. job' = NoJob /\ board' = board /\ disk' = disk BY <1>7 DEF SaveFails
  <2>2. JobOK' /\ DiskOK' BY <1>1, <2>1 DEF EditsInv, JobOK, NoJob, DiskOK
  <2> QED BY <1>2, <1>3, <2>1, <2>2 DEF EditsInv
<1> QED BY <1>5, <1>6, <1>7

LEMMA RestartKeeps ==
  ASSUME EditsInv, Restart
  PROVE  EditsInv' /\ ~Reverses
<1> DEFINE none == <<>>
<1>1. /\ Recovered.ok /\ board' = Recovered.b /\ history' = none /\ job' = NoJob
      /\ UNCHANGED <<log, disk, writer, screens>>
  BY DEF Restart
<1>2. Sequence(none) /\ Range(none) = {} /\ Len(none) = 0 BY EmptySequence
<1> HIDE DEF none
<1>3. IsBoard(board') BY <1>1, RecoveredBoard DEF EditsInv
<1>4. Stacks(history', writer') BY <1>1, <1>2, StacksBoth
<1>5. Len(history') <= MaxActions BY <1>1, <1>2, HistoryAssumption
<1>6. LogOK' /\ DiskOK' /\ JobOK' BY <1>1 DEF EditsInv, LogOK, DiskOK, JobOK, NoJob
<1>7. ~Reverses BY <1>1, NothingReversed DEF EditsInv
<1>8. UndoneLast(history') BY <1>1, <1>2 DEF UndoneLast
<1> QED BY <1>3, <1>4, <1>5, <1>6, <1>7, <1>8 DEF EditsInv

-----------------------------------------------------------------------------
(* The theorems *)

\* An undo is what the user can redo next, a redo what the user can undo next,
\* and either leaves the owner of every action and the state of every other one:
\* the two stacks of a user are the two ends of one line (EditHistory.peek).
ReversalsTakeTurns == [][Reverses => TakesItsTurn(Last(log').by)]_vars

\* The screens show what the action reversed has kept, of all its items, and
\* what an undo takes away is kept for the redo (reverseEdit): the half of
\* UndoIsUndoneByRedo that says nothing of what was shown before.
ReversalsPutBack ==
  [][\A k \in DOMAIN history :
       Reverses /\ history'[k].undone # history[k].undone => PutsBack(k)]_vars

\* What an undo or a redo keeps.
ReversesFairly ==
  Reverses =>
    /\ \A i \in Id : shown'.items[i] # shown.items[i] => writer[i] \in {Last(log').by, None}
    /\ TakesItsTurn(Last(log').by)
    /\ \A k \in DOMAIN history : history'[k].undone # history[k].undone => PutsBack(k)

LEMMA NextKeeps ==
  ASSUME EditsInv, [Next]_vars
  PROVE  EditsInv' /\ ReversesFairly
<1>1. CASE Create \/ AddPoint \/ SetText \/ Move \/ Copy \/ Delete \/ Clear
  BY <1>1, WriteKeeps DEF ReversesFairly
<1>2. CASE RefuseBatch BY <1>2, RefuseKeeps DEF ReversesFairly
<1>3. CASE DropSeed BY <1>3, DropKeeps DEF ReversesFairly
<1>4. ASSUME NEW u \in User, NEW redo \in BOOLEAN, ReverseEdit(u, redo)
      PROVE  EditsInv' /\ ReversesFairly
  <2>1. /\ EditsInv' /\ Last(log').by = u /\ TakesItsTurn(u)
        /\ \A i \in Id : shown'.items[i] # shown.items[i] => writer[i] \in {u, None}
        /\ \A k \in DOMAIN history : history'[k].undone # history[k].undone => PutsBack(k)
    BY <1>4, ReverseKeeps
  <2>2. TakesItsTurn(Last(log').by) BY <2>1
  <2> QED BY <2>1, <2>2 DEF ReversesFairly
<1>5. ASSUME NEW u \in User, Undo(u) \/ Redo(u) PROVE EditsInv' /\ ReversesFairly
  BY <1>4, <1>5 DEF Undo, Redo
<1>6. ASSUME NEW u \in User, GiveUp(u, FALSE) \/ GiveUp(u, TRUE)
      PROVE  EditsInv' /\ ReversesFairly
  BY <1>6, GiveUpKeeps DEF ReversesFairly
<1>7. CASE StartSave \/ FinishSave \/ SaveFails BY <1>7, SavingKeeps DEF ReversesFairly
<1>8. CASE Restart BY <1>8, RestartKeeps DEF ReversesFairly
<1>9. CASE UNCHANGED vars
  <2>1. UNCHANGED <<board, history, log, disk, persistedSeq, job, writer, screens>>
    BY <1>9 DEF vars
  <2>2. ~Reverses BY <2>1, NothingReversed DEF EditsInv
  <2>3. EditsInv' BY <2>1 DEF EditsInv, LogOK, DiskOK, JobOK
  <2> QED BY <2>2, <2>3 DEF ReversesFairly
<1> QED
  BY <1>1, <1>2, <1>3, <1>4, <1>5, <1>6, <1>7, <1>8, <1>9 DEF Next, Write, Reversal

\* Whatever is edited, refused, dropped, evicted, undone, redone, saved or
\* restarted, a valid action names no item that somebody other than its owner
\* has changed last (EditHistory.observe against every recorded mutation), and
\* what a user has undone is after what the user can undo (EditHistory.peek).
THEOREM ActionsStayTheirOwners == Spec => []EditsInv
<1>1. Init => EditsInv BY InitEdits
<1>2. EditsInv /\ [Next]_vars => EditsInv' BY NextKeeps
<1> QED BY <1>1, <1>2, PTL DEF Spec

\* An undo or a redo changes no item that somebody else has changed since
\* (reverseEdit and its undo_conflict), for any users, items and bounds.
THEOREM OthersEditsStay == Spec => ReversalsKeepOthersEdits
<1>1. EditsInv /\ [Next]_vars =>
        [Reverses => \A i \in Id : shown'.items[i] # shown.items[i] =>
                                     writer[i] \in {Last(log').by, None}]_vars
  BY NextKeeps DEF ReversesFairly
<1> QED BY <1>1, ActionsStayTheirOwners, PTL DEF Spec, ReversalsKeepOthersEdits

\* Undo and redo alternate: what one reverses is what the other reverses next,
\* for any users, items and bounds (EditHistory.peek, reverseEdit).
THEOREM ReversalsAlternate == Spec => ReversalsTakeTurns
<1>1. EditsInv /\ [Next]_vars => [Reverses => TakesItsTurn(Last(log').by)]_vars
  BY NextKeeps DEF ReversesFairly
<1> QED BY <1>1, ActionsStayTheirOwners, PTL DEF Spec, ReversalsTakeTurns

\* An undo and a redo put back all items of the gesture, as the history has
\* them, for any users, items and bounds (EditHistory.materialize, reverseEdit).
THEOREM GesturesAreReversedWhole == Spec => ReversalsPutBack
<1>1. EditsInv /\ [Next]_vars =>
        [\A k \in DOMAIN history :
           Reverses /\ history'[k].undone # history[k].undone => PutsBack(k)]_vars
  BY NextKeeps DEF ReversesFairly
<1> QED BY <1>1, ActionsStayTheirOwners, PTL DEF Spec, ReversalsPutBack
=============================================================================
