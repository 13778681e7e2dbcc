--------------------------- MODULE SequenceLemmas ---------------------------
(* Facts about finite sequences and their prefixes, cited by the proofs. *)
EXTENDS SequenceParts, SequencesExt, SequenceTheorems, WellFoundedInduction, TLAPS

\* A function whose domain is an initial segment is a sequence.
LEMMA FunctionIsSeq ==
  ASSUME NEW S, NEW n \in Nat, NEW f \in [1..n -> S]
  PROVE  f \in Seq(S) /\ Len(f) = n
<1>1. f \in Seq(S) BY SeqDef
<1>2. Len(f) = n BY <1>1, LenProperties
<1> QED BY <1>1, <1>2

\* SubSeqProperties, for a piece of a sequence.
LEMMA SubSeqType ==
  ASSUME NEW S, NEW s \in Seq(S), NEW m \in Nat \ {0}, NEW n \in 0..Len(s)
  PROVE  /\ SubSeq(s, m, n) \in Seq(S)
         /\ Len(SubSeq(s, m, n)) = IF m <= n THEN n - m + 1 ELSE 0
         /\ \A k \in 1..n - m + 1 : SubSeq(s, m, n)[k] = s[m + k - 1]
<1>1. Len(s) \in Nat BY LenProperties
<1>2. \A k \in m..n : s[k] \in S BY <1>1, ElementOfSeq
<1> QED BY <1>1, <1>2, SubSeqProperties

\* The first n elements of a sequence.
LEMMA InitialPart ==
  ASSUME NEW S, NEW s \in Seq(S), NEW n \in 0..Len(s)
  PROVE  /\ SubSeq(s, 1, n) \in Seq(S)
         /\ Len(SubSeq(s, 1, n)) = n
         /\ \A k \in 1..n : SubSeq(s, 1, n)[k] = s[k]
<1>1. Len(s) \in Nat BY LenProperties
<1> QED BY <1>1, SubSeqType

\* Prefixes, element by element.
LEMMA PrefixByElements ==
  ASSUME NEW S, NEW s \in Seq(S), NEW t \in Seq(S)
  PROVE  IsPrefix(s, t) <=> Len(s) <= Len(t) /\ \A k \in 1..Len(s) : s[k] = t[k]
<1>1. Len(s) \in Nat /\ Len(t) \in Nat BY LenProperties
<1>2. CASE Len(s) <= Len(t)
  <2>1. Len(s) \in 0..Len(t) /\ Len(s) \in 0..Len(s) BY <1>1, <1>2
  <2>2. SubSeq(s, 1, Len(s)) = s BY SubSeqFull
  <2>3. /\ SubSeq(t, 1, Len(s)) \in Seq(S) /\ Len(SubSeq(t, 1, Len(s))) = Len(s)
        /\ \A k \in 1..Len(s) : SubSeq(t, 1, Len(s))[k] = t[k]
    BY <2>1, InitialPart
  <2>4. IsPrefix(s, t) <=> s = SubSeq(t, 1, Len(s)) BY <1>2, <2>2 DEF IsPrefix
  <2>5. s = SubSeq(t, 1, Len(s)) <=> \A k \in 1..Len(s) : s[k] = t[k]
    BY <2>3, SeqEqual
  <2> QED BY <1>2, <2>4, <2>5
<1>3. CASE ~(Len(s) <= Len(t)) BY <1>3 DEF IsPrefix
<1> QED BY <1>2, <1>3

LEMMA PrefixReflexive == ASSUME NEW S, NEW s \in Seq(S) PROVE IsPrefix(s, s)
  BY LenProperties, PrefixByElements

LEMMA EmptyIsPrefix == ASSUME NEW S, NEW s \in Seq(S) PROVE IsPrefix(<< >>, s)
<1>1. << >> \in Seq(S) /\ Len(<< >>) = 0 BY EmptySeq
<1>2. Len(s) \in Nat BY LenProperties
<1>3. Len(<< >>) <= Len(s) /\ \A k \in 1..Len(<< >>) : << >>[k] = s[k] BY <1>1, <1>2
<1> QED BY <1>1, <1>3, PrefixByElements

LEMMA PrefixTransitive ==
  ASSUME NEW S, NEW s \in Seq(S), NEW t \in Seq(S), NEW u \in Seq(S),
         IsPrefix(s, t), IsPrefix(t, u)
  PROVE  IsPrefix(s, u)
<1>1. Len(s) \in Nat /\ Len(t) \in Nat /\ Len(u) \in Nat BY LenProperties
<1>2. Len(s) <= Len(t) /\ \A k \in 1..Len(s) : s[k] = t[k] BY PrefixByElements
<1>3. Len(t) <= Len(u) /\ \A k \in 1..Len(t) : t[k] = u[k] BY PrefixByElements
<1>4. Len(s) <= Len(u) /\ \A k \in 1..Len(s) : s[k] = u[k] BY <1>1, <1>2, <1>3
<1> QED BY <1>4, PrefixByElements

LEMMA PrefixAntisymmetric ==
  ASSUME NEW S, NEW s \in Seq(S), NEW t \in Seq(S), IsPrefix(s, t), IsPrefix(t, s)
  PROVE  s = t
<1>1. Len(s) \in Nat /\ Len(t) \in Nat BY LenProperties
<1>2. Len(s) <= Len(t) /\ Len(t) <= Len(s) /\ \A k \in 1..Len(s) : s[k] = t[k]
  BY PrefixByElements
<1>3. Len(s) = Len(t) BY <1>1, <1>2
<1> QED BY <1>2, <1>3, SeqEqual

LEMMA PrefixOfAppend ==
  ASSUME NEW S, NEW s \in Seq(S), NEW t \in Seq(S), NEW x \in S, IsPrefix(s, t)
  PROVE  IsPrefix(s, Append(t, x))
<1>1. Len(s) \in Nat /\ Len(t) \in Nat BY LenProperties
<1>2. Len(s) <= Len(t) /\ \A k \in 1..Len(s) : s[k] = t[k] BY PrefixByElements
<1>3. /\ Append(t, x) \in Seq(S) /\ Len(Append(t, x)) = Len(t) + 1
      /\ \A k \in 1..Len(t) : Append(t, x)[k] = t[k] BY AppendProperties
<1>4. Len(s) <= Len(Append(t, x)) /\ \A k \in 1..Len(s) : s[k] = Append(t, x)[k]
  BY <1>1, <1>2, <1>3
<1> QED BY <1>3, <1>4, PrefixByElements

LEMMA InitialPartIsPrefix ==
  ASSUME NEW S, NEW s \in Seq(S), NEW n \in 0..Len(s)
  PROVE  IsPrefix(SubSeq(s, 1, n), s)
<1>1. Len(s) \in Nat BY LenProperties
<1> DEFINE p == SubSeq(s, 1, n)
<1>2. p \in Seq(S) /\ Len(p) = n /\ \A k \in 1..n : p[k] = s[k] BY InitialPart
<1> HIDE DEF p
<1>3. Len(p) <= Len(s) /\ \A k \in 1..Len(p) : p[k] = s[k] BY <1>1, <1>2
<1>4. IsPrefix(p, s) BY <1>2, <1>3, PrefixByElements
<1> QED BY <1>4 DEF p

\* Two prefixes of one sequence are prefixes one of the other.
LEMMA PrefixesCompare ==
  ASSUME NEW S, NEW s \in Seq(S), NEW t \in Seq(S), NEW u \in Seq(S),
         IsPrefix(s, u), IsPrefix(t, u)
  PROVE  IsPrefix(s, t) \/ IsPrefix(t, s)
<1>1. Len(s) \in Nat /\ Len(t) \in Nat /\ Len(u) \in Nat BY LenProperties
<1>2. Len(s) <= Len(u) /\ \A k \in 1..Len(s) : s[k] = u[k] BY PrefixByElements
<1>3. Len(t) <= Len(u) /\ \A k \in 1..Len(t) : t[k] = u[k] BY PrefixByElements
<1>4. CASE Len(s) <= Len(t)
  <2>1. \A k \in 1..Len(s) : s[k] = t[k] BY <1>1, <1>2, <1>3, <1>4
  <2> QED BY <1>4, <2>1, PrefixByElements
<1>5. CASE Len(t) <= Len(s)
  <2>1. \A k \in 1..Len(t) : t[k] = s[k] BY <1>1, <1>2, <1>3, <1>5
  <2> QED BY <1>5, <2>1, PrefixByElements
<1> QED BY <1>1, <1>4, <1>5

LEMMA PrefixToSet ==
  ASSUME NEW S, NEW s \in Seq(S), NEW t \in Seq(S), IsPrefix(s, t)
  PROVE  ToSet(s) \subseteq ToSet(t)
<1>1. /\ Len(s) \in Nat /\ Len(t) \in Nat
      /\ DOMAIN s = 1..Len(s) /\ DOMAIN t = 1..Len(t) BY LenProperties
<1>2. Len(s) <= Len(t) /\ \A k \in 1..Len(s) : s[k] = t[k] BY PrefixByElements
<1> QED BY <1>1, <1>2 DEF ToSet

\* A prefix and the rest make the sequence.
LEMMA PrefixAndRest ==
  ASSUME NEW S, NEW s \in Seq(S), NEW t \in Seq(S), IsPrefix(s, t)
  PROVE  s \o SubSeq(t, Len(s) + 1, Len(t)) = t
<1>1. Len(s) \in Nat /\ Len(t) \in Nat BY LenProperties
<1>2. Len(s) <= Len(t) /\ \A k \in 1..Len(s) : s[k] = t[k] BY PrefixByElements
<1> DEFINE u == SubSeq(t, Len(s) + 1, Len(t))
<1>3. u \in Seq(S) /\ Len(u) = Len(t) - Len(s) /\ \A k \in 1..Len(t) - Len(s) : u[k] = t[Len(s) + k]
  <2>1. Len(t) \in 0..Len(t) /\ Len(s) + 1 \in Nat \ {0} BY <1>1
  <2>2. /\ u \in Seq(S)
        /\ Len(u) = IF Len(s) + 1 <= Len(t) THEN Len(t) - (Len(s) + 1) + 1 ELSE 0
        /\ \A k \in 1..Len(t) - (Len(s) + 1) + 1 : u[k] = t[(Len(s) + 1) + k - 1]
    BY <2>1, SubSeqType
  <2> QED BY <1>1, <1>2, <2>2
<1> HIDE DEF u
<1>4. s \o u \in Seq(S) /\ Len(s \o u) = Len(t) BY <1>1, <1>3, ConcatProperties
<1>5. ASSUME NEW k \in 1..Len(t) PROVE (s \o u)[k] = t[k]
  <2>1. (s \o u)[k] = IF k <= Len(s) THEN s[k] ELSE u[k - Len(s)] BY <1>1, <1>3, ConcatProperties
  <2>2. CASE k <= Len(s) BY <1>1, <1>2, <2>1, <2>2
  <2>3. CASE k > Len(s)
    <3>1. k - Len(s) \in 1..Len(t) - Len(s) /\ Len(s) + (k - Len(s)) = k BY <1>1, <2>3
    <3> QED BY <1>1, <1>3, <2>1, <2>3, <3>1
  <2>4. k <= Len(s) \/ k > Len(s) BY <1>1
  <2> QED BY <2>2, <2>3, <2>4
<1>6. s \o u = t BY <1>4, <1>5, SeqEqual
<1> QED BY <1>6 DEF u

-----------------------------------------------------------------------------
(* Recursion, and the elements of a sequence *)

\* A set of numbers has a least one; this takes the place of induction.
LEMMA Least ==
  ASSUME NEW T \in SUBSET Nat, T # {}
  PROVE  \E n \in T : \A m \in T : n <= m
<1> DEFINE R == OpToRel(<, Nat)
<1>1. IsWellFoundedOn(R, Nat) BY NatLessThanWellFounded
<1>2. \A a, b \in Nat : a < b => <<a, b>> \in R BY DEF OpToRel
<1> HIDE DEF R
<1>3. PICK n \in T : \A m \in T : <<m, n>> \notin R BY <1>1, WFMin
<1>4. ASSUME NEW m \in T PROVE n <= m
  <2>1. n \in Nat /\ m \in Nat /\ ~(m < n) BY <1>2, <1>3
  <2> QED BY <2>1
<1> QED BY <1>4

\* What holds of 0, and of each number if of the one before, holds up to n.
LEMMA HoldsUpTo ==
  ASSUME NEW n \in Nat, NEW T, 0 \in T, \A k \in 1..n : k - 1 \in T => k \in T
  PROVE  0..n \subseteq T
<1> DEFINE U == {m \in 0..n : m \notin T}
<1> SUFFICES ASSUME U # {} PROVE FALSE OBVIOUS
<1>1. PICK m \in U : \A k \in U : m <= k
  <2>1. U \subseteq Nat OBVIOUS
  <2> HIDE DEF U
  <2> QED BY <2>1, Least
<1>2. m # 0 /\ m \in 1..n /\ m - 1 \in 0..n BY <1>1
<1>3. m - 1 \notin U
  <2>1. m - 1 \in U => m <= m - 1 BY <1>1, Zenon
  <2> QED BY <1>2, <2>1
<1> QED BY <1>1, <1>2, <1>3

\* A function that begins with x and goes on by the given steps.
Goes(f, V, x, n, step) ==
  f \in [0..n -> V] /\ f[0] = x /\ \A k \in 1..n : f[k] = step[<<f[k - 1], k>>]

LEMMA StepByStep ==
  ASSUME NEW V, NEW x \in V, NEW n \in Nat, NEW step \in [V \X (1..n) -> V]
  PROVE  \E f : Goes(f, V, x, n, step)
<1> DEFINE T == {m \in Nat : \E f : Goes(f, V, x, m, step)}
<1>1. 0 \in T
  <2> DEFINE f == [k \in 0..0 |-> x]
  <2>1. Goes(f, V, x, 0, step) BY DEF Goes
  <2> QED BY <2>1
<1>2. ASSUME NEW m \in 1..n, m - 1 \in T PROVE m \in T
  <2>1. PICK f : Goes(f, V, x, m - 1, step) BY <1>2
  <2> DEFINE last == step[<<f[m - 1], m>>]
             g    == [k \in 0..m |-> IF k = m THEN last ELSE f[k]]
  <2>2. f \in [0..(m - 1) -> V] /\ m - 1 \in Nat BY <2>1 DEF Goes
  <2>3. last \in V
    <3>1. f[m - 1] \in V BY <2>2
    <3> QED BY <3>1
  <2>4. g \in [0..m -> V]
    <3>1. \A k \in 0..m : k # m => k \in 0..(m - 1) BY <2>2
    <3> HIDE DEF last
    <3> QED BY <2>2, <2>3, <3>1
  <2>5. f[0] = x /\ \A k \in 1..(m - 1) : f[k] = step[<<f[k - 1], k>>] BY <2>1 DEF Goes
  <2>6. \A k \in 0..m : g[k] = IF k = m THEN last ELSE f[k] OBVIOUS
  <2> HIDE DEF g
  <2>7. g[0] = x BY <2>2, <2>5, <2>6
  <2>8. ASSUME NEW k \in 1..m PROVE g[k] = step[<<g[k - 1], k>>]
    <3>1. g[k - 1] = f[k - 1] BY <2>2, <2>6, <2>8
    <3>2. CASE k = m BY <2>6, <3>1, <3>2
    <3>3. CASE k # m
      <4>1. k \in 1..(m - 1) /\ g[k] = f[k] BY <2>2, <2>6, <2>8, <3>3
      <4> QED BY <2>5, <3>1, <4>1
    <3> QED BY <3>2, <3>3
  <2>9. Goes(g, V, x, m, step) BY <2>4, <2>7, <2>8 DEF Goes
  <2> QED BY <2>9
<1> HIDE DEF T
<1>3. 0..n \subseteq T BY <1>1, <1>2, HoldsUpTo
<1>4. n \in T BY <1>3
<1> QED BY <1>4 DEF T

\* The function that Only goes along s with.
OnlyFunction(f, s, S, n) ==
  f = [k \in 0..n |->
         IF k = 0 THEN <<>> ELSE IF s[k] \in S THEN Append(f[k - 1], s[k]) ELSE f[k - 1]]

LEMMA OnlyExists == ASSUME NEW s, NEW S, NEW n \in Nat PROVE \E f : OnlyFunction(f, s, S, n)
<1> DEFINE T == {m \in Nat : ~ \E f : OnlyFunction(f, s, S, m)}
<1> SUFFICES ASSUME T # {} PROVE FALSE OBVIOUS
<1>1. PICK m \in T : \A k \in T : m <= k
  <2>1. T \subseteq Nat OBVIOUS
  <2> HIDE DEF T
  <2> QED BY <2>1, Least
<1>2. CASE m = 0
  <2> DEFINE f == [k \in 0..0 |-> <<>>]
  <2>1. OnlyFunction(f, s, S, 0) BY DEF OnlyFunction
  <2> QED BY <1>2, <2>1
<1>3. CASE m # 0
  <2>1. m - 1 \in Nat /\ m - 1 \notin T BY <1>1, <1>3
  <2>2. PICK f : OnlyFunction(f, s, S, m - 1) BY <2>1
  <2> DEFINE last == IF s[m] \in S THEN Append(f[m - 1], s[m]) ELSE f[m - 1]
             g    == [k \in 0..m |-> IF k = m THEN last ELSE f[k]]
  <2>3. \A k \in 0..(m - 1) :
          f[k] = IF k = 0 THEN <<>> ELSE IF s[k] \in S THEN Append(f[k - 1], s[k]) ELSE f[k - 1]
    BY <2>2 DEF OnlyFunction
  <2>4. \A k \in 0..m :
          g[k] = IF k = 0 THEN <<>> ELSE IF s[k] \in S THEN Append(g[k - 1], s[k]) ELSE g[k - 1]
    BY <1>3, <2>1, <2>3
  <2>5. OnlyFunction(g, s, S, m) BY <2>4 DEF OnlyFunction
  <2> QED BY <2>5
<1> QED BY <1>2, <1>3

LEMMA OnlySteps ==
  ASSUME NEW s, NEW S, Len(s) \in Nat
  PROVE  \E f : /\ f[0] = <<>> /\ Only(s, S) = f[Len(s)]
                /\ \A k \in 1..Len(s) :
                     f[k] = IF s[k] \in S THEN Append(f[k - 1], s[k]) ELSE f[k - 1]
<1> DEFINE f == CHOOSE f : OnlyFunction(f, s, S, Len(s))
<1>1. OnlyFunction(f, s, S, Len(s)) BY OnlyExists
<1>2. Only(s, S) = f[Len(s)] BY DEF Only, OnlyFunction
<1> HIDE DEF f
<1>3. f[0] = <<>>
  <2>1. 0 \in 0..Len(s) OBVIOUS
  <2> QED BY <1>1, <2>1 DEF OnlyFunction
<1>4. ASSUME NEW k \in 1..Len(s)
      PROVE  f[k] = IF s[k] \in S THEN Append(f[k - 1], s[k]) ELSE f[k - 1]
  <2>1. k \in 0..Len(s) /\ k # 0 OBVIOUS
  <2>2. \A m \in 0..Len(s) :
          f[m] = IF m = 0 THEN <<>> ELSE IF s[m] \in S THEN Append(f[m - 1], s[m]) ELSE f[m - 1]
    BY <1>1, Zenon DEF OnlyFunction
  <2> QED BY <2>1, <2>2, Zenon
<1> QED BY <1>2, <1>3, <1>4

LEMMA RangeOfConcat ==
  ASSUME NEW S, NEW d \in Seq(S), NEW ms \in Seq(S)
  PROVE  /\ d \o ms \in Seq(S) /\ Range(d \o ms) = Range(d) \union Range(ms)
         /\ d # <<>> => /\ d \o ms # <<>> /\ Head(d \o ms) = Head(d)
                        /\ Range(Tail(d \o ms)) = Range(Tail(d)) \union Range(ms)
<1> DEFINE q == d \o ms
<1>1. Len(d) \in Nat /\ DOMAIN d = 1..Len(d) /\ Len(ms) \in Nat /\ DOMAIN ms = 1..Len(ms)
  BY LenProperties
<1>2. /\ q \in Seq(S) /\ Len(q) = Len(d) + Len(ms)
      /\ \A k \in 1..Len(d) + Len(ms) : q[k] = IF k <= Len(d) THEN d[k] ELSE ms[k - Len(d)]
  BY ConcatProperties
<1> HIDE DEF q
<1>3. DOMAIN q = 1..Len(d) + Len(ms) BY <1>2, LenProperties
<1>4. \A k \in DOMAIN d : k \in DOMAIN q /\ q[k] = d[k] BY <1>1, <1>2, <1>3
<1>5. \A k \in DOMAIN ms : k + Len(d) \in DOMAIN q /\ q[k + Len(d)] = ms[k] BY <1>1, <1>2, <1>3
<1>6. \A k \in DOMAIN q : \/ k \in DOMAIN d
                          \/ k - Len(d) \in DOMAIN ms /\ q[k] = ms[k - Len(d)]
  BY <1>1, <1>2, <1>3
<1>7. Range(q) = Range(d) \union Range(ms)
  <2>1. Range(d) \subseteq Range(q) BY <1>4 DEF Range
  <2>2. Range(ms) \subseteq Range(q) BY <1>5 DEF Range
  <2>3. Range(q) \subseteq Range(d) \union Range(ms) BY <1>4, <1>6 DEF Range
  <2> QED BY <2>1, <2>2, <2>3
<1>8. ASSUME d # <<>>
      PROVE  /\ q # <<>> /\ Head(q) = Head(d)
             /\ Range(Tail(q)) = Range(Tail(d)) \union Range(ms)
  <2>1. Len(d) # 0 BY <1>8, EmptySeq
  <2>2. Len(q) # 0 /\ q # <<>> BY <1>1, <1>2, <2>1
  <2>3. Head(q) = Head(d) BY <1>1, <1>4, <2>1
  <2>4. /\ Tail(d) \in Seq(S) /\ Len(Tail(d)) = Len(d) - 1
        /\ \A k \in 1..Len(Tail(d)) : Tail(d)[k] = d[k + 1]
    BY <1>8, HeadTailProperties
  <2>5. /\ Tail(q) \in Seq(S) /\ Len(Tail(q)) = Len(q) - 1
        /\ \A k \in 1..Len(Tail(q)) : Tail(q)[k] = q[k + 1]
    BY <1>2, <2>2, HeadTailProperties
  <2>6. DOMAIN Tail(d) = 1..Len(d) - 1 /\ DOMAIN Tail(q) = 1..Len(q) - 1
    BY <2>4, <2>5, LenProperties
  <2>7. ASSUME NEW k \in DOMAIN Tail(d) PROVE k \in DOMAIN Tail(q) /\ Tail(q)[k] = Tail(d)[k]
    BY <1>1, <1>2, <2>4, <2>5, <2>6
  <2>8. ASSUME NEW k \in DOMAIN ms
        PROVE  k + Len(d) - 1 \in DOMAIN Tail(q) /\ Tail(q)[k + Len(d) - 1] = ms[k]
    BY <1>1, <1>2, <1>5, <2>1, <2>5, <2>6
  <2>9. ASSUME NEW k \in DOMAIN Tail(q)
        PROVE  \/ k \in DOMAIN Tail(d)
               \/ k + 1 - Len(d) \in DOMAIN ms /\ Tail(q)[k] = ms[k + 1 - Len(d)]
    BY <1>1, <1>2, <2>1, <2>5, <2>6
  <2>10. Range(Tail(d)) \subseteq Range(Tail(q)) BY <2>7 DEF Range
  <2>11. Range(ms) \subseteq Range(Tail(q)) BY <2>8 DEF Range
  <2>12. Range(Tail(q)) \subseteq Range(Tail(d)) \union Range(ms) BY <2>7, <2>9 DEF Range
  <2> QED BY <2>2, <2>3, <2>10, <2>11, <2>12
<1> QED BY <1>2, <1>7, <1>8 DEF q

LEMMA RangeOfTail ==
  ASSUME NEW S, NEW d \in Seq(S), d # <<>>
  PROVE  Head(d) \in S /\ Tail(d) \in Seq(S) /\ Range(d) = {Head(d)} \union Range(Tail(d))
<1>1. /\ Head(d) \in S /\ Tail(d) \in Seq(S) /\ Len(Tail(d)) = Len(d) - 1
      /\ \A k \in 1..Len(Tail(d)) : Tail(d)[k] = d[k + 1]
  BY HeadTailProperties
<1>2. Len(d) \in Nat \ {0} /\ DOMAIN d = 1..Len(d) BY LenProperties, EmptySeq
<1>3. DOMAIN Tail(d) = 1..Len(d) - 1 BY <1>1, LenProperties
<1>4. Head(d) = d[1] OBVIOUS
<1>5. \A k \in DOMAIN Tail(d) : k + 1 \in DOMAIN d /\ Tail(d)[k] = d[k + 1] BY <1>1, <1>2, <1>3
<1>6. \A k \in DOMAIN d : k = 1 \/ (k - 1 \in DOMAIN Tail(d) /\ Tail(d)[k - 1] = d[k])
  BY <1>1, <1>2, <1>3
<1>7. 1 \in DOMAIN d BY <1>2
<1>8. Range(Tail(d)) \subseteq Range(d) BY <1>5 DEF Range
<1>9. Head(d) \in Range(d) BY <1>4, <1>7 DEF Range
<1>10. Range(d) \subseteq {Head(d)} \union Range(Tail(d)) BY <1>4, <1>6 DEF Range
<1> QED BY <1>1, <1>8, <1>9, <1>10
=============================================================================
