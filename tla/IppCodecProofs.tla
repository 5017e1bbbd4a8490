---------------------------- MODULE IppCodecProofs ----------------------------
(***************************************************************************)
(* Proofs about the fields of IppFields and the codec of IppCodec: what the  *)
(* agent writes reads back, field by field, value by value, attribute by    *)
(* attribute and group by group, up to whole requests of any length; the    *)
(* requests of the agent are among those; and the writer refuses a number   *)
(* beyond 32 bits.                                                         *)
(*                                                                         *)
(* What holds for sequences of every length is proved with the least number *)
(* for which it would fail (LeastNumber).                                   *)
(***************************************************************************)
EXTENDS IppWire, WellFoundedInduction, SequenceTheorems, FiniteSetTheorems, TLAPS

-----------------------------------------------------------------------------
(* Least and greatest numbers *)

\* A set of natural numbers has a least one: an induction is an argument about
\* the least counterexample.
LEMMA LeastNumber ==
  ASSUME NEW T, T \subseteq Nat, T # {}
  PROVE  \E x \in T : \A y \in T : x <= y
<1>1. PICK x \in T : \A y \in T : ~ (<<y, x>> \in OpToRel(<, Nat))
  BY NatLessThanWellFounded, WFMin, Zenon
<1>2. \A y \in T : ~ (y < x)
  BY <1>1 DEF OpToRel
<1> QED BY <1>2, SMT

\* Induction from 1 to n, over the numbers of which something is true.
LEMMA StepByStep ==
  ASSUME NEW n \in Nat, NEW Holds, n > 0 => 1 \in Holds,
         \A i \in 1..(n - 1) : i \in Holds => i + 1 \in Holds
  PROVE  \A i \in 1..n : i \in Holds
<1> DEFINE Not == 1..n \ Holds
<1>1. ASSUME Not # {} PROVE FALSE
  <2>1. Not \subseteq Nat
    OBVIOUS
  <2>2. PICK least \in Not : \A i \in Not : least <= i
    BY <1>1, <2>1, LeastNumber
  <2>3. least \in 1..n /\ least \notin Holds /\ least # 1
    OBVIOUS
  <2>4. least - 1 \in 1..(n - 1) /\ ~ (least <= least - 1) /\ least - 1 + 1 = least
    BY <2>3
  <2>5. least - 1 \in Holds
    BY <2>2, <2>4
  <2> QED BY <2>3, <2>4, <2>5
<1> QED BY <1>1

-----------------------------------------------------------------------------
(* Sequences put together (FlattenSeq) *)

\* The sequences put together so far, after each of them.
SoFar(seqs, f) ==
  f = [i \in 1..Len(seqs) |-> IF i = 1 THEN seqs[i] ELSE f[i - 1] \o seqs[i]]

\* There is such a function for every sequence of sequences.
LEMMA SoFarExists ==
  ASSUME NEW seqs, Len(seqs) \in Nat
  PROVE  \E f : SoFar(seqs, f)
<1> DEFINE UpTo(n, f) == f = [i \in 1..n |-> IF i = 1 THEN seqs[i] ELSE f[i - 1] \o seqs[i]]
           Defined == {n \in Nat : \E f : UpTo(n, f)}
<1>1. UpTo(0, <<>>)
  OBVIOUS
<1>2. UpTo(1, <<seqs[1]>>)
  OBVIOUS
<1>3. 1 \in Defined
  BY <1>2
<1>4. ASSUME NEW n \in 1..(Len(seqs) - 1), n \in Defined
      PROVE  n + 1 \in Defined
  <2>1. PICK f : UpTo(n, f)
    BY <1>4
  <2> DEFINE g == [i \in 1..(n + 1) |-> IF i = n + 1 THEN f[n] \o seqs[n + 1] ELSE f[i]]
  <2>2. ASSUME NEW i \in 1..(n + 1)
        PROVE  g[i] = IF i = 1 THEN seqs[i] ELSE g[i - 1] \o seqs[i]
    <3>1. CASE i = n + 1
      <4>1. i # 1 /\ i - 1 = n /\ n \in 1..(n + 1) /\ n # n + 1
        BY <3>1
      <4>2. g[n] = f[n]
        BY <4>1
      <4>3. g[i] = f[n] \o seqs[i]
        BY <3>1
      <4> QED BY <4>1, <4>2, <4>3
    <3>2. CASE i # n + 1
      <4>1. i \in 1..n
        BY <3>2
      <4>2. f[i] = IF i = 1 THEN seqs[i] ELSE f[i - 1] \o seqs[i]
        BY <4>1, <2>1
      <4>3. g[i] = f[i] /\ (i # 1 => g[i - 1] = f[i - 1])
        BY <4>1
      <4> QED BY <4>2, <4>3
    <3> QED BY <3>1, <3>2
  <2>3. UpTo(n + 1, g)
    BY <2>2
  <2> HIDE DEF g, UpTo
  <2>4. n + 1 \in Nat
    OBVIOUS
  <2> QED BY <2>3, <2>4, Zenon
<1> HIDE DEF Defined
<1>5. \A n \in 1..Len(seqs) : n \in Defined
  BY <1>3, <1>4, StepByStep
<1>6. \A n \in Defined : \E f : UpTo(n, f)
  BY DEF Defined
<1>7. CASE Len(seqs) = 0
  BY <1>1, <1>7 DEF SoFar
<1>8. CASE Len(seqs) # 0
  <2>0. Len(seqs) \in 1..Len(seqs)
    BY <1>8
  <2>1. PICK f : UpTo(Len(seqs), f)
    BY <2>0, <1>5, <1>6, Zenon
  <2>2. SoFar(seqs, f)
    BY <2>1 DEF SoFar
  <2> QED BY <2>2
<1> QED BY <1>7, <1>8

\* FlattenSeq is the last of what it has so far.
LEMMA FlattenLast ==
  ASSUME NEW seqs, Len(seqs) \in Nat \ {0}
  PROVE  \E f : SoFar(seqs, f) /\ FlattenSeq(seqs) = f[Len(seqs)]
<1> DEFINE f == CHOOSE f : SoFar(seqs, f)
<1>1. SoFar(seqs, f)
  BY SoFarExists
<1>2. FlattenSeq(seqs) = f[Len(seqs)]
  BY DEF FlattenSeq, SoFar
<1> QED BY <1>1, <1>2

\* The sequences put together one after the other.
LEMMA SoFarNext ==
  ASSUME NEW seqs, Len(seqs) \in Nat \ {0}, NEW f, SoFar(seqs, f)
  PROVE  /\ f[1] = seqs[1]
         /\ \A i \in 1..(Len(seqs) - 1) : f[i + 1] = f[i] \o seqs[i + 1]
<1>1. \A i \in 1..Len(seqs) : f[i] = IF i = 1 THEN seqs[i] ELSE f[i - 1] \o seqs[i]
  BY DEF SoFar
<1>2. f[1] = seqs[1]
  BY <1>1
<1>3. ASSUME NEW i \in 1..(Len(seqs) - 1)
      PROVE  f[i + 1] = f[i] \o seqs[i + 1]
  <2>1. i + 1 \in 1..Len(seqs) /\ i + 1 # 1 /\ (i + 1) - 1 = i
    OBVIOUS
  <2> QED BY <1>1, <2>1
<1> QED BY <1>2, <1>3

\* Nothing comes of empty sequences.
LEMMA FlattenNone ==
  ASSUME NEW seqs, Len(seqs) \in Nat \ {0},
         \A i \in 1..Len(seqs) : seqs[i] = <<>>
  PROVE  FlattenSeq(seqs) = <<>>
<1>1. PICK f : SoFar(seqs, f) /\ FlattenSeq(seqs) = f[Len(seqs)]
  BY FlattenLast
<1>2. f[1] = seqs[1] /\ \A i \in 1..(Len(seqs) - 1) : f[i + 1] = f[i] \o seqs[i + 1]
  BY <1>1, SoFarNext, Zenon
<1> DEFINE Empty == {i \in 1..Len(seqs) : f[i] = <<>>}
<1>3. 1 \in Empty
  BY <1>2
<1>4. ASSUME NEW i \in 1..(Len(seqs) - 1), i \in Empty
      PROVE  i + 1 \in Empty
  <2>1. i + 1 \in 1..Len(seqs) /\ f[i] = <<>>
    BY <1>4
  <2>2. f[i + 1] = <<>> \o <<>>
    BY <1>2, <2>1
  <2> QED BY <2>1, <2>2
<1> HIDE DEF Empty
<1>5. \A i \in 1..Len(seqs) : i \in Empty
  BY <1>3, <1>4, StepByStep
<1> QED BY <1>1, <1>5 DEF Empty

\* Of one sequence among empty ones comes that one.
LEMMA FlattenOne ==
  ASSUME NEW S, NEW seqs \in Seq(Seq(S)), NEW only \in DOMAIN seqs,
         \A i \in DOMAIN seqs \ {only} : seqs[i] = <<>>
  PROVE  FlattenSeq(seqs) = seqs[only]
<1>1. Len(seqs) \in Nat \ {0} /\ only \in 1..Len(seqs) /\ DOMAIN seqs = 1..Len(seqs)
  OBVIOUS
<1>2. PICK f : SoFar(seqs, f) /\ FlattenSeq(seqs) = f[Len(seqs)]
  BY <1>1, FlattenLast
<1>3. f[1] = seqs[1] /\ \A i \in 1..(Len(seqs) - 1) : f[i + 1] = f[i] \o seqs[i + 1]
  BY <1>1, <1>2, SoFarNext, Zenon
<1> DEFINE So == {i \in 1..Len(seqs) : f[i] = IF i < only THEN <<>> ELSE seqs[only]}
<1>4. 1 \in So
  BY <1>1, <1>3
<1>5. ASSUME NEW i \in 1..(Len(seqs) - 1), i \in So
      PROVE  i + 1 \in So
  <2>1. f[i + 1] = f[i] \o seqs[i + 1] /\ f[i] = IF i < only THEN <<>> ELSE seqs[only]
    BY <1>3, <1>5
  <2>2. i + 1 \in 1..Len(seqs) /\ seqs[i + 1] \in Seq(S) /\ seqs[only] \in Seq(S)
    BY <1>1
  <2>3. CASE i + 1 < only
    <3>1. i < only /\ i + 1 # only /\ i + 1 \in DOMAIN seqs \ {only}
      BY <2>2, <2>3, <1>1
    <3>2. f[i] = <<>> /\ seqs[i + 1] = <<>>
      BY <2>1, <3>1
    <3> QED BY <2>1, <2>2, <2>3, <3>2, SMTT(30)
  <2>4. CASE i + 1 = only
    <3>1. f[i] = <<>>
      BY <2>1, <2>4, <1>1
    <3>2. <<>> \o seqs[only] = seqs[only]
      BY <2>2
    <3>3. ~ (i + 1 < only) /\ seqs[i + 1] = seqs[only]
      BY <2>4, <1>1
    <3>4. f[i + 1] = seqs[only]
      BY <2>1, <3>1, <3>2, <3>3
    <3> QED BY <2>2, <3>3, <3>4
  <2>5. CASE ~ (i < only)
    <3>0. ~ (i + 1 < only) /\ i + 1 # only /\ i + 1 \in DOMAIN seqs \ {only}
      BY <2>2, <2>5, <1>1
    <3>1. f[i] = seqs[only] /\ seqs[i + 1] = <<>>
      BY <2>1, <2>5, <3>0
    <3>2. seqs[only] \o <<>> = seqs[only]
      BY <2>2
    <3> QED BY <2>1, <2>2, <3>0, <3>1, <3>2
  <2> QED BY <2>3, <2>4, <2>5, <1>1
<1> HIDE DEF So
<1>6. \A i \in 1..Len(seqs) : i \in So
  BY <1>1, <1>4, <1>5, StepByStep
<1>7. f[Len(seqs)] = seqs[only]
  <2>1. Len(seqs) \in 1..Len(seqs) /\ ~ (Len(seqs) < only)
    BY <1>1
  <2> QED BY <1>6, <2>1 DEF So
<1> QED BY <1>2, <1>7

\* Sequences of one element each make the sequence of these elements.
LEMMA FlattenUnits ==
  ASSUME NEW S, NEW s \in Seq(S)
  PROVE  FlattenSeq([i \in DOMAIN s |-> <<s[i]>>]) = s
<1> DEFINE seqs == [i \in 1..Len(s) |-> <<s[i]>>]
<1>1. /\ Len(seqs) = Len(s) /\ Len(s) \in Nat
      /\ [i \in DOMAIN s |-> <<s[i]>>] = seqs
      /\ \A i \in 1..Len(s) : seqs[i] = <<s[i]>>
  OBVIOUS
<1> HIDE DEF seqs
<1>2. CASE Len(s) = 0
  <2>1. s = <<>>
    BY <1>2
  <2>2. seqs = <<>>
    BY <1>2 DEF seqs
  <2> QED BY <1>1, <1>2, <2>1, <2>2 DEF FlattenSeq
<1>3. CASE Len(s) # 0
  <2>1. PICK f : SoFar(seqs, f) /\ FlattenSeq(seqs) = f[Len(seqs)]
    BY <1>1, <1>3, FlattenLast
  <2>2. /\ f[1] = seqs[1]
        /\ \A i \in 1..(Len(seqs) - 1) : f[i + 1] = f[i] \o seqs[i + 1]
    <3>1. Len(seqs) \in Nat \ {0}
      BY <1>1, <1>3
    <3> QED BY <2>1, <3>1, SoFarNext, Zenon
  <2> DEFINE So == {i \in 1..Len(s) : f[i] = [j \in 1..i |-> s[j]]}
  <2>3. 1 \in So
    BY <1>1, <1>3, <2>2
  <2>4. ASSUME NEW i \in 1..(Len(s) - 1), i \in So
        PROVE  i + 1 \in So
    <3>1. i + 1 \in 1..Len(s) /\ i \in 1..(Len(seqs) - 1)
      BY <1>1
    <3>2. f[i] = [j \in 1..i |-> s[j]] /\ seqs[i + 1] = <<s[i + 1]>>
      BY <1>1, <2>4, <3>1
    <3>3. f[i + 1] = [j \in 1..i |-> s[j]] \o <<s[i + 1]>>
      BY <2>2, <3>1, <3>2
    <3>4. [j \in 1..i |-> s[j]] \in Seq(S) /\ <<s[i + 1]>> \in Seq(S)
      OBVIOUS
    <3>5. [j \in 1..i |-> s[j]] \o <<s[i + 1]>> = [j \in 1..(i + 1) |-> s[j]]
      BY <3>4
    <3> QED BY <3>1, <3>3, <3>5
  <2> HIDE DEF So
  <2>5. \A i \in 1..Len(s) : i \in So
    BY <1>1, <1>3, <2>3, <2>4, StepByStep
  <2>6. f[Len(s)] = [j \in 1..Len(s) |-> s[j]]
    BY <1>1, <1>3, <2>5 DEF So
  <2> QED BY <1>1, <2>1, <2>6, SMTT(30)
<1> QED BY <1>2, <1>3

-----------------------------------------------------------------------------
(* The elements at some places (Only) *)

\* p tells where in t the elements at each of the places are; nothing else is in t.
Keeps(s, places, t, p) ==
  /\ p \in [places -> 1..Len(t)]
  /\ \A a, b \in places : p[a] = p[b] => a = b
  /\ \A k \in 1..Len(t) : \E a \in places : p[a] = k
  /\ \A a \in places : t[p[a]] = s[a]

\* One more place, after the ones that are kept.
LEMMA KeepsMore ==
  ASSUME NEW S, NEW s, NEW places, NEW t \in Seq(S), NEW p, Keeps(s, places, t, p),
         NEW e, e \notin places, s[e] \in S
  PROVE  \E q : Keeps(s, places \cup {e}, t \o <<s[e]>>, q)
<1> DEFINE u == t \o <<s[e]>>
           q == [a \in places \cup {e} |-> IF a = e THEN Len(t) + 1 ELSE p[a]]
<1>1. /\ u \in Seq(S) /\ Len(u) = Len(t) + 1 /\ Len(t) \in Nat
      /\ u[Len(t) + 1] = s[e] /\ \A k \in 1..Len(t) : u[k] = t[k]
  OBVIOUS
<1>2. /\ \A a \in places : q[a] = p[a] /\ p[a] \in 1..Len(t)
      /\ q[e] = Len(t) + 1
  BY DEF Keeps
<1> HIDE DEF u
<1>3. q \in [places \cup {e} -> 1..Len(u)]
  BY <1>1, <1>2
<1> HIDE DEF q
<1>4. ASSUME NEW a \in places \cup {e}, NEW b \in places \cup {e}, q[a] = q[b]
      PROVE  a = b
  BY <1>1, <1>2, <1>4 DEF Keeps
<1>5. ASSUME NEW k \in 1..Len(u)
      PROVE  \E a \in places \cup {e} : q[a] = k
  <2>1. CASE k = Len(t) + 1
    BY <2>1, <1>2
  <2>2. CASE k # Len(t) + 1
    <3>1. k \in 1..Len(t)
      BY <2>2, <1>1
    <3>2. PICK a \in places : p[a] = k
      BY <3>1 DEF Keeps
    <3> QED BY <3>2, <1>2
  <2> QED BY <2>1, <2>2
<1>6. ASSUME NEW a \in places \cup {e}
      PROVE  u[q[a]] = s[a]
  <2>1. CASE a = e
    BY <2>1, <1>1, <1>2
  <2>2. CASE a # e
    <3>1. a \in places /\ q[a] = p[a] /\ p[a] \in 1..Len(t) /\ t[p[a]] = s[a]
      BY <2>2, <1>2 DEF Keeps
    <3> QED BY <3>1, <1>1
  <2> QED BY <2>1, <2>2
<1>7. Keeps(s, places \cup {e}, u, q)
  BY <1>3, <1>4, <1>5, <1>6 DEF Keeps
<1> QED BY <1>7 DEF u

\* Only keeps the elements at the places, each once, and no other.
LEMMA OnlyKeeps ==
  ASSUME NEW S, NEW s \in Seq(S), NEW places, places \subseteq DOMAIN s
  PROVE  Only(s, places) \in Seq(S) /\ \E p : Keeps(s, places, Only(s, places), p)
<1> DEFINE seqs == [i \in DOMAIN s |-> IF i \in places THEN <<s[i]>> ELSE <<>>]
<1>1. /\ Len(s) \in Nat /\ Len(seqs) = Len(s)
      /\ \A i \in 1..Len(s) : /\ s[i] \in S
                              /\ seqs[i] = IF i \in places THEN <<s[i]>> ELSE <<>>
  OBVIOUS
<1>2. Only(s, places) = FlattenSeq(seqs)
  BY DEF Only
<1> DEFINE To(i) == places \cap 1..i
           So(i, t) == t \in Seq(S) /\ \E p : Keeps(s, To(i), t, p)
<1>3. So(0, <<>>)
  <2>1. To(0) = {}
    OBVIOUS
  <2>2. Keeps(s, {}, <<>>, <<>>)
    BY DEF Keeps
  <2>3. <<>> \in Seq(S)
    OBVIOUS
  <2> QED BY <2>1, <2>2, <2>3
<1>4. ASSUME NEW i \in 0..(Len(s) - 1), NEW t, So(i, t)
      PROVE  So(i + 1, t \o seqs[i + 1])
  <2>1. i + 1 \in 1..Len(s)
    BY <1>1
  <2>2. PICK p : t \in Seq(S) /\ Keeps(s, To(i), t, p)
    BY <1>4
  <2>3. CASE i + 1 \in places
    <3>1. To(i + 1) = To(i) \cup {i + 1} /\ i + 1 \notin To(i)
      BY <2>3, <1>1
    <3>2. s[i + 1] \in S /\ seqs[i + 1] = <<s[i + 1]>>
      BY <2>1, <2>3, <1>1
    <3> HIDE DEF To, seqs
    <3>3. \E q : Keeps(s, To(i) \cup {i + 1}, t \o <<s[i + 1]>>, q)
      BY <2>2, <3>1, <3>2, KeepsMore
    <3>4. t \o <<s[i + 1]>> \in Seq(S)
      BY <2>2, <3>2
    <3> QED BY <3>1, <3>2, <3>3, <3>4
  <2>4. CASE i + 1 \notin places
    <3>1. To(i + 1) = To(i)
      BY <2>4, <1>1
    <3>2. seqs[i + 1] = <<>>
      BY <2>1, <2>4, <1>1
    <3>3. t \o seqs[i + 1] = t
      BY <2>2, <3>2
    <3> HIDE DEF To, seqs
    <3> QED BY <2>2, <3>1, <3>3
  <2> QED BY <2>3, <2>4
<1> HIDE DEF So, seqs
<1>5. So(Len(s), FlattenSeq(seqs))
  <2>1. CASE Len(s) = 0
    <3>1. seqs = <<>>
      BY <2>1 DEF seqs
    <3> QED BY <1>1, <1>3, <2>1, <3>1 DEF FlattenSeq
  <2>2. CASE Len(s) # 0
    <3>1. PICK f : SoFar(seqs, f) /\ FlattenSeq(seqs) = f[Len(seqs)]
      BY <1>1, <2>2, FlattenLast
    <3>2. Len(seqs) \in Nat \ {0}
      BY <1>1, <2>2
    <3>3. f[1] = seqs[1] /\ \A i \in 1..(Len(seqs) - 1) : f[i + 1] = f[i] \o seqs[i + 1]
      BY <3>1, <3>2, SoFarNext, Zenon
    <3> DEFINE Done == {i \in 1..Len(s) : So(i, f[i])}
    <3>4. 1 \in Done
      <4>1. <<>> \o seqs[1] = seqs[1]
        BY <1>1, <2>2
      <4>2. 0 \in 0..(Len(s) - 1) /\ 1 \in 1..Len(s) /\ 0 + 1 = 1
        BY <1>1, <2>2
      <4>3. So(0 + 1, <<>> \o seqs[0 + 1])
        BY <1>3, <1>4, <4>2, Zenon
      <4> QED BY <3>3, <4>1, <4>2, <4>3
    <3>5. ASSUME NEW i \in 1..(Len(s) - 1), i \in Done
          PROVE  i + 1 \in Done
      <4>1. i \in 0..(Len(s) - 1) /\ i + 1 \in 1..Len(s) /\ i \in 1..(Len(seqs) - 1)
        BY <1>1
      <4>2. So(i + 1, f[i] \o seqs[i + 1])
        BY <3>5, <4>1, <1>4
      <4> QED BY <3>3, <4>1, <4>2
    <3> HIDE DEF Done
    <3>6. \A i \in 1..Len(s) : i \in Done
      BY <1>1, <2>2, <3>4, <3>5, StepByStep
    <3>7. Len(s) \in 1..Len(s)
      BY <1>1, <2>2
    <3> QED BY <1>1, <3>1, <3>6, <3>7 DEF Done
  <2> QED BY <2>1, <2>2
<1>6. To(Len(s)) = places
  BY <1>1
<1> QED BY <1>2, <1>5, <1>6 DEF So

\* All the places keep the whole sequence.
LEMMA OnlyAll ==
  ASSUME NEW S, NEW s \in Seq(S), NEW places, DOMAIN s \subseteq places
  PROVE  Only(s, places) = s
<1>1. [i \in DOMAIN s |-> IF i \in places THEN <<s[i]>> ELSE <<>>] = [i \in DOMAIN s |-> <<s[i]>>]
  OBVIOUS
<1> QED BY <1>1, FlattenUnits DEF Only

\* None of the places keep nothing.
LEMMA OnlyNone ==
  ASSUME NEW S, NEW s \in Seq(S), NEW places, places \cap DOMAIN s = {}
  PROVE  Only(s, places) = <<>>
<1> DEFINE seqs == [i \in DOMAIN s |-> IF i \in places THEN <<s[i]>> ELSE <<>>]
<1>1. /\ Len(seqs) = Len(s) /\ Len(s) \in Nat
      /\ \A i \in 1..Len(s) : seqs[i] = <<>>
  OBVIOUS
<1>2. Len(s) = 0 => seqs = <<>>
  OBVIOUS
<1> HIDE DEF seqs
<1>3. FlattenSeq(seqs) = <<>>
  BY <1>1, <1>2, FlattenNone DEF FlattenSeq
<1> QED BY <1>3 DEF seqs, Only

\* One place keeps its element.
LEMMA OnlyOne ==
  ASSUME NEW S, NEW s \in Seq(S), NEW places, NEW i \in DOMAIN s, places \cap DOMAIN s = {i}
  PROVE  Only(s, places) = <<s[i]>>
<1> DEFINE seqs == [j \in DOMAIN s |-> IF j \in places THEN <<s[j]>> ELSE <<>>]
<1>1. seqs \in Seq(Seq(S)) /\ i \in DOMAIN seqs
  <2>1. \A j \in 1..Len(s) : seqs[j] \in Seq(S)
    OBVIOUS
  <2>2. seqs \in [1..Len(s) -> Seq(S)] /\ Len(s) \in Nat /\ i \in 1..Len(s)
    BY <2>1
  <2> HIDE DEF seqs
  <2> QED BY <2>2
<1>2. (\A j \in DOMAIN seqs \ {i} : seqs[j] = <<>>) /\ seqs[i] = <<s[i]>>
  OBVIOUS
<1> HIDE DEF seqs
<1>3. FlattenSeq(seqs) = <<s[i]>>
  BY <1>1, <1>2, FlattenOne
<1> QED BY <1>3 DEF seqs, Only

\* A sequence alone.
LEMMA FlattenAlone ==
  ASSUME NEW S, NEW s \in Seq(S)
  PROVE  FlattenSeq(<<s>>) = s
<1>1. <<s>> \in Seq(Seq(S)) /\ 1 \in DOMAIN <<s>> /\ <<s>>[1] = s
  OBVIOUS
<1>2. \A i \in DOMAIN <<s>> \ {1} : <<s>>[i] = <<>>
  OBVIOUS
<1>3. FlattenSeq(<<s>>) = <<s>>[1]
  BY <1>1, <1>2, FlattenOne
<1> QED BY <1>1, <1>3

-----------------------------------------------------------------------------
(* The fields of a message, at any place of a buffer *)

Byte == 0..255
Written(buffer, at, bytes) ==
  \A k \in DOMAIN bytes : at + k - 1 \in DOMAIN buffer /\ buffer[at + k - 1] = bytes[k]

\* The greatest integer of 32 bits is a number.
LEMMA LastIsNumber == LastInteger \in Nat /\ LastInteger > 0 /\ 1 \in 1..LastInteger
<1>1. LastInteger \in Nat /\ LastInteger > 0
  BY DEF LastInteger
<1> QED BY <1>1

\* A byte, from its bounds.
LEMMA AByte ==
  ASSUME NEW b \in Int, 0 <= b, b < 256
  PROVE  b \in Byte
  BY DEF Byte

\* What is true of a byte.
LEMMA OfAByte ==
  ASSUME NEW b \in Byte
  PROVE  b \in Nat /\ b < 256 /\ 255 - b \in Byte
<1>1. b \in Nat /\ b < 256
  BY DEF Byte
<1>2. 255 - b \in Int /\ 0 <= 255 - b /\ 255 - b < 256
  BY <1>1
<1> QED BY <1>1, <1>2, AByte

\* A length or a code of two bytes reads back as it was written (UInt16).
THEOREM LengthsReadBack ==
  ASSUME NEW n \in Nat, n < 65536, NEW buffer, NEW at \in Nat, Written(buffer, at, UInt16(n))
  PROVE  UInt16(n) \in Seq(Byte) /\ UInt16At(buffer, at) = n
<1> DEFINE high == n \div 256
           low == n % 256
<1>1. n = 256 * high + low /\ high \in Byte /\ low \in Byte
  <2>1. n = 256 * high + low /\ high \in Int /\ 0 <= high /\ high < 256
        /\ low \in Int /\ 0 <= low /\ low < 256
    OBVIOUS
  <2> HIDE DEF high, low
  <2> QED BY <2>1, AByte
<1>2. UInt16(n) = <<high, low>>
  BY DEF UInt16
<1> HIDE DEF high, low
<1>3. DOMAIN UInt16(n) = 1..2 /\ UInt16(n)[1] = high /\ UInt16(n)[2] = low
  BY <1>2
<1>4. buffer[at] = high /\ buffer[at + 1] = low
  <2>1. buffer[at + 1 - 1] = UInt16(n)[1] /\ buffer[at + 2 - 1] = UInt16(n)[2]
    BY <1>3 DEF Written
  <2>2. at + 1 - 1 = at /\ at + 2 - 1 = at + 1
    OBVIOUS
  <2> QED BY <1>3, <2>1, <2>2
<1>5. UInt16(n) \in Seq(Byte)
  <2>1. high \in Byte /\ low \in Byte
    BY <1>1
  <2> QED BY <1>2, <2>1
<1> QED BY <1>1, <1>4, <1>5 DEF UInt16At

\* The four bytes of a number that is not negative.
LEMMA FourBytes ==
  ASSUME NEW n \in Nat, n <= LastInteger
  PROVE  \E a, b, c, d \in Byte :
           a < 128 /\ BigEndian(n) = <<a, b, c, d>> /\ n = ((a * 256 + b) * 256 + c) * 256 + d
<1> DEFINE q == n \div 256
           r == q \div 256
           s == r \div 256
<1>0. n < 2147483648
  <2>1. LastInteger < 2147483648 /\ LastInteger \in Nat
    BY DEF LastInteger
  <2> QED BY <2>1
<1>1. n = 256 * q + (n % 256) /\ n % 256 \in Byte /\ q \in Nat
  <2>1. n % 256 \in Int /\ 0 <= n % 256 /\ n % 256 < 256
    OBVIOUS
  <2>2. n % 256 \in Byte
    BY <2>1, AByte
  <2> QED BY <2>2
<1>2. q = 256 * r + (q % 256) /\ q % 256 \in Byte /\ r \in Nat
  <2> HIDE DEF q
  <2>1. q % 256 \in Int /\ 0 <= q % 256 /\ q % 256 < 256
    BY <1>1
  <2>2. q % 256 \in Byte
    BY <2>1, AByte
  <2> QED BY <1>1, <2>2
<1>3. r = 256 * s + (r % 256) /\ r % 256 \in Byte /\ s \in Nat
  <2> HIDE DEF r
  <2>1. r % 256 \in Int /\ 0 <= r % 256 /\ r % 256 < 256
    BY <1>2
  <2>2. r % 256 \in Byte
    BY <2>1, AByte
  <2> QED BY <1>2, <2>2
<1>4. n \div 65536 = r /\ n \div 16777216 = s /\ s < 128
  BY <1>0
<1>5. BigEndian(n) = <<s, r % 256, q % 256, n % 256>>
  BY <1>4 DEF BigEndian
<1>6. s \in Byte
  <2> HIDE DEF s
  <2> QED BY <1>3, <1>4, AByte
<1> DEFINE b == r % 256
           c == q % 256
           d == n % 256
<1>7. n = ((s * 256 + b) * 256 + c) * 256 + d
  <2> HIDE DEF q, r, s, b, c, d
  <2>1. q = 256 * r + c /\ r = 256 * s + b /\ n = 256 * q + d
    BY <1>1, <1>2, <1>3 DEF b, c, d
  <2>2. b \in Nat /\ c \in Nat /\ d \in Nat
    BY <1>1, <1>2, <1>3, OfAByte DEF b, c, d
  <2> QED BY <1>3, <2>1, <2>2
<1>8. b \in Byte /\ c \in Byte /\ d \in Byte
  BY <1>1, <1>2, <1>3
<1>9. BigEndian(n) = <<s, b, c, d>> /\ s < 128
  BY <1>4, <1>5
<1> HIDE DEF q, r, s, b, c, d
<1> QED BY <1>6, <1>7, <1>8, <1>9

\* The four bytes of any number, and what they say.
LEMMA AnyFourBytes ==
  ASSUME NEW n \in Integers32
  PROVE  \E a, b, c, d \in Byte :
           /\ Int32(n) = <<a, b, c, d>>
           /\ a < 128 => n = ((a * 256 + b) * 256 + c) * 256 + d
           /\ a >= 128 =>
                n = -1 - ((((255 - a) * 256 + (255 - b)) * 256 + (255 - c)) * 256 + (255 - d))
<1>0. LastInteger \in Nat /\ n \in Int /\ n <= LastInteger /\ n >= -LastInteger - 1
  BY LastIsNumber DEF Integers32
<1>1. CASE n >= 0
  <2>1. n \in Nat /\ n <= LastInteger /\ Int32(n) = BigEndian(n)
    BY <1>0, <1>1 DEF Int32
  <2>2. PICK a, b, c, d \in Byte :
          a < 128 /\ BigEndian(n) = <<a, b, c, d>> /\ n = ((a * 256 + b) * 256 + c) * 256 + d
    BY <2>1, FourBytes
  <2>3. ~ (a >= 128)
    BY <2>2, OfAByte
  <2> QED BY <2>1, <2>2, <2>3
<1>2. CASE ~ (n >= 0)
  <2> DEFINE m == -(n + 1)
  <2>1. m \in Nat /\ m <= LastInteger /\ n = -1 - m
    BY <1>0, <1>2
  <2>2. Int32(n) = Complement(BigEndian(m))
    BY <1>2 DEF Int32
  <2> HIDE DEF m
  <2>3. PICK a, b, c, d \in Byte :
          a < 128 /\ BigEndian(m) = <<a, b, c, d>> /\ m = ((a * 256 + b) * 256 + c) * 256 + d
    BY <2>1, FourBytes
  <2>4. Int32(n) = <<255 - a, 255 - b, 255 - c, 255 - d>>
    <3> HIDE DEF BigEndian
    <3>1. Complement(BigEndian(m)) = [i \in 1..4 |-> 255 - BigEndian(m)[i]]
      BY <2>3 DEF Complement
    <3>2. Complement(BigEndian(m)) = <<255 - a, 255 - b, 255 - c, 255 - d>>
      BY <2>3, <3>1
    <3> QED BY <2>2, <3>2
  <2>5. a \in Nat /\ b \in Nat /\ c \in Nat /\ d \in Nat
    BY OfAByte
  <2> DEFINE e == 255 - a
             f == 255 - b
             g == 255 - c
             h == 255 - d
  <2>6. e \in Byte /\ f \in Byte /\ g \in Byte /\ h \in Byte
    BY OfAByte
  <2>7. ~ (e < 128) /\ 255 - e = a /\ 255 - f = b /\ 255 - g = c /\ 255 - h = d
    BY <2>3, <2>5
  <2>8. Int32(n) = <<e, f, g, h>>
    BY <2>4
  <2> HIDE DEF e, f, g, h
  <2>9. n = -1 - ((((255 - e) * 256 + (255 - f)) * 256 + (255 - g)) * 256 + (255 - h))
    BY <2>1, <2>3, <2>7
  <2> QED BY <2>6, <2>7, <2>8, <2>9
<1> QED BY <1>1, <1>2

\* Every 32-bit integer reads back as it was written (Int32).
THEOREM IntegersReadBack ==
  ASSUME NEW n \in Integers32, NEW buffer, NEW at \in Nat, Written(buffer, at, Int32(n))
  PROVE  Int32(n) \in Seq(Byte) /\ Len(Int32(n)) = 4 /\ Int32At(buffer, at) = n
<1>1. PICK a, b, c, d \in Byte :
        /\ Int32(n) = <<a, b, c, d>>
        /\ a < 128 => n = ((a * 256 + b) * 256 + c) * 256 + d
        /\ a >= 128 =>
             n = -1 - ((((255 - a) * 256 + (255 - b)) * 256 + (255 - c)) * 256 + (255 - d))
  BY AnyFourBytes
<1>2. /\ DOMAIN Int32(n) = 1..4 /\ Len(Int32(n)) = 4 /\ Int32(n) \in Seq(Byte)
      /\ Int32(n)[1] = a /\ Int32(n)[2] = b /\ Int32(n)[3] = c /\ Int32(n)[4] = d
  BY <1>1
<1>3. \A k \in 1..4 : at + k - 1 \in DOMAIN buffer /\ buffer[at + k - 1] = Int32(n)[k]
  BY <1>2 DEF Written
<1>4. /\ at + 1 - 1 = at /\ at + 2 - 1 = at + 1 /\ at + 3 - 1 = at + 2 /\ at + 4 - 1 = at + 3
      /\ 1 \in 1..4 /\ 2 \in 1..4 /\ 3 \in 1..4 /\ 4 \in 1..4
  OBVIOUS
<1>5. /\ buffer[at] = a /\ buffer[at + 1] = b /\ buffer[at + 2] = c /\ buffer[at + 3] = d
      /\ at \in DOMAIN buffer /\ at + 1 \in DOMAIN buffer /\ at + 2 \in DOMAIN buffer
      /\ at + 3 \in DOMAIN buffer
  BY <1>2, <1>3, <1>4
<1>6. CASE a < 128
  BY <1>1, <1>2, <1>5, <1>6 DEF Int32At, BigEndianAt
<1>7. CASE a >= 128
  <2> DEFINE other == Complement(buffer)
  <2>1. /\ other[at] = 255 - a /\ other[at + 1] = 255 - b
        /\ other[at + 2] = 255 - c /\ other[at + 3] = 255 - d
    BY <1>5 DEF Complement
  <2>2. Int32At(buffer, at) = -1 - BigEndianAt(other, at)
    <3>1. ~ (buffer[at] < 128)
      BY <1>5, <1>7, OfAByte
    <3> QED BY <3>1 DEF Int32At
  <2> HIDE DEF other
  <2>3. BigEndianAt(other, at) = (((255 - a) * 256 + (255 - b)) * 256 + (255 - c)) * 256 + (255 - d)
    BY <2>1 DEF BigEndianAt
  <2>4. n = -1 - BigEndianAt(other, at)
    BY <1>1, <1>7, <2>3
  <2> QED BY <1>2, <2>2, <2>4
<1>8. a < 128 \/ a >= 128
  BY OfAByte
<1> QED BY <1>6, <1>7, <1>8

\* Two sequences of a set, one after the other.
LEMMA Joined ==
  ASSUME NEW S, NEW s \in Seq(S), NEW t \in Seq(S)
  PROVE  /\ s \o t \in Seq(S) /\ Len(s \o t) = Len(s) + Len(t)
         /\ Len(s) \in Nat /\ Len(t) \in Nat
  BY ConcatProperties

\* One field after the other.
LEMMA WrittenParts ==
  ASSUME NEW S, NEW s \in Seq(S), NEW t \in Seq(S), NEW buffer, NEW at \in Nat,
         Written(buffer, at, s \o t)
  PROVE  Written(buffer, at, s) /\ Written(buffer, at + Len(s), t)
<1> DEFINE both == s \o t
<1>1. /\ DOMAIN s = 1..Len(s) /\ DOMAIN t = 1..Len(t) /\ Len(s) \in Nat /\ Len(t) \in Nat
      /\ DOMAIN both = 1..Len(s) + Len(t)
      /\ \A k \in 1..Len(s) + Len(t) : both[k] = IF k <= Len(s) THEN s[k] ELSE t[k - Len(s)]
  BY ConcatProperties, LenProperties
<1>2. \A k \in DOMAIN both : at + k - 1 \in DOMAIN buffer /\ buffer[at + k - 1] = both[k]
  BY DEF Written
<1> HIDE DEF both
<1>3. Written(buffer, at, s)
  BY <1>1, <1>2 DEF Written
<1>4. ASSUME NEW k \in DOMAIN t
      PROVE  /\ at + Len(s) + k - 1 \in DOMAIN buffer
             /\ buffer[at + Len(s) + k - 1] = t[k]
  <2>1. Len(s) + k \in DOMAIN both /\ both[Len(s) + k] = t[k]
    BY <1>1
  <2>2. at + (Len(s) + k) - 1 = at + Len(s) + k - 1
    BY <1>1
  <2> QED BY <1>2, <2>1, <2>2
<1>5. Written(buffer, at + Len(s), t)
  BY <1>4 DEF Written
<1> QED BY <1>3, <1>5

\* A resolution reads back as it was written, with its length (writeResolution).
THEOREM ResolutionsReadBack ==
  ASSUME NEW x \in Integers32, NEW y \in Integers32, NEW unit \in {K("dpi"), K("dpcm")},
         NEW buffer, NEW at \in Nat,
         Written(buffer, at, writeResolution(Arr(<<Num(x), Num(y), unit>>)))
  PROVE  /\ UInt16At(buffer, at) = 9
         /\ resolutionAt(buffer, at + 2) = Arr(<<Num(x), Num(y), unit>>)
<1> DEFINE last == IF unit = K("dpi") THEN 3 ELSE 4
           a == UInt16(9)
           b == Int32(x)
           c == Int32(y)
           d == <<last>>
<1>1. writeResolution(Arr(<<Num(x), Num(y), unit>>)) = a \o b \o c \o d
  BY DEF writeResolution, Arr, Num, IsA
<1>2. a = <<0, 9>> /\ a \in Seq(Int) /\ Len(a) = 2
  <2>1. 9 \div 256 = 0 /\ 9 % 256 = 9
    OBVIOUS
  <2> QED BY <2>1 DEF UInt16
<1>3. b \in Seq(Int) /\ Len(b) = 4 /\ c \in Seq(Int) /\ Len(c) = 4
  <2>1. ASSUME NEW n \in Integers32 PROVE Int32(n) \in Seq(Int) /\ Len(Int32(n)) = 4
    <3>1. PICK e, f, g, h \in Byte : Int32(n) = <<e, f, g, h>>
      BY AnyFourBytes
    <3>2. e \in Int /\ f \in Int /\ g \in Int /\ h \in Int
      BY OfAByte
    <3> QED BY <3>1, <3>2
  <2> QED BY <2>1
<1>4. d \in Seq(Int) /\ Len(d) = 1 /\ d[1] = last
  OBVIOUS
<1> HIDE DEF a, b, c, d, last
<1>5. /\ a \o b \in Seq(Int) /\ Len(a \o b) = 6
      /\ a \o b \o c \in Seq(Int) /\ Len(a \o b \o c) = 10
  <2>1. a \o b \in Seq(Int) /\ Len(a \o b) = 2 + 4
    <3>1. a \in Seq(Int) /\ b \in Seq(Int) /\ Len(a) = 2 /\ Len(b) = 4
      BY <1>2, <1>3
    <3> QED BY <3>1, Joined
  <2>2. a \o b \o c \in Seq(Int) /\ Len(a \o b \o c) = Len(a \o b) + Len(c)
    BY <1>3, <2>1, Joined
  <2> QED BY <1>3, <2>1, <2>2
<1>6. Written(buffer, at, a \o b \o c) /\ Written(buffer, at + 10, d)
  BY <1>1, <1>4, <1>5, WrittenParts
<1>7. Written(buffer, at, a \o b) /\ Written(buffer, at + 6, c)
  BY <1>3, <1>5, <1>6, WrittenParts
<1>8. Written(buffer, at, a) /\ Written(buffer, at + 2, b)
  BY <1>2, <1>3, <1>7, WrittenParts
<1>9. UInt16At(buffer, at) = 9
  BY <1>8, LengthsReadBack DEF a
<1>10. Int32At(buffer, at + 2) = x /\ Int32At(buffer, at + 2 + 4) = y
  <2>1. at + 2 \in Nat /\ at + 6 \in Nat /\ at + 2 + 4 = at + 6
    OBVIOUS
  <2>2. Int32At(buffer, at + 2) = x
    BY <1>8, <2>1, IntegersReadBack DEF b
  <2>3. Int32At(buffer, at + 6) = y
    BY <1>7, <2>1, IntegersReadBack DEF c
  <2> QED BY <2>1, <2>2, <2>3
<1>11. buffer[at + 2 + 8] = last
  <2>1. 1 \in DOMAIN d /\ at + 10 + 1 - 1 = at + 2 + 8
    BY <1>4
  <2>2. buffer[at + 10 + 1 - 1] = d[1]
    BY <1>6, <2>1 DEF Written
  <2> QED BY <1>4, <2>1, <2>2
<1>12. K(IF last = 3 THEN "dpi" ELSE "dpcm") = unit
  BY DEF last
<1> QED BY <1>9, <1>10, <1>11, <1>12 DEF resolutionAt

\* Two fields of two bytes and the rest, one after the other.
LEMMA ThreeParts ==
  ASSUME NEW a \in Seq(Int), NEW b \in Seq(Int), NEW rest \in Seq(Int), Len(a) = 2, Len(b) = 2,
         NEW buffer, NEW at \in Nat, Written(buffer, at, a \o b \o rest)
  PROVE  Written(buffer, at, a) /\ Written(buffer, at + 2, b) /\ Written(buffer, at + 4, rest)
<1> DEFINE both == a \o b
<1>1. both \in Seq(Int) /\ Len(both) = 2 + 2 /\ Written(buffer, at, both \o rest)
  BY Joined
<1>2. Written(buffer, at, both) /\ Written(buffer, at + 4, rest)
  <2> HIDE DEF both
  <2>1. Written(buffer, at, both) /\ Written(buffer, at + Len(both), rest)
    BY <1>1, WrittenParts
  <2> QED BY <1>1, <2>1
<1>3. Written(buffer, at, a) /\ Written(buffer, at + 2, b)
  BY <1>2, WrittenParts
<1> QED BY <1>2, <1>3

\* A date is written as the date of the printer, whose clock is TimezoneOffset behind.
LEMMA DateWritten ==
  ASSUME NEW year, NEW month, NEW minutes, NEW deciseconds
  PROVE  writeDateTime(Date(year, month, minutes, deciseconds)) =
           dateTimeBytes(year, month, minutes - TimezoneOffset, deciseconds)
<1> DEFINE value == Date(year, month, minutes, deciseconds)
<1>1. /\ IsA(value, "date") /\ value[2] = year /\ value[3] = month /\ value[4] = minutes
      /\ value[5] = deciseconds
  BY DEF Date, IsA
<1> HIDE DEF value
<1>2. writeDateTime(value) =
        dateTimeBytes(value[2], value[3], value[4] - TimezoneOffset, value[5])
  BY <1>1 DEF writeDateTime
<1>3. writeDateTime(value) = dateTimeBytes(year, month, minutes - TimezoneOffset, deciseconds)
  BY <1>1, <1>2
<1> QED BY <1>3 DEF value

\* A moment reads back as it was written, in any timezone, for the years that Date.UTC
\* takes as they are and a local time within the month (writeDateTime).
THEOREM DatesReadBack ==
  ASSUME NEW year \in Nat, 100 <= year, year < 65536, NEW month \in Int, NEW minutes \in Int,
         NEW deciseconds \in Nat, minutes >= TimezoneOffset,
         NEW buffer, NEW at \in Nat,
         Written(buffer, at, writeDateTime(Date(year, month, minutes, deciseconds)))
  PROVE  /\ UInt16At(buffer, at) = 11
         /\ dateTimeAt(buffer, at + 2) = Date(year, month, minutes, deciseconds)
<1> DEFINE local == minutes - TimezoneOffset
           offset == IF TimezoneOffset > 0 THEN TimezoneOffset ELSE - TimezoneOffset
           day == 1 + local \div 1440
           hour == (local % 1440) \div 60
           minute == local % 60
           second == deciseconds \div 10
           deci == deciseconds % 10
           sign == IF TimezoneOffset > 0 THEN 45 ELSE 43
           offsetHour == offset \div 60
           offsetMinute == offset % 60
           rest == <<month, day, hour, minute, second, deci, sign, offsetHour, offsetMinute>>
           a == UInt16(11)
           b == UInt16(year)
<1>1. writeDateTime(Date(year, month, minutes, deciseconds)) = a \o b \o rest
  <2>1. dateTimeBytes(year, month, local, deciseconds) = a \o b \o rest
    BY DEF dateTimeBytes
  <2>2. writeDateTime(Date(year, month, minutes, deciseconds))
          = dateTimeBytes(year, month, local, deciseconds)
    BY DateWritten
  <2> HIDE DEF local, rest, a, b
  <2> QED BY <2>1, <2>2
<1>2. TimezoneOffset \in Int
  BY CodecAssumption
<1>3. local \in Nat /\ offset \in Nat
  BY <1>2
<1>4. 1440 * (day - 1) + 60 * hour + minute = local
  <2> HIDE DEF local
  <2> QED BY <1>3
<1>5. 60 * offsetHour + offsetMinute = offset
  <2> HIDE DEF offset
  <2> QED BY <1>3
<1>6. 10 * second + deci = deciseconds
  OBVIOUS
<1>7. local - (IF sign = 45 THEN - offset ELSE offset) = minutes
  BY <1>2
<1>8. /\ day \in Int /\ hour \in Int /\ minute \in Int /\ second \in Int /\ deci \in Int
      /\ sign \in Int /\ offsetHour \in Int /\ offsetMinute \in Int
  <2> HIDE DEF local, offset
  <2> QED BY <1>3
<1> HIDE DEF local, offset, day, hour, minute, second, deci, sign, offsetHour, offsetMinute
<1>9. rest \in Seq(Int)
  BY <1>8
<1>10. /\ DOMAIN rest = 1..9 /\ rest[1] = month /\ rest[2] = day /\ rest[3] = hour
       /\ rest[4] = minute /\ rest[5] = second /\ rest[6] = deci /\ rest[7] = sign
       /\ rest[8] = offsetHour /\ rest[9] = offsetMinute
  OBVIOUS
<1> HIDE DEF rest
<1>11. a \in Seq(Int) /\ Len(a) = 2 /\ b \in Seq(Int) /\ Len(b) = 2
  <2>1. /\ 11 \div 256 \in Int /\ 11 % 256 \in Int
        /\ year \div 256 \in Int /\ year % 256 \in Int
    OBVIOUS
  <2> QED BY <2>1 DEF UInt16
<1> HIDE DEF a, b
<1>12. Written(buffer, at, a \o b \o rest)
  BY <1>1
<1>13. Written(buffer, at, a) /\ Written(buffer, at + 2, b) /\ Written(buffer, at + 4, rest)
  BY <1>9, <1>11, <1>12, ThreeParts
<1>15. UInt16At(buffer, at) = 11 /\ UInt16At(buffer, at + 2) = year
  <2>1. at + 2 \in Nat
    OBVIOUS
  <2> QED BY <1>13, <2>1, LengthsReadBack DEF a, b
<1>16. \A k \in 1..9 : buffer[at + 4 + k - 1] = rest[k]
  BY <1>10, <1>13 DEF Written
<1> DEFINE p == at + 2
<1>17. /\ buffer[p + 2] = month /\ buffer[p + 3] = day /\ buffer[p + 4] = hour
       /\ buffer[p + 5] = minute /\ buffer[p + 6] = second /\ buffer[p + 7] = deci
       /\ buffer[p + 8] = sign /\ buffer[p + 9] = offsetHour /\ buffer[p + 10] = offsetMinute
  <2>1. \A k \in 1..9 : at + 4 + k - 1 = p + (k + 1)
    OBVIOUS
  <2>2. \A k \in 1..9 : buffer[p + (k + 1)] = rest[k]
    BY <1>16, <2>1
  <2> HIDE DEF p
  <2>3. /\ buffer[p + (1 + 1)] = rest[1] /\ buffer[p + (2 + 1)] = rest[2]
        /\ buffer[p + (3 + 1)] = rest[3] /\ buffer[p + (4 + 1)] = rest[4]
        /\ buffer[p + (5 + 1)] = rest[5] /\ buffer[p + (6 + 1)] = rest[6]
        /\ buffer[p + (7 + 1)] = rest[7] /\ buffer[p + (8 + 1)] = rest[8]
        /\ buffer[p + (9 + 1)] = rest[9]
    BY <2>2
  <2> QED BY <2>3, <1>10
<1>18. UInt16At(buffer, p) = year
  BY <1>15
<1> HIDE DEF p
<1>19. dateTimeAt(buffer, p) =
         Date(year, month,
              local - (IF sign = 45 THEN - offset ELSE offset), deciseconds)
  BY <1>4, <1>5, <1>6, <1>8, <1>17, <1>18 DEF dateTimeAt
<1> QED BY <1>7, <1>15, <1>19 DEF p

-----------------------------------------------------------------------------
(* The strings of a message *)

\* Where each of the sequences ends in what they are put together to.
Ends(seqs, all, end) ==
  /\ end \in [0..Len(seqs) -> Nat] /\ end[0] = 0 /\ end[Len(seqs)] = Len(all)
  /\ \A i \in 1..Len(seqs) :
       /\ end[i] = end[i - 1] + Len(seqs[i]) /\ end[i] <= Len(all)
       /\ \A k \in 1..Len(seqs[i]) : all[end[i - 1] + k] = seqs[i][k]

\* FlattenSeq puts every sequence at a place of its own.
LEMMA FlattenPlaces ==
  ASSUME NEW S, NEW seqs \in Seq(Seq(S)), Len(seqs) # 0
  PROVE  FlattenSeq(seqs) \in Seq(S) /\ \E end : Ends(seqs, FlattenSeq(seqs), end)
<1> DEFINE n == Len(seqs)
<1>1. n \in Nat \ {0} /\ \A i \in 1..n : seqs[i] \in Seq(S) /\ Len(seqs[i]) \in Nat
  OBVIOUS
<1>2. PICK f : SoFar(seqs, f) /\ FlattenSeq(seqs) = f[n]
  BY <1>1, FlattenLast
<1>3. f[1] = seqs[1] /\ \A i \in 1..(n - 1) : f[i + 1] = f[i] \o seqs[i + 1]
  BY <1>1, <1>2, SoFarNext, Zenon
<1>0. n = Len(seqs)
  OBVIOUS
<1> HIDE DEF n
<1> DEFINE Joining == {i \in 1..n : f[i] \in Seq(S)}
<1>4. \A i \in 1..n : i \in Joining
  <2>1. 1 \in Joining
    BY <1>1, <1>3
  <2>2. ASSUME NEW i \in 1..(n - 1), i \in Joining PROVE i + 1 \in Joining
    <3>1. i + 1 \in 1..n /\ i \in 1..n /\ f[i + 1] = f[i] \o seqs[i + 1]
      <4>1. i + 1 \in 1..n /\ i \in 1..n
        BY <1>1
      <4> QED BY <1>3, <4>1
    <3>2. f[i] \in Seq(S) /\ seqs[i + 1] \in Seq(S)
      BY <1>1, <2>2, <3>1
    <3>3. f[i + 1] \in Seq(S)
      BY <3>1, <3>2, Joined
    <3> QED BY <3>1, <3>3
  <2> HIDE DEF Joining
  <2> QED BY <1>1, <2>1, <2>2, StepByStep
<1>5. \A i \in 1..n : f[i] \in Seq(S) /\ Len(f[i]) \in Nat
  BY <1>4
<1> HIDE DEF Joining
<1> DEFINE end == [i \in 0..n |-> IF i = 0 THEN 0 ELSE Len(f[i])]
<1>6. end \in [0..n -> Nat] /\ end[0] = 0 /\ \A i \in 1..n : end[i] = Len(f[i])
  <2>1. \A i \in 0..n : i # 0 => i \in 1..n
    BY <1>1
  <2>2. 0 \in 0..n /\ \A i \in 1..n : i \in 0..n /\ i # 0
    BY <1>1
  <2> QED BY <1>5, <2>1, <2>2
<1> HIDE DEF end
<1>7. ASSUME NEW i \in 1..n PROVE end[i] = end[i - 1] + Len(seqs[i])
  <2>1. CASE i = 1
    BY <1>1, <1>3, <1>6, <2>1
  <2>2. CASE i # 1
    <3>1. i - 1 \in 1..(n - 1) /\ i - 1 \in 1..n /\ (i - 1) + 1 = i
      BY <1>1, <2>2
    <3>2. f[i] = f[i - 1] \o seqs[i]
      BY <1>3, <3>1
    <3>3. Len(f[i]) = Len(f[i - 1]) + Len(seqs[i])
      BY <1>1, <1>5, <3>1, <3>2, Joined
    <3> QED BY <1>6, <3>1, <3>3
  <2> QED BY <2>1, <2>2
\* What has been put together stays at its place.
<1> DEFINE Placed(j, i) == /\ end[j] <= Len(f[i])
                           /\ \A k \in 1..Len(seqs[j]) :
                                /\ end[j - 1] + k \in 1..Len(f[i])
                                /\ f[i][end[j - 1] + k] = seqs[j][k]
           Carried == {i \in 1..n : \A j \in 1..i : Placed(j, i)}
<1>8. 1 \in Carried
  <2>1. 1 \in 1..n /\ 1 - 1 = 0 /\ end[1] = Len(f[1]) /\ Len(f[1]) \in Nat
    BY <1>1, <1>5, <1>6
  <2>2. ASSUME NEW k \in 1..Len(seqs[1])
        PROVE  end[1 - 1] + k \in 1..Len(f[1]) /\ f[1][end[1 - 1] + k] = seqs[1][k]
    <3>1. end[1 - 1] + k = k
      BY <1>6, <2>1
    <3> QED BY <1>3, <3>1
  <2>3. Placed(1, 1)
    BY <2>1, <2>2
  <2>4. \A j \in 1..1 : j = 1
    OBVIOUS
  <2> HIDE DEF Placed
  <2> QED BY <2>1, <2>3, <2>4
<1>9. ASSUME NEW i \in 1..(n - 1), i \in Carried PROVE i + 1 \in Carried
  <2>1. i \in 1..n /\ i + 1 \in 1..n /\ f[i + 1] = f[i] \o seqs[i + 1] /\ (i + 1) - 1 = i
    <3>1. i \in 1..n /\ i + 1 \in 1..n /\ (i + 1) - 1 = i
      BY <1>1
    <3> QED BY <1>3, <3>1
  <2> DEFINE s == f[i]
             t == seqs[i + 1]
  <2>2. /\ s \in Seq(S) /\ t \in Seq(S) /\ f[i + 1] = s \o t
        /\ Len(s) \in Nat /\ Len(t) \in Nat
    BY <1>1, <1>5, <2>1
  <2>3. end[i] = Len(s) /\ end[i + 1] = Len(f[i + 1])
    BY <1>6, <2>1
  <2>4. s = f[i] /\ t = seqs[i + 1]
    OBVIOUS
  <2> HIDE DEF s, t
  <2>5. /\ Len(f[i + 1]) = Len(s) + Len(t)
        /\ \A k \in 1..Len(s) + Len(t) :
             f[i + 1][k] = IF k <= Len(s) THEN s[k] ELSE t[k - Len(s)]
    BY <2>2, ConcatProperties
  <2>6. ASSUME NEW j \in 1..i PROVE Placed(j, i + 1)
    <3>1. Placed(j, i)
      BY <1>9
    <3>2. ASSUME NEW k \in 1..Len(seqs[j])
          PROVE  /\ end[j - 1] + k \in 1..Len(f[i + 1])
                 /\ f[i + 1][end[j - 1] + k] = seqs[j][k]
      <4> DEFINE place == end[j - 1] + k
      <4>1. place \in 1..Len(s) /\ s[place] = seqs[j][k]
        BY <2>4, <3>1
      <4> HIDE DEF place
      <4>2. place \in 1..Len(s) + Len(t) /\ place <= Len(s)
        BY <2>2, <4>1
      <4>3. place \in 1..Len(f[i + 1]) /\ f[i + 1][place] = seqs[j][k]
        BY <2>5, <4>1, <4>2
      <4> QED BY <4>3 DEF place
    <3>3. end[j] <= Len(f[i + 1])
      <4>1. end[j] <= Len(s)
        BY <2>4, <3>1
      <4>2. end[j] \in Nat
        <5>1. j \in 0..n
          BY <1>1
        <5> QED BY <1>6, <5>1
      <4> QED BY <2>2, <2>5, <4>1, <4>2
    <3> QED BY <3>2, <3>3
  <2>7. Placed(i + 1, i + 1)
    <3>1. end[(i + 1) - 1] = Len(s)
      BY <2>1, <2>3
    <3>2. ASSUME NEW k \in 1..Len(t)
          PROVE  /\ Len(s) + k \in 1..Len(f[i + 1])
                 /\ f[i + 1][Len(s) + k] = t[k]
      <4>1. /\ Len(s) + k \in 1..Len(s) + Len(t)
            /\ ~ (Len(s) + k <= Len(s)) /\ (Len(s) + k) - Len(s) = k
        BY <2>2
      <4> QED BY <2>5, <4>1
    <3>3. end[i + 1] <= Len(f[i + 1])
      BY <2>2, <2>3, <2>5
    <3> QED BY <2>4, <3>1, <3>2, <3>3
  <2>8. \A j \in 1..(i + 1) : j \in 1..i \/ j = i + 1
    OBVIOUS
  <2> HIDE DEF Placed
  <2> QED BY <2>1, <2>6, <2>7, <2>8
<1>10. \A i \in 1..n : Placed(i, n)
  <2> HIDE DEF Carried, Placed
  <2>1. \A i \in 1..n : i \in Carried
    BY <1>1, <1>8, <1>9, StepByStep
  <2>2. n \in Carried
    BY <1>1, <2>1
  <2> QED BY <2>2 DEF Carried
<1>11. FlattenSeq(seqs) \in Seq(S) /\ Ends(seqs, FlattenSeq(seqs), end)
  <2>1. n \in 1..n
    BY <1>1
  <2> QED BY <1>0, <1>2, <1>5, <1>6, <1>7, <1>10, <2>1 DEF Ends
<1> QED BY <1>11

\* The characters that bytes stand for from each place on.
OfTwoBytes(bytes, i) ==
  bytes[i] \in 194..223 /\ i < Len(bytes) /\ bytes[i + 1] \in 128..191
TheTwoBytes(bytes, i) == 64 * (bytes[i] - 192) + bytes[i + 1] - 128
Unknown == <<65533>>
CharsThen(bytes, i, afterOne, afterTwo) ==
  IF i > Len(bytes) THEN <<>>
  ELSE IF bytes[i] < 128 THEN <<bytes[i]>> \o afterOne
  ELSE IF OfTwoBytes(bytes, i) THEN <<TheTwoBytes(bytes, i)>> \o afterTwo
  ELSE Unknown \o afterOne
CharsAt(bytes, g, i) == CharsThen(bytes, i, g[i + 1], g[i + 2])
CharsFrom(bytes, g) == g = [i \in Nat |-> CharsAt(bytes, g, i)]

\* They are defined from the last byte to the first.
LEMMA CharsFromExists ==
  ASSUME NEW bytes, Len(bytes) \in Nat
  PROVE  \E g : CharsFrom(bytes, g)
<1> DEFINE n == Len(bytes)
           From(place, g) == /\ g = [i \in Nat |-> g[i]]
                             /\ \A i \in Nat : i > place => g[i] = CharsAt(bytes, g, i)
           Defined == {m \in 1..(n + 2) : \E g : From(n + 1 - m, g)}
<1>0. n \in Nat
  OBVIOUS
<1>1. 1 \in Defined
  <2> DEFINE none == [i \in Nat |-> <<>>]
  <2>1. From(n, none)
    <3>1. \A i \in Nat : i > n => none[i] = CharsAt(bytes, none, i)
      BY DEF CharsAt, CharsThen
    <3> QED BY <3>1
  <2>2. 1 \in 1..(n + 2) /\ n + 1 - 1 = n
    BY <1>0
  <2> HIDE DEF From, none, n
  <2> QED BY <2>1, <2>2
<1>2. ASSUME NEW m \in 1..(n + 2 - 1), m \in Defined PROVE m + 1 \in Defined
  <2> DEFINE p == n + 1 - m
  <2>1. p \in Nat /\ n + 1 - (m + 1) = p - 1 /\ m + 1 \in 1..(n + 2) /\ p - 1 \in Int
    BY <1>0
  <2>2. PICK g : From(p, g)
    BY <1>2
  <2> HIDE DEF p
  <2> DEFINE h == [i \in Nat |-> IF i = p THEN CharsAt(bytes, g, p) ELSE g[i]]
  <2>3. \A i \in Nat : i > p => h[i] = g[i]
    BY <2>1
  <2>4. \A i \in Nat : i >= p => h[i + 1] = g[i + 1] /\ h[i + 2] = g[i + 2]
    <3>1. \A i \in Nat : i >= p => i + 1 \in Nat /\ i + 1 > p /\ i + 2 \in Nat /\ i + 2 > p
      BY <2>1
    <3> HIDE DEF h
    <3> QED BY <2>3, <3>1
  <2>5. h = [i \in Nat |-> h[i]] /\ h[p] = CharsAt(bytes, g, p)
    BY <2>1
  <2> HIDE DEF h
  <2>6. \A i \in Nat : i >= p => CharsAt(bytes, h, i) = CharsAt(bytes, g, i)
    <3>1. ASSUME NEW i \in Nat, i >= p
          PROVE  CharsAt(bytes, h, i) = CharsAt(bytes, g, i)
      <4>1. h[i + 1] = g[i + 1] /\ h[i + 2] = g[i + 2]
        BY <2>4, <3>1
      <4> QED BY <4>1, Zenon DEF CharsAt
    <3> QED BY <3>1
  <2>7. \A i \in Nat : i > p => g[i] = CharsAt(bytes, g, i)
    BY <2>2
  <2>8. From(p - 1, h)
    <3>1. ASSUME NEW i \in Nat, i > p - 1 PROVE h[i] = CharsAt(bytes, h, i)
      <4>1. CASE i = p
        <5>1. p >= p
          BY <2>1
        <5> QED BY <2>1, <2>5, <2>6, <4>1, <5>1
      <4>2. CASE i # p
        <5>1. i > p /\ i >= p
          BY <2>1, <3>1, <4>2
        <5> QED BY <2>3, <2>6, <2>7, <5>1
      <4> QED BY <4>1, <4>2
    <3> QED BY <2>5, <3>1
  <2> HIDE DEF From
  <2> QED BY <2>1, <2>8
<1>3. n + 2 \in Defined
  <2> DEFINE last == n + 2
  <2>1. last \in Nat /\ last \in 1..last
    BY <1>0
  <2>2. \A m \in 1..(last - 1) : m \in Defined => m + 1 \in Defined
    BY <1>2
  <2> HIDE DEF Defined, last
  <2>3. \A m \in 1..last : m \in Defined
    BY <1>1, <2>1, <2>2, StepByStep
  <2> QED BY <2>1, <2>3 DEF last
<1>4. PICK g : From(n + 1 - (n + 2), g)
  <2> HIDE DEF From
  <2> QED BY <1>3
<1>5. \A i \in Nat : i > n + 1 - (n + 2)
  BY <1>0
<1>6. g = [i \in Nat |-> g[i]] /\ \A i \in Nat : g[i] = CharsAt(bytes, g, i)
  BY <1>4, <1>5
<1>7. g = [i \in Nat |-> CharsAt(bytes, g, i)]
  <2>1. [i \in Nat |-> g[i]] = [i \in Nat |-> CharsAt(bytes, g, i)]
    BY <1>6, ZenonT(60)
  <2> QED BY <1>6, <2>1
<1> QED BY <1>7 DEF CharsFrom

\* A character is one byte, or two from which it can be computed.
LEMMA EncodedChar ==
  ASSUME NEW char \in Characters
  PROVE  /\ Utf8Char(char) \in Seq(Byte)
         /\ char < 128 => Utf8Char(char) = <<char>>
         /\ char >= 128 =>
              \E high \in 194..223, low \in 128..191 :
                Utf8Char(char) = <<high, low>> /\ 64 * (high - 192) + low - 128 = char
<1>1. char \in Nat /\ char < 2048
  BY DEF Characters
<1>2. ASSUME char < 128 PROVE Utf8Char(char) = <<char>> /\ Utf8Char(char) \in Seq(Byte)
  <2>1. Utf8Char(char) = <<char>> /\ char \in Byte
    BY <1>1, <1>2, AByte DEF Utf8Char
  <2> QED BY <2>1
<1> DEFINE high == 192 + char \div 64
           low == 128 + (char % 64)
<1>3. ASSUME char >= 128
      PROVE  /\ Utf8Char(char) = <<high, low>> /\ Utf8Char(char) \in Seq(Byte)
             /\ high \in 194..223 /\ low \in 128..191 /\ 64 * (high - 192) + low - 128 = char
  <2>1. high \in 194..223 /\ low \in 128..191 /\ 64 * (high - 192) + low - 128 = char
    BY <1>1, <1>3
  <2>2. Utf8Char(char) = <<high, low>>
    BY <1>1, <1>3 DEF Utf8Char
  <2> HIDE DEF high, low
  <2>3. high \in Byte /\ low \in Byte
    BY <2>1, AByte
  <2>4. <<high, low>> \in Seq(Byte)
    BY <2>3
  <2>5. Utf8Char(char) \in Seq(Byte)
    BY <2>2, <2>4
  <2> QED BY <2>1, <2>2, <2>5
<1> HIDE DEF high, low
<1>4. char >= 128 =>
        \E above \in 194..223, below \in 128..191 :
          Utf8Char(char) = <<above, below>> /\ 64 * (above - 192) + below - 128 = char
  BY <1>3, ZenonT(60)
<1>5. Utf8Char(char) \in Seq(Byte)
  <2>1. char < 128 \/ char >= 128
    BY <1>1
  <2> QED BY <1>2, <1>3, <2>1, Zenon
<1>6. char < 128 => Utf8Char(char) = <<char>>
  BY <1>2, Zenon
<1> QED BY <1>4, <1>5, <1>6, ZenonT(60)

\* The characters after the first i.
RestOf(s, i) == [k \in 1..(Len(s) - i) |-> s[i + k]]

\* The rest of a sequence from a place is its element and the rest from the next one.
LEMMA RestNext ==
  ASSUME NEW S, NEW s \in Seq(S), NEW i \in 1..Len(s)
  PROVE  <<s[i]>> \o RestOf(s, i) = RestOf(s, i - 1)
<1> DEFINE rest == RestOf(s, i)
           whole == <<s[i]>> \o rest
<1>1. rest \in Seq(S) /\ Len(rest) = Len(s) - i /\ \A k \in 1..(Len(s) - i) : rest[k] = s[i + k]
  BY DEF RestOf
<1>2. <<s[i]>> \in Seq(S) /\ Len(<<s[i]>>) = 1
  OBVIOUS
<1> HIDE DEF rest
<1>3. /\ whole \in Seq(S) /\ Len(whole) = 1 + (Len(s) - i)
      /\ \A k \in 1..(1 + (Len(s) - i)) :
           whole[k] = IF k <= 1 THEN <<s[i]>>[k] ELSE rest[k - 1]
  <2> DEFINE one == <<s[i]>>
  <2> HIDE DEF one
  <2>1. /\ one \o rest \in Seq(S) /\ Len(one \o rest) = Len(one) + Len(rest)
        /\ \A k \in 1..Len(one) + Len(rest) :
             (one \o rest)[k] = IF k <= Len(one) THEN one[k] ELSE rest[k - Len(one)]
    <3>1. one \in Seq(S)
      BY <1>2 DEF one
    <3> QED BY <1>1, <3>1, ConcatProperties, ZenonT(60)
  <2>2. Len(one) = 1
    BY <1>2 DEF one
  <2>3. /\ one \o rest \in Seq(S) /\ Len(one \o rest) = 1 + (Len(s) - i)
        /\ \A k \in 1..(1 + (Len(s) - i)) :
             (one \o rest)[k] = IF k <= 1 THEN one[k] ELSE rest[k - 1]
    BY ONLY <1>1, <2>1, <2>2
  <2> QED BY <2>3 DEF one, whole
<1> HIDE DEF whole
<1>4. ASSUME NEW k \in 1..(Len(s) - (i - 1)) PROVE whole[k] = s[i - 1 + k]
  <2>1. CASE k = 1
    BY <1>3, <2>1
  <2>2. CASE k # 1
    <3>1. k \in 1..(1 + (Len(s) - i)) /\ ~ (k <= 1) /\ k - 1 \in 1..(Len(s) - i)
          /\ i + (k - 1) = i - 1 + k
      BY <2>2
    <3> QED BY <1>1, <1>3, <3>1
  <2> QED BY <2>1, <2>2
<1>5. whole = [k \in 1..(Len(s) - (i - 1)) |-> whole[k]]
  <2>1. 1 + (Len(s) - i) = Len(s) - (i - 1)
    OBVIOUS
  <2> QED BY <1>3, <2>1
<1>6. whole = [k \in 1..(Len(s) - (i - 1)) |-> s[i - 1 + k]]
  BY <1>4, <1>5
<1> QED BY <1>6 DEF RestOf, whole, rest

\* Past the end nothing is read, and before it a character of one or of two bytes.
LEMMA NoChar ==
  ASSUME NEW bytes, NEW g, NEW i, i > Len(bytes)
  PROVE  CharsAt(bytes, g, i) = <<>>
  BY Zenon DEF CharsAt, CharsThen

\* The decoder at a byte that is a character.
LEMMA CharOfOne ==
  ASSUME NEW bytes, NEW g, NEW i, ~ (i > Len(bytes)), NEW char, bytes[i] = char, char < 128
  PROVE  CharsAt(bytes, g, i) = <<char>> \o g[i + 1]
  BY Zenon DEF CharsAt, CharsThen

\* The decoder at two bytes that are a character.
LEMMA CharOfTwo ==
  ASSUME NEW bytes, NEW g, NEW i, ~ (i > Len(bytes)), OfTwoBytes(bytes, i)
  PROVE  CharsAt(bytes, g, i) = <<TheTwoBytes(bytes, i)>> \o g[i + 2]
<1>1. ~ (bytes[i] < 128)
  <2>1. bytes[i] \in 194..223
    BY Zenon DEF OfTwoBytes
  <2>2. \A byte \in 194..223 : ~ (byte < 128)
    OBVIOUS
  <2> QED BY <2>1, <2>2
<1> QED BY <1>1, Zenon DEF CharsAt, CharsThen

\* What is true of a character.
LEMMA OfCharacters ==
  ASSUME NEW char \in Characters
  PROVE  char \in Nat /\ char < 2048
  BY DEF Characters

\* A string reads back as it was written (Utf8, FromUtf8).
LEMMA CharsReadBack ==
  ASSUME NEW s \in Seq(Characters)
  PROVE  Utf8(s) \in Seq(Byte) /\ FromUtf8(Utf8(s)) = s
<1> DEFINE n == Len(s)
           bytes == Utf8(s)
           encoded == [i \in 1..n |-> Utf8Char(s[i])]
           g == CHOOSE g : CharsFrom(bytes, g)
<1>1. n \in Nat /\ \A i \in 1..n : s[i] \in Characters
  OBVIOUS
<1>2. encoded \in Seq(Seq(Byte)) /\ Len(encoded) = n /\ bytes = FlattenSeq(encoded)
      /\ \A i \in 1..n : encoded[i] = Utf8Char(s[i])
  <2>1. \A i \in 1..n : Utf8Char(s[i]) \in Seq(Byte)
    BY <1>1, EncodedChar
  <2> QED BY <2>1 DEF Utf8
<1> HIDE DEF encoded
<1>3. bytes \in Seq(Byte) /\ Len(bytes) \in Nat
  <2>1. CASE n = 0
    <3>1. encoded = <<>>
      BY <1>2, <2>1
    <3>2. FlattenSeq(<<>>) = <<>>
      BY DEF FlattenSeq
    <3>3. bytes = <<>>
      BY <1>2, <3>1, <3>2
    <3> QED BY <3>3
  <2>2. CASE n # 0
    BY <1>2, <2>2, FlattenPlaces
  <2> QED BY <2>1, <2>2
<1>4. CharsFrom(bytes, g) /\ FromUtf8(bytes) = g[1]
  <2>1. CharsFrom(bytes, g)
    BY <1>3, CharsFromExists
  <2>2. FromUtf8(bytes) = g[1]
    BY DEF FromUtf8, CharsFrom, CharsAt, CharsThen, OfTwoBytes, TheTwoBytes, Unknown
  <2> QED BY <2>1, <2>2
<1> HIDE DEF g
<1>5. \A i \in Nat : g[i] = CharsAt(bytes, g, i)
  BY <1>4 DEF CharsFrom
<1> HIDE DEF bytes, n
<1>6. CASE n = 0
  <2>1. s = <<>> /\ bytes = <<>>
    <3>1. encoded = <<>> /\ s = <<>>
      BY <1>2, <1>6 DEF n
    <3> QED BY <1>2, <3>1 DEF FlattenSeq
  <2>2. g[1] = <<>>
    <3>1. Len(bytes) = 0
      BY <2>1
    <3>2. CharsAt(bytes, g, 1) = <<>>
      <4>1. 1 > Len(bytes)
        BY <3>1
      <4> QED BY <4>1, NoChar
    <3> QED BY <1>5, <3>2
  <2> QED BY <1>3, <1>4, <2>1, <2>2 DEF bytes
<1>7. CASE n # 0
  <2>0. \E end : Ends(encoded, FlattenSeq(encoded), end)
    <3>1. encoded \in Seq(Seq(Byte)) /\ Len(encoded) # 0
      BY <1>2, <1>7
    <3> QED BY <3>1, FlattenPlaces
  <2>10. Len(encoded) = n /\ FlattenSeq(encoded) = bytes
    BY <1>2
  <2>11. PICK end : Ends(encoded, bytes, end)
    BY <2>0, <2>10, Zenon
  <2>1. /\ end \in [0..n -> Nat] /\ end[0] = 0 /\ end[n] = Len(bytes)
        /\ \A i \in 1..n :
             /\ end[i] = end[i - 1] + Len(encoded[i]) /\ end[i] <= Len(bytes)
             /\ \A k \in 1..Len(encoded[i]) : bytes[end[i - 1] + k] = encoded[i][k]
    BY <2>10, <2>11 DEF Ends
  <2>2. ASSUME NEW i \in 1..n, g[end[i] + 1] = RestOf(s, i)
        PROVE  g[end[i - 1] + 1] = RestOf(s, i - 1)
    <3> DEFINE at == end[i - 1] + 1
    <3>1. s[i] \in Characters /\ s[i] \in Nat /\ encoded[i] = Utf8Char(s[i])
      <4>1. s[i] \in Characters /\ encoded[i] = Utf8Char(s[i])
        BY <1>1, <1>2
      <4> QED BY <4>1, OfCharacters
    <3>0. /\ end[i] = end[i - 1] + Len(encoded[i])
          /\ \A k \in 1..Len(encoded[i]) : bytes[end[i - 1] + k] = encoded[i][k]
      BY <2>1
    <3>2. at \in Nat /\ end[i - 1] \in Nat /\ end[i] \in Nat /\ end[i] <= Len(bytes)
      <4>1. i - 1 \in 0..n /\ i \in 0..n
        BY <1>1
      <4> QED BY <2>1, <4>1
    <3>3. g[at] = <<s[i]>> \o g[end[i] + 1]
      <4>1. CASE s[i] < 128
        <5>1. encoded[i] = <<s[i]>> /\ Len(encoded[i]) = 1
          BY <3>1, <4>1, EncodedChar
        <5>2. end[i] = at /\ bytes[at] = s[i]
          <6>1. encoded[i][1] = s[i] /\ 1 \in 1..Len(encoded[i])
            BY <5>1
          <6> QED BY <3>0, <5>1, <6>1
        <5>3. CharsAt(bytes, g, at) = <<s[i]>> \o g[at + 1]
          <6>1. ~ (at > Len(bytes))
            BY <1>3, <3>2, <5>2
          <6> HIDE DEF at
          <6> QED BY <4>1, <5>2, <6>1, CharOfOne, SMTT(30)
        <5> QED BY <1>5, <3>2, <5>2, <5>3
      <4>2. CASE s[i] >= 128
        <5>1. PICK high \in 194..223, low \in 128..191 :
                encoded[i] = <<high, low>> /\ 64 * (high - 192) + low - 128 = s[i]
          <6>1. \E high \in 194..223, low \in 128..191 :
                  Utf8Char(s[i]) = <<high, low>> /\ 64 * (high - 192) + low - 128 = s[i]
            BY <3>1, <4>2, EncodedChar
          <6> QED BY <3>1, <6>1, ZenonT(60)
        <5>2. Len(encoded[i]) = 2 /\ encoded[i][1] = high /\ encoded[i][2] = low
          BY <5>1
        <5>3. end[i] = at + 1 /\ bytes[at] = high /\ bytes[at + 1] = low
          <6>1. /\ end[i] = end[i - 1] + 2
                /\ bytes[end[i - 1] + 1] = high /\ bytes[end[i - 1] + 2] = low
            <7>1. 1 \in 1..Len(encoded[i]) /\ 2 \in 1..Len(encoded[i])
              BY <5>2
            <7> QED BY <3>0, <5>2, <7>1
          <6>2. end[i - 1] + 2 = at + 1
            BY <3>2
          <6> QED BY <6>1, <6>2
        <5>4. CharsAt(bytes, g, at) = <<s[i]>> \o g[at + 2]
          <6>1. ~ (at > Len(bytes)) /\ at < Len(bytes)
            BY <1>3, <3>2, <5>3, SMTT(40)
          <6>2. OfTwoBytes(bytes, at) /\ TheTwoBytes(bytes, at) = s[i]
            BY <5>1, <5>3, <6>1 DEF OfTwoBytes, TheTwoBytes
          <6>3. CharsAt(bytes, g, at) = <<TheTwoBytes(bytes, at)>> \o g[at + 2]
            <7> HIDE DEF at
            <7> QED BY <6>1, <6>2, CharOfTwo
          <6> QED BY <6>2, <6>3
        <5>5. at + 2 = end[i] + 1
          BY <3>2, <5>3
        <5> QED BY <1>5, <3>2, <5>4, <5>5
      <4> QED BY <3>1, <4>1, <4>2
    <3>4. <<s[i]>> \o RestOf(s, i) = RestOf(s, i - 1)
      BY RestNext DEF n
    <3> QED BY <2>2, <3>3, <3>4
  <2> DEFINE Rests == {j \in 1..(n + 1) : g[end[n + 1 - j] + 1] = RestOf(s, n + 1 - j)}
             last == n + 1
  <2>3. 1 \in Rests
    <3>1. RestOf(s, n) = <<>>
      BY <1>1 DEF RestOf, n
    <3>2. g[end[n] + 1] = <<>>
      <4>1. end[n] + 1 \in Nat /\ end[n] + 1 > Len(bytes)
        BY <1>3, <2>1
      <4>2. CharsAt(bytes, g, end[n] + 1) = <<>>
        BY <4>1, NoChar
      <4> QED BY <1>5, <4>1, <4>2
    <3>3. n + 1 - 1 = n /\ 1 \in 1..(n + 1)
      BY <1>1
    <3> QED BY <3>1, <3>2, <3>3
  <2>4. ASSUME NEW j \in 1..(last - 1), j \in Rests PROVE j + 1 \in Rests
    <3>1. /\ n + 1 - j \in 1..n /\ n + 1 - (j + 1) = (n + 1 - j) - 1
          /\ j + 1 \in 1..(n + 1)
      BY <1>1
    <3>2. g[end[n + 1 - j] + 1] = RestOf(s, n + 1 - j)
      BY <2>4
    <3>3. g[end[(n + 1 - j) - 1] + 1] = RestOf(s, (n + 1 - j) - 1)
      BY <2>2, <3>1, <3>2
    <3> QED BY <3>1, <3>3
  <2>5. last \in Nat /\ last \in 1..last
    BY <1>1
  <2> HIDE DEF last
  <2>6. \A j \in 1..last : j \in Rests
    <3> HIDE DEF Rests
    <3> QED BY <2>3, <2>4, <2>5, StepByStep
  <2>7. g[end[0] + 1] = RestOf(s, 0)
    <3>1. last \in Rests /\ n + 1 - last = 0
      BY <1>1, <2>5, <2>6, SMTT(30) DEF last
    <3> QED BY <3>1
  <2>8. RestOf(s, 0) = s
    BY DEF RestOf
  <2>9. g[1] = s
    BY <2>1, <2>7, <2>8
  <2> QED BY <1>3, <1>4, <2>9 DEF bytes
<1> QED BY <1>6, <1>7

\* What is true of a length.
LEMMA OfLengths ==
  ASSUME NEW n \in Lengths
  PROVE  n \in Nat /\ n < 65536
  BY SMTT(30) DEF Lengths

\* A length is two bytes, and reads back.
LEMMA TwoBytesSized ==
  ASSUME NEW n \in Lengths
  PROVE  UInt16(n) \in Seq(Byte) /\ Len(UInt16(n)) = 2
<1>1. n \in Nat /\ n < 65536
  BY OfLengths
<1>2. n \div 256 \in Int /\ 0 <= n \div 256 /\ n \div 256 < 256
  BY <1>1
<1>3. n % 256 \in Int /\ 0 <= n % 256 /\ n % 256 < 256
  BY <1>1
<1>4. n \div 256 \in Byte /\ (n % 256) \in Byte
  BY <1>2, <1>3, AByte
<1> QED BY <1>4 DEF UInt16

\* A length that is written is read.
LEMMA LengthAt ==
  ASSUME NEW n \in Lengths, NEW buffer, NEW at \in Nat, Written(buffer, at, UInt16(n))
  PROVE  UInt16At(buffer, at) = n
<1>1. n \in Nat /\ n < 65536
  BY OfLengths
<1> QED BY <1>1, LengthsReadBack

\* The part of a buffer in which bytes are written is these bytes.
LEMMA WrittenPart ==
  ASSUME NEW buffer, NEW at \in Nat, NEW bytes \in Seq(Byte), Written(buffer, at, bytes),
         NEW to, to = at + Len(bytes) - 1
  PROVE  SubSeq(buffer, at, to) = bytes
<1> DEFINE n == Len(bytes)
<1>1. n \in Nat /\ 1 + to - at = n /\ DOMAIN bytes = 1..n
  OBVIOUS
<1>2. \A k \in 1..n : buffer[at + k - 1] = bytes[k]
  BY <1>1 DEF Written
<1>3. SubSeq(buffer, at, to) = [k \in 1..(1 + to - at) |-> buffer[k + at - 1]]
  BY DEF SubSeq
<1>4. \A k \in 1..n : k + at - 1 = at + k - 1
  OBVIOUS
<1>5. bytes = [k \in 1..n |-> bytes[k]]
  BY <1>1
<1>6. SubSeq(buffer, at, to) = [k \in 1..n |-> buffer[k + at - 1]]
  BY <1>1, <1>3
<1>7. \A k \in 1..n : buffer[k + at - 1] = bytes[k]
  <2> TAKE k \in 1..n
  <2>1. k + at - 1 = at + k - 1
    BY <1>4
  <2>2. buffer[at + k - 1] = bytes[k]
    BY <1>2
  <2> QED BY <2>1, <2>2
<1> HIDE DEF n
<1>8. [k \in 1..n |-> buffer[k + at - 1]] = [k \in 1..n |-> bytes[k]]
  BY <1>7
<1> QED BY <1>5, <1>6, <1>8

\* What is written last is the rest of the buffer.
LEMMA WrittenToEnd ==
  ASSUME NEW buffer, NEW at, NEW bytes, at \in Nat, bytes \in Seq(Byte),
         Written(buffer, at, bytes), Len(buffer) = at + Len(bytes) - 1
  PROVE  SubSeq(buffer, at, Len(buffer)) = bytes
<1> DEFINE to == Len(buffer)
<1>1. to = at + Len(bytes) - 1
  OBVIOUS
<1> HIDE DEF to
<1>2. SubSeq(buffer, at, to) = bytes
  BY <1>1, WrittenPart
<1> QED BY <1>2 DEF to

\* A string of UTF-8 reads back at its place of a buffer as it was written, with its
\* length in bytes (Sized and Utf8, FromUtf8).
THEOREM StringsReadBack ==
  ASSUME NEW s \in Seq(Characters), NEW bytes, bytes = Utf8(s), Len(bytes) \in Lengths,
         NEW buffer, NEW at \in Nat, Written(buffer, at, Sized(bytes)),
         NEW length, length = UInt16At(buffer, at)
  PROVE  length = Len(bytes) /\ FromUtf8(SubSeq(buffer, at + 2, at + 2 + length - 1)) = s
<1> DEFINE prefix == UInt16(Len(bytes))
<1>1. bytes \in Seq(Byte) /\ FromUtf8(bytes) = s
  BY CharsReadBack
<1>2. prefix \in Seq(Byte) /\ Len(prefix) = 2
  BY TwoBytesSized, Zenon
<1>3. Written(buffer, at, prefix \o bytes)
  BY DEF Sized
<1> HIDE DEF prefix
<1>4. Written(buffer, at, prefix) /\ Written(buffer, at + Len(prefix), bytes)
  BY <1>1, <1>2, <1>3, WrittenParts, Zenon
<1>5. Written(buffer, at + 2, bytes)
  BY <1>2, <1>4
<1>6. UInt16At(buffer, at) = Len(bytes)
  BY <1>4, LengthAt, Zenon DEF prefix
<1>7. SubSeq(buffer, at + 2, at + 2 + Len(bytes) - 1) = bytes
  <2>1. at + 2 \in Nat
    OBVIOUS
  <2> QED BY <1>1, <1>5, <2>1, WrittenPart, SMTT(30)
<1>8. length = Len(bytes)
  BY <1>6
<1>9. FromUtf8(SubSeq(buffer, at + 2, at + 2 + length - 1)) = s
  BY <1>1, <1>7, <1>8, Zenon
<1> QED BY <1>8, <1>9

-----------------------------------------------------------------------------
(* The words and the tables *)

\* The words, and the place of each that a request of the agent uses.
LEMMA WordsKnown ==
  /\ DOMAIN Words = 1..49
  /\ Words[1] = "attributes-charset" /\ Words[2] = "attributes-natural-language"
  /\ Words[3] = "printer-uri" /\ Words[4] = "job-id" /\ Words[5] = "job-uri"
  /\ Words[6] = "requesting-user-name" /\ Words[7] = "which-jobs"
  /\ Words[8] = "requested-attributes" /\ Words[9] = "notify-subscription-ids"
  /\ Words[10] = "notify-subscription-id" /\ Words[11] = "notify-sequence-numbers"
  /\ Words[12] = "notify-wait" /\ Words[13] = "notify-pull-method"
  /\ Words[14] = "notify-events" /\ Words[15] = "notify-lease-duration"
  /\ Words[16] = "status-message" /\ Words[17] = "job-state"
  /\ Words[18] = "job-state-reasons" /\ Words[19] = "job-media-sheets-completed"
  /\ Words[20] = "job-impressions-completed" /\ Words[24] = "copies"
  /\ Words[25] = "job-hold-until-time" /\ Words[26] = "printer-resolution"
  /\ Words[31] = "media-col-database"
  /\ Words[32] = "utf-8" /\ Words[33] = "en" /\ Words[34] = "ipp://queue"
  /\ Words[35] = "agent" /\ Words[36] = "all" /\ Words[37] = "none" /\ Words[38] = "ippget"
  /\ Words[39] = "dpi" /\ Words[40] = "dpcm" /\ Words[41] = "printer-state-changed"
  /\ Words[42] = "job-state-changed" /\ Words[44] = "pending" /\ Words[45] = "processing"
  /\ Words[46] = "canceled" /\ Words[47] = "aborted" /\ Words[48] = "completed"
BY DEF Words

\* Each is spelled with one character of its own.
LEMMA Spelled ==
  ASSUME NEW word \in DOMAIN Spelling
  PROVE  \E i \in 1..49 : W(word) = <<32 + i>> /\ Words[i] = word
<1>1. DOMAIN Words = 1..49
  BY WordsKnown
<1>2. word \in {Words[i] : i \in DOMAIN Words}
  BY DEF Spelling
<1> DEFINE at == CHOOSE i \in DOMAIN Words : Words[i] = word
<1>3. at \in 1..49 /\ Words[at] = word
  BY <1>1, <1>2
<1>4. W(word) = <<32 + at>>
  BY <1>2 DEF Spelling, W
<1> QED BY <1>3, <1>4

\* Two words are not spelled alike.
LEMMA SpelledApart ==
  ASSUME NEW one \in DOMAIN Spelling, NEW other \in DOMAIN Spelling, W(one) = W(other)
  PROVE  one = other
<1>1. PICK i \in 1..49 : W(one) = <<32 + i>> /\ Words[i] = one
  BY Spelled
<1>2. PICK j \in 1..49 : W(other) = <<32 + j>> /\ Words[j] = other
  BY Spelled
<1>3. i = j
  <2>1. <<32 + i>>[1] = 32 + i /\ <<32 + j>>[1] = 32 + j
    OBVIOUS
  <2>2. 32 + i = 32 + j
    BY <1>1, <1>2, <2>1, Zenon
  <2> QED BY <2>2
<1> QED BY <1>1, <1>2, <1>3

\* A spelling is that of its word alone.
LEMMA UnspelledOne ==
  ASSUME NEW word \in DOMAIN Spelling
  PROVE  Unspelled(W(word)) = {word}
BY SpelledApart DEF Unspelled, W

\* What a table or a request of the agent names is one of the words.
LEMMA AllSpelled ==
  {"attributes-charset", "attributes-natural-language", "printer-uri", "job-id", "job-uri",
   "requesting-user-name", "which-jobs", "requested-attributes", "notify-subscription-ids",
   "notify-subscription-id", "notify-sequence-numbers", "notify-wait", "notify-pull-method",
   "notify-events", "notify-lease-duration", "status-message", "job-state",
   "job-state-reasons", "job-media-sheets-completed", "job-impressions-completed", "copies",
   "job-hold-until-time", "printer-resolution", "media-col-database", "utf-8", "en",
   "ipp://queue", "agent", "all", "none", "ippget", "dpi", "dpcm", "printer-state-changed",
   "job-state-changed", "pending", "processing", "canceled", "aborted", "completed"}
  \subseteq DOMAIN Spelling
<1>1. \A i \in 1..49 : Words[i] \in DOMAIN Spelling
  BY WordsKnown DEF Spelling
<1> QED BY <1>1, WordsKnown

\* The spelling of a word is ASCII.
LEMMA SpelledInAscii ==
  ASSUME NEW word \in DOMAIN Spelling
  PROVE  W(word) \in Seq(33..126) /\ Len(W(word)) = 1
<1>1. PICK i \in 1..49 : W(word) = <<32 + i>>
  BY Spelled
<1>2. 32 + i \in 33..126
  OBVIOUS
<1> QED BY <1>1, <1>2

\* The table of the tags of groups (tables.ts).
LEMMA GroupTagsKnown ==
  /\ DOMAIN GroupTags = {"operation-attributes-tag", "job-attributes-tag",
                         "end-of-attributes-tag", "printer-attributes-tag",
                         "unsupported-attributes-tag", "subscription-attributes-tag",
                         "event-notification-attributes-tag"}
  /\ GroupTags["operation-attributes-tag"] = 1 /\ GroupTags["job-attributes-tag"] = 2
  /\ GroupTags["end-of-attributes-tag"] = 3
  /\ GroupTags["printer-attributes-tag"] = 4 /\ GroupTags["unsupported-attributes-tag"] = 5
  /\ GroupTags["subscription-attributes-tag"] = 6
  /\ GroupTags["event-notification-attributes-tag"] = 7
<1>1. DOMAIN GroupTags = {"operation-attributes-tag", "job-attributes-tag",
                          "end-of-attributes-tag", "printer-attributes-tag",
                          "unsupported-attributes-tag", "subscription-attributes-tag",
                          "event-notification-attributes-tag"}
  BY DEF GroupTags, Table
<1>2. QED BY <1>1 DEF GroupTags, Table

\* The table of the tags of values (tables.ts).
LEMMA ValueTagsKnown ==
  /\ DOMAIN ValueTags = {"unsupported", "unknown", "no-value", "integer", "boolean", "enum",
                         "octetString", "dateTime", "resolution", "rangeOfInteger",
                         "begCollection", "textWithLanguage", "nameWithLanguage", "endCollection",
                         "textWithoutLanguage", "nameWithoutLanguage", "keyword", "uri",
                         "charset", "naturalLanguage", "memberAttrName"}
  /\ ValueTags["unsupported"] = 16 /\ ValueTags["unknown"] = 18 /\ ValueTags["no-value"] = 19
  /\ ValueTags["integer"] = 33 /\ ValueTags["boolean"] = 34 /\ ValueTags["enum"] = 35
  /\ ValueTags["octetString"] = 48 /\ ValueTags["dateTime"] = 49 /\ ValueTags["resolution"] = 50
  /\ ValueTags["rangeOfInteger"] = 51 /\ ValueTags["begCollection"] = 52
  /\ ValueTags["textWithLanguage"] = 53
  /\ ValueTags["nameWithLanguage"] = 54 /\ ValueTags["endCollection"] = 55
  /\ ValueTags["textWithoutLanguage"] = 65
  /\ ValueTags["nameWithoutLanguage"] = 66 /\ ValueTags["keyword"] = 68 /\ ValueTags["uri"] = 69
  /\ ValueTags["charset"] = 71 /\ ValueTags["naturalLanguage"] = 72 /\ ValueTags["memberAttrName"] = 74
<1>1. DOMAIN ValueTags = {"unsupported", "unknown", "no-value", "integer", "boolean", "enum",
                          "octetString", "dateTime", "resolution", "rangeOfInteger",
                          "begCollection", "textWithLanguage", "nameWithLanguage",
                          "endCollection", "textWithoutLanguage", "nameWithoutLanguage",
                          "keyword", "uri", "charset", "naturalLanguage", "memberAttrName"}
  BY DEF ValueTags, Table
<1>2. QED BY <1>1 DEF ValueTags, Table

\* Both tables together: no tag is in both.
LEMMA TagsKnown ==
  /\ \A tag \in DOMAIN GroupTags : ippTags[tag] = GroupTags[tag]
  /\ \A tag \in DOMAIN ValueTags : ippTags[tag] = ValueTags[tag]
<1>1. DOMAIN GroupTags \cap DOMAIN ValueTags = {}
  BY GroupTagsKnown, ValueTagsKnown
<1> QED BY <1>1 DEF ippTags

\* A code of a value is that of one tag.
LEMMA ValueTagsApart ==
  /\ \A tag \in DOMAIN ValueTags : NamesOf(ValueTags, ValueTags[tag]) = {tag}
  /\ \A tag \in DOMAIN ValueTags : ValueTags[tag] \in 16..74
<1> QED BY ValueTagsKnown DEF NamesOf

\* A code of a group is that of one tag, below those of the values.
LEMMA GroupTagsApart ==
  /\ \A tag \in DOMAIN GroupTags : NamesOf(GroupTags, GroupTags[tag]) = {tag}
  /\ \A tag \in DOMAIN GroupTags : GroupTags[tag] \in 1..7
<1> QED BY GroupTagsKnown DEF NamesOf

\* The syntaxes of the attributes, group by group (tables.ts).
LEMMA SyntaxTables ==
  /\ DOMAIN groupAttributeSyntax =
       {"operation-attributes-tag", "job-attributes-tag", "printer-attributes-tag",
        "subscription-attributes-tag"}
  /\ groupAttributeSyntax["operation-attributes-tag"] = 
      Table({<<"attributes-charset", "charset">>, <<"attributes-natural-language", "naturalLanguage">>,
             <<"printer-uri", "uri">>, <<"job-uri", "uri">>, <<"job-id", "integer">>,
             <<"requesting-user-name", "name">>, <<"which-jobs", "keyword">>,
             <<"requested-attributes", "keyword">>, <<"notify-subscription-id", "integer">>,
             <<"notify-subscription-ids", "integer">>, <<"notify-sequence-numbers", "integer">>,
             <<"notify-wait", "boolean">>, <<"status-message", "text">>})
  /\ groupAttributeSyntax["job-attributes-tag"] =
      Table({<<"copies", "integer">>, <<"job-id", "integer">>, <<"job-state", "enum">>,
             <<"job-state-reasons", "keyword">>, <<"job-hold-until-time", "dateTime">>,
             <<"printer-resolution", "resolution">>})
  /\ groupAttributeSyntax["printer-attributes-tag"] = Table({<<"media-col-database", "octetString">>})
  /\ groupAttributeSyntax["subscription-attributes-tag"] =
      Table({<<"notify-pull-method", "keyword">>, <<"notify-events", "keyword">>,
             <<"notify-lease-duration", "integer">>, <<"notify-subscription-id", "integer">>})
<1> DEFINE operation == Table({<<"attributes-charset", "charset">>,
                               <<"attributes-natural-language", "naturalLanguage">>,
             <<"printer-uri", "uri">>, <<"job-uri", "uri">>, <<"job-id", "integer">>,
             <<"requesting-user-name", "name">>, <<"which-jobs", "keyword">>,
             <<"requested-attributes", "keyword">>, <<"notify-subscription-id", "integer">>,
             <<"notify-subscription-ids", "integer">>, <<"notify-sequence-numbers", "integer">>,
             <<"notify-wait", "boolean">>, <<"status-message", "text">>})
           job == Table({<<"copies", "integer">>, <<"job-id", "integer">>, <<"job-state", "enum">>,
             <<"job-state-reasons", "keyword">>, <<"job-hold-until-time", "dateTime">>,
             <<"printer-resolution", "resolution">>})
           printer == Table({<<"media-col-database", "octetString">>})
           subscribed == Table({<<"notify-pull-method", "keyword">>, <<"notify-events", "keyword">>,
             <<"notify-lease-duration", "integer">>, <<"notify-subscription-id", "integer">>})
<1>1. groupAttributeSyntax =
        Table({<<"operation-attributes-tag", operation>>, <<"job-attributes-tag", job>>,
               <<"printer-attributes-tag", printer>>, <<"subscription-attributes-tag", subscribed>>})
  BY DEF groupAttributeSyntax
<1> HIDE DEF operation, job, printer, subscribed
<1>2. /\ DOMAIN groupAttributeSyntax =
           {"operation-attributes-tag", "job-attributes-tag", "printer-attributes-tag",
            "subscription-attributes-tag"}
      /\ groupAttributeSyntax["operation-attributes-tag"] = operation
      /\ groupAttributeSyntax["job-attributes-tag"] = job
      /\ groupAttributeSyntax["printer-attributes-tag"] = printer
      /\ groupAttributeSyntax["subscription-attributes-tag"] = subscribed
  BY <1>1 DEF Table
<1> QED BY <1>2 DEF operation, job, printer, subscribed

\* The syntaxes of the operation attributes, one by one.
LEMMA OperationSyntax ==
  LET syntax == groupAttributeSyntax["operation-attributes-tag"]
  IN /\ DOMAIN syntax = {"attributes-charset", "attributes-natural-language", "printer-uri",
          "job-uri", "job-id", "requesting-user-name", "which-jobs", "requested-attributes",
          "notify-subscription-id", "notify-subscription-ids", "notify-sequence-numbers",
          "notify-wait", "status-message"}
     /\ syntax["attributes-charset"] = "charset"
     /\ syntax["attributes-natural-language"] = "naturalLanguage"
     /\ syntax["printer-uri"] = "uri" /\ syntax["job-uri"] = "uri"
     /\ syntax["job-id"] = "integer" /\ syntax["requesting-user-name"] = "name"
     /\ syntax["which-jobs"] = "keyword" /\ syntax["requested-attributes"] = "keyword"
     /\ syntax["notify-subscription-id"] = "integer"
     /\ syntax["notify-subscription-ids"] = "integer"
     /\ syntax["notify-sequence-numbers"] = "integer"
     /\ syntax["notify-wait"] = "boolean" /\ syntax["status-message"] = "text"
  BY SyntaxTables DEF Table

\* The syntaxes of the job attributes, one by one.
LEMMA JobSyntax ==
  LET syntax == groupAttributeSyntax["job-attributes-tag"]
  IN /\ DOMAIN syntax = {"copies", "job-id", "job-state", "job-state-reasons",
                         "job-hold-until-time", "printer-resolution"}
     /\ syntax["copies"] = "integer" /\ syntax["job-id"] = "integer"
     /\ syntax["job-state"] = "enum" /\ syntax["job-state-reasons"] = "keyword"
     /\ syntax["job-hold-until-time"] = "dateTime"
     /\ syntax["printer-resolution"] = "resolution"
  BY SyntaxTables DEF Table

\* The syntaxes of the printer and the subscription attributes, one by one.
LEMMA OtherSyntax ==
  /\ DOMAIN groupAttributeSyntax["printer-attributes-tag"] = {"media-col-database"}
  /\ groupAttributeSyntax["printer-attributes-tag"]["media-col-database"] = "octetString"
  /\ LET syntax == groupAttributeSyntax["subscription-attributes-tag"]
     IN /\ DOMAIN syntax = {"notify-pull-method", "notify-events", "notify-lease-duration",
                            "notify-subscription-id"}
        /\ syntax["notify-pull-method"] = "keyword" /\ syntax["notify-events"] = "keyword"
        /\ syntax["notify-lease-duration"] = "integer"
        /\ syntax["notify-subscription-id"] = "integer"
  BY SyntaxTables DEF Table

Syntaxes == {"integer", "boolean", "enum", "keyword", "uri", "charset", "naturalLanguage",
             "name", "text", "octetString", "resolution", "dateTime"}

\* An attribute of a table has a syntax the writer knows, and a spelling.
LEMMA SyntaxKnown ==
  ASSUME NEW group \in DOMAIN groupAttributeSyntax, NEW word \in DOMAIN groupAttributeSyntax[group]
  PROVE  /\ groupAttributeSyntax[group][word] \in Syntaxes
         /\ groupAttributeSyntax[group][word] = "enum" => word = "job-state"
         /\ word \in DOMAIN Spelling
  BY SyntaxTables, OperationSyntax, JobSyntax, OtherSyntax, AllSpelled DEF Syntaxes

-----------------------------------------------------------------------------
(* Values read back *)

\* A value written as these bytes is read as this value, wherever it is.
ReadsAs(bytes, tag, name, value) ==
  /\ bytes \in Seq(Byte) /\ Len(bytes) >= 2
  /\ \A buffer \in Seq(Byte), at \in Nat \ {0} : \A collection :
       Written(buffer, at, bytes) =>
         readValue(buffer, collection, at, ippTags[tag], name) =
           [ok |-> TRUE, value |-> value, next |-> at + Len(bytes)]

\* The reader finds a tag by its code.
LEMMA TagFound ==
  ASSUME NEW tag \in DOMAIN ValueTags
  PROVE  (CHOOSE t \in NamesOf(ValueTags, ippTags[tag]) \cup {"other"} :
            NamesOf(ValueTags, ippTags[tag]) # {} => t # "other") = tag
<1>1. NamesOf(ValueTags, ippTags[tag]) = {tag}
  BY ValueTagsApart, TagsKnown
<1>2. tag # "other"
  BY ValueTagsKnown
<1> QED BY <1>1, <1>2

\* The reader at an integer.
LEMMA IntegerTagged ==
  ASSUME NEW buffer, NEW collection, NEW at \in Nat, NEW name, Fits(buffer, at, 2)
  PROVE  readValue(buffer, collection, at, ippTags["integer"], name) =
           Read(buffer, at + 2, 4, Num(Int32At(buffer, at + 2)))
<1> DEFINE tag == CHOOSE t \in NamesOf(ValueTags, ippTags["integer"]) \cup {"other"} :
                    NamesOf(ValueTags, ippTags["integer"]) # {} => t # "other"
<1>1. tag = "integer"
  BY ValueTagsKnown, TagFound
<1> QED BY <1>1 DEF readValue, AsciiTags

\* The reader at an enum.
LEMMA EnumTagged ==
  ASSUME NEW buffer, NEW collection, NEW at \in Nat, NEW name, Fits(buffer, at, 2)
  PROVE  readValue(buffer, collection, at, ippTags["enum"], name) =
           Read(buffer, at + 2, 4, decodeEnum(name, Int32At(buffer, at + 2)))
<1> DEFINE tag == CHOOSE t \in NamesOf(ValueTags, ippTags["enum"]) \cup {"other"} :
                    NamesOf(ValueTags, ippTags["enum"]) # {} => t # "other"
<1>1. tag = "enum"
  BY ValueTagsKnown, TagFound
<1> QED BY <1>1 DEF readValue, AsciiTags

\* The reader at a boolean.
LEMMA BooleanTagged ==
  ASSUME NEW buffer, NEW collection, NEW at \in Nat, NEW name, Fits(buffer, at, 2)
  PROVE  readValue(buffer, collection, at, ippTags["boolean"], name) =
           Read(buffer, at + 2, 1, Bool(buffer[at + 2] # 0))
<1> DEFINE tag == CHOOSE t \in NamesOf(ValueTags, ippTags["boolean"]) \cup {"other"} :
                    NamesOf(ValueTags, ippTags["boolean"]) # {} => t # "other"
<1>1. tag = "boolean"
  BY ValueTagsKnown, TagFound
<1> QED BY <1>1 DEF readValue, AsciiTags

\* The reader at a resolution.
LEMMA ResolutionTagged ==
  ASSUME NEW buffer, NEW collection, NEW at \in Nat, NEW name, Fits(buffer, at, 2)
  PROVE  readValue(buffer, collection, at, ippTags["resolution"], name) =
           Read(buffer, at + 2, 9, resolutionAt(buffer, at + 2))
<1> DEFINE tag == CHOOSE t \in NamesOf(ValueTags, ippTags["resolution"]) \cup {"other"} :
                    NamesOf(ValueTags, ippTags["resolution"]) # {} => t # "other"
<1>1. tag = "resolution"
  BY ValueTagsKnown, TagFound
<1> QED BY <1>1 DEF readValue, AsciiTags

\* The reader at a date.
LEMMA DateTagged ==
  ASSUME NEW buffer, NEW collection, NEW at \in Nat, NEW name, Fits(buffer, at, 2)
  PROVE  readValue(buffer, collection, at, ippTags["dateTime"], name) =
           Read(buffer, at + 2, 11, dateTimeAt(buffer, at + 2))
<1> DEFINE tag == CHOOSE t \in NamesOf(ValueTags, ippTags["dateTime"]) \cup {"other"} :
                    NamesOf(ValueTags, ippTags["dateTime"]) # {} => t # "other"
<1>1. tag = "dateTime"
  BY ValueTagsKnown, TagFound
<1> QED BY <1>1 DEF readValue, AsciiTags

\* The reader at a text of ASCII.
LEMMA AsciiTagged ==
  ASSUME NEW buffer, NEW collection, NEW at \in Nat, NEW name, Fits(buffer, at, 2),
         NEW written \in AsciiTags
  PROVE  readValue(buffer, collection, at, ippTags[written], name) =
           Read(buffer, at + 2, UInt16At(buffer, at),
                Str(FromAscii(Slice(buffer, at + 2, UInt16At(buffer, at)))))
<1> DEFINE tag == CHOOSE t \in NamesOf(ValueTags, ippTags[written]) \cup {"other"} :
                    NamesOf(ValueTags, ippTags[written]) # {} => t # "other"
<1>1. written \in DOMAIN ValueTags
  BY ValueTagsKnown DEF AsciiTags, TextTags
<1>2. tag = written
  BY <1>1, TagFound, Zenon
<1> QED BY <1>2 DEF readValue, AsciiTags, TextTags

\* The reader at a text of UTF-8.
LEMMA TextTagged ==
  ASSUME NEW buffer, NEW collection, NEW at \in Nat, NEW name, Fits(buffer, at, 2),
         NEW written \in TextTags \ {"memberAttrName"}
  PROVE  readValue(buffer, collection, at, ippTags[written], name) =
           Read(buffer, at + 2, UInt16At(buffer, at),
                Str(FromUtf8(Slice(buffer, at + 2, UInt16At(buffer, at)))))
<1> DEFINE tag == CHOOSE t \in NamesOf(ValueTags, ippTags[written]) \cup {"other"} :
                    NamesOf(ValueTags, ippTags[written]) # {} => t # "other"
<1>1. written \in DOMAIN ValueTags
  BY ValueTagsKnown DEF AsciiTags, TextTags
<1>2. tag = written
  BY <1>1, TagFound, Zenon
<1> QED BY <1>2 DEF readValue, AsciiTags, TextTags

\* What is written in a buffer fits it.
LEMMA WrittenFits ==
  ASSUME NEW buffer \in Seq(Byte), NEW at \in Nat \ {0}, NEW bytes \in Seq(Byte),
         bytes # <<>>, Written(buffer, at, bytes), NEW length \in Nat, length <= Len(bytes)
  PROVE  Fits(buffer, at, length)
<1>1. Len(bytes) \in DOMAIN bytes /\ Len(bytes) \in Nat
  OBVIOUS
<1>2. at + Len(bytes) - 1 \in DOMAIN buffer
  BY <1>1 DEF Written
<1> QED BY <1>1, <1>2 DEF Fits

\* A field with its length: two bytes and the content.
LEMMA FieldWritten ==
  ASSUME NEW content \in Seq(Byte), Len(content) \in Lengths
  PROVE  /\ Sized(content) \in Seq(Byte) /\ Len(Sized(content)) = 2 + Len(content)
         /\ \A buffer \in Seq(Byte), at \in Nat \ {0} :
              Written(buffer, at, Sized(content)) =>
                /\ Fits(buffer, at, 2) /\ Fits(buffer, at + 2, Len(content))
                /\ UInt16At(buffer, at) = Len(content)
                /\ Written(buffer, at + 2, content)
                /\ Slice(buffer, at + 2, Len(content)) = content
<1> DEFINE length == Len(content)
           bytes == Sized(content)
<1>0. length \in Lengths /\ length = Len(content) /\ bytes = UInt16(length) \o content
  BY DEF Sized
<1> HIDE DEF length, bytes
<1>1. UInt16(length) \in Seq(Byte) /\ Len(UInt16(length)) = 2
  BY <1>0, TwoBytesSized, Zenon
<1> DEFINE prefix == UInt16(length)
<1> HIDE DEF prefix
<1>2. prefix \in Seq(Byte) /\ Len(prefix) = 2 /\ bytes = prefix \o content
  BY <1>0, <1>1 DEF prefix
<1>3. bytes \in Seq(Byte) /\ Len(bytes) = 2 + Len(content)
  <2>1. prefix \o content \in Seq(Byte) /\ Len(prefix \o content) = Len(prefix) + Len(content)
    BY <1>2, Joined, Zenon
  <2> QED BY <1>2, <2>1
<1>4. ASSUME NEW buffer \in Seq(Byte), NEW at \in Nat \ {0}, Written(buffer, at, bytes)
      PROVE  /\ Fits(buffer, at, 2) /\ Fits(buffer, at + 2, length)
             /\ UInt16At(buffer, at) = length
             /\ Written(buffer, at + 2, content)
             /\ Slice(buffer, at + 2, Len(content)) = content
  <2>1. Written(buffer, at, prefix \o content) /\ at \in Nat
    BY <1>2, <1>4
  <2>2. Written(buffer, at, prefix) /\ Written(buffer, at + 2, content)
    <3>1. Written(buffer, at, prefix) /\ Written(buffer, at + Len(prefix), content)
      BY <2>1, <1>2, WrittenParts, Zenon
    <3> QED BY <3>1, <1>2
  <2>3. UInt16At(buffer, at) = length
    BY <1>0, <2>1, <2>2, LengthAt DEF prefix
  <2>4. bytes # <<>> /\ 2 \in Nat /\ 2 <= Len(bytes) /\ Len(bytes) \in Nat /\ Len(bytes) <= Len(bytes)
    BY <1>3
  <2>5. Fits(buffer, at, 2) /\ Fits(buffer, at, Len(bytes))
    BY <1>3, <1>4, <2>4, WrittenFits
  <2>6. Fits(buffer, at + 2, length)
    <3>1. Len(content) \in Nat /\ Len(buffer) \in Nat /\ at \in Nat
      OBVIOUS
    <3>2. at + Len(bytes) - 1 <= Len(buffer)
      BY <2>5 DEF Fits
    <3>3. at + 2 + length - 1 <= Len(buffer)
      BY <3>1, <3>2, <1>0, <1>3
    <3> QED BY <3>3 DEF Fits
  <2>7. Slice(buffer, at + 2, Len(content)) = content
    <3> DEFINE to == at + 2 + Len(content) - 1
    <3>1. at + 2 \in Nat
      OBVIOUS
    <3>2. SubSeq(buffer, at + 2, to) = content
      BY <2>2, <3>1, WrittenPart
    <3> QED BY <3>2 DEF Slice
  <2> QED BY <1>0, <2>2, <2>3, <2>5, <2>6, <2>7
<1> QED BY <1>3, <1>4, <1>0 DEF bytes

\* The integers.
LEMMA IntegerRead ==
  ASSUME NEW n \in Integers32, NEW name
  PROVE  /\ ReadsAs(writeInteger(Num(n)), "integer", name, Num(n))
         /\ writeInteger(Num(n)) \in Seq(Byte)
         /\ \A buffer \in Seq(Byte), at \in Nat \ {0} :
              \A collection : Written(buffer, at, writeInteger(Num(n))) =>
                readValue(buffer, collection, at, ippTags["enum"], name) =
                  [ok |-> TRUE, value |-> decodeEnum(name, n),
                   next |-> at + Len(writeInteger(Num(n)))]
<1> DEFINE bytes == writeInteger(Num(n))
           content == Int32(n)
<1>1. content \in Seq(Byte) /\ Len(content) = 4
  <2>1. PICK a, b, c, d \in Byte :
          /\ Int32(n) = <<a, b, c, d>>
          /\ a < 128 => n = ((a * 256 + b) * 256 + c) * 256 + d
          /\ a >= 128 =>
                 n = -1 - ((((255 - a) * 256 + (255 - b)) * 256 + (255 - c)) * 256 + (255 - d))
    BY AnyFourBytes
  <2> QED BY <2>1
<1>2. bytes = Sized(content)
  <2>1. bytes = UInt16(4) \o content
    BY DEF writeInteger, IsA, Num
  <2> QED BY <1>1, <2>1 DEF Sized
<1>3. Len(content) \in Lengths
  BY <1>1 DEF Lengths
<1>0. \A buffer, at : at \in Nat /\ Written(buffer, at, content) => Int32At(buffer, at) = n
  <2> SUFFICES ASSUME NEW buffer, NEW at \in Nat, Written(buffer, at, Int32(n))
               PROVE Int32At(buffer, at) = n
    OBVIOUS
  <2> QED BY IntegersReadBack, Zenon
<1> HIDE DEF bytes, content
<1>4. /\ bytes \in Seq(Byte) /\ Len(bytes) = 2 + Len(content)
      /\ \A buffer \in Seq(Byte), at \in Nat \ {0} :
           Written(buffer, at, bytes) =>
             /\ Fits(buffer, at, 2) /\ Fits(buffer, at + 2, 4)
             /\ UInt16At(buffer, at) = 4
             /\ Written(buffer, at + 2, content)
  <2>1. /\ Sized(content) \in Seq(Byte) /\ Len(Sized(content)) = 2 + Len(content)
        /\ \A buffer \in Seq(Byte), at \in Nat \ {0} :
              Written(buffer, at, Sized(content)) =>
                /\ Fits(buffer, at, 2) /\ Fits(buffer, at + 2, Len(content))
                /\ UInt16At(buffer, at) = Len(content)
                /\ Written(buffer, at + 2, content)
    BY <1>1, <1>3, FieldWritten, Zenon
  <2> QED BY <1>1, <1>2, <2>1
<1>5. ASSUME NEW buffer \in Seq(Byte), NEW at \in Nat \ {0}, NEW collection, Written(buffer, at, bytes)
      PROVE  /\ readValue(buffer, collection, at, ippTags["integer"], name) =
                  [ok |-> TRUE, value |-> Num(n), next |-> at + Len(bytes)]
             /\ readValue(buffer, collection, at, ippTags["enum"], name) =
                  [ok |-> TRUE, value |-> decodeEnum(name, n), next |-> at + Len(bytes)]
  <2>1. /\ Fits(buffer, at, 2) /\ Fits(buffer, at + 2, 4)
        /\ Written(buffer, at + 2, content)
    BY <1>4, <1>5
  <2>2. at \in Nat /\ at + 2 \in Nat /\ at + 2 + 4 = at + Len(bytes)
    BY <1>1, <1>4
  <2>3. Int32At(buffer, at + 2) = n
    BY <1>0, <2>1, <2>2
  <2>4. "integer" \in DOMAIN ValueTags /\ "enum" \in DOMAIN ValueTags
    BY ValueTagsKnown
  <2>5. readValue(buffer, collection, at, ippTags["integer"], name) =
          Read(buffer, at + 2, 4, Num(Int32At(buffer, at + 2)))
    BY <2>1, <2>2, IntegerTagged, Zenon
  <2>6. readValue(buffer, collection, at, ippTags["enum"], name) =
          Read(buffer, at + 2, 4, decodeEnum(name, Int32At(buffer, at + 2)))
    BY <2>1, <2>2, EnumTagged, Zenon
  <2> QED BY <2>1, <2>2, <2>3, <2>5, <2>6 DEF Read
<1>6. ReadsAs(bytes, "integer", name, Num(n))
  <2>1. Len(bytes) >= 2
    BY <1>1, <1>4
  <2> QED BY <1>4, <1>5, <2>1, Zenon DEF ReadsAs
<1> QED BY <1>4, <1>5, <1>6 DEF bytes

\* A keyword of an enumeration goes over as its code.
LEMMA EnumRead ==
  ASSUME NEW code \in DOMAIN ippEnumValues["job-state"]
  PROVE  LET value == K(ippEnumValues["job-state"][code])
             bytes == writeInteger(resolveEnumCode(W("job-state"), value))
         IN ReadsAs(bytes, "enum", W("job-state"), value)
<1> DEFINE states == ippEnumValues["job-state"]
           value == K(states[code])
           name == W("job-state")
<1>1. DOMAIN ippEnumValues = {"job-state"}
  BY DEF ippEnumValues
<1>2. states = Table({<<3, "pending">>, <<5, "processing">>, <<7, "canceled">>, <<8, "aborted">>,
                      <<9, "completed">>})
  BY DEF ippEnumValues
<1>3. /\ DOMAIN states = {3, 5, 7, 8, 9}
      /\ states[3] = "pending" /\ states[5] = "processing" /\ states[7] = "canceled"
      /\ states[8] = "aborted" /\ states[9] = "completed"
  <2> HIDE DEF states
  <2>1. DOMAIN states = {3, 5, 7, 8, 9}
    BY <1>2 DEF Table
  <2> QED BY <1>2, <2>1 DEF Table
<1>4. Unspelled(name) = {"job-state"}
  BY UnspelledOne, AllSpelled
<1>5. \A c \in DOMAIN states : states[c] \in DOMAIN Spelling
  BY <1>3, AllSpelled
<1>6. \A c, d \in DOMAIN states : states[c] = states[d] => c = d
  BY <1>3
<1> HIDE DEF states
<1>7. \A c \in DOMAIN states : K(states[c]) = value => c = code
  <2> SUFFICES ASSUME NEW c \in DOMAIN states, K(states[c]) = value PROVE c = code
    OBVIOUS
  <2>1. code \in DOMAIN states
    BY DEF states
  <2>2. <<"string", W(states[c])>>[2] = W(states[c]) /\ <<"string", W(states[code])>>[2] = W(states[code])
    OBVIOUS
  <2>3. W(states[c]) = W(states[code])
    BY <2>2 DEF K, Str
  <2>4. states[c] = states[code]
    BY <1>5, <2>1, <2>3, SpelledApart
  <2> QED BY <1>6, <2>1, <2>4
<1>8. resolveEnumCode(name, value) = Num(code)
  <2> DEFINE codes == UNION {{c \in DOMAIN ippEnumValues[attribute] :
                              K(ippEnumValues[attribute][c]) = value} :
                             attribute \in Unspelled(name) \cap DOMAIN ippEnumValues}
  <2>1. codes = {c \in DOMAIN states : K(states[c]) = value}
    BY <1>1, <1>4 DEF states
  <2>2. codes = {code}
    BY <2>1, <1>7 DEF states
  <2>3. IsA(value, "string")
    BY DEF IsA, K, Str
  <2>4. resolveEnumCode(name, value) = IF ~ IsA(value, "string") THEN value ELSE
           IF codes = {} THEN Null ELSE Num(CHOOSE c \in codes : TRUE)
    BY DEF resolveEnumCode
  <2> HIDE DEF codes
  <2>5. (CHOOSE c \in codes : TRUE) = code /\ codes # {}
    BY <2>2
  <2> HIDE DEF value, name
  <2> QED BY <2>3, <2>4, <2>5
<1>9. decodeEnum(name, code) = value
  <2> DEFINE listed == {attribute \in Unspelled(name) \cap DOMAIN ippEnumValues :
                          code \in DOMAIN ippEnumValues[attribute]}
  <2>1. listed = {"job-state"}
    BY <1>1, <1>4
  <2>2. decodeEnum(name, code) = IF listed = {} THEN Num(code)
          ELSE K(ippEnumValues[CHOOSE attribute \in listed : TRUE][code])
    BY DEF decodeEnum
  <2> HIDE DEF listed
  <2>3. (CHOOSE attribute \in listed : TRUE) = "job-state" /\ listed # {}
    BY <2>1
  <2> QED BY <2>2, <2>3 DEF states
<1>10. code \in Integers32
  <2>1. code \in {3, 5, 7, 8, 9}
    BY <1>3 DEF states
  <2>2. LastInteger \in Nat /\ 9 <= LastInteger
    BY SMT DEF LastInteger
  <2>3. code \in Int /\ 0 <= code /\ code <= 9
    BY <2>1
  <2>4. -LastInteger - 1 <= code /\ code <= LastInteger
    BY <2>2, <2>3
  <2> QED BY <2>2, <2>3, <2>4, SMT DEF Integers32
<1> DEFINE bytes == writeInteger(Num(code))
<1> HIDE DEF value, name
<1>11. /\ bytes \in Seq(Byte) /\ Len(bytes) >= 2
       /\ \A buffer \in Seq(Byte), at \in Nat \ {0} :
              \A collection : Written(buffer, at, bytes) =>
                readValue(buffer, collection, at, ippTags["enum"], name) =
                  [ok |-> TRUE, value |-> decodeEnum(name, code), next |-> at + Len(bytes)]
  BY <1>10, IntegerRead, Zenon DEF ReadsAs
<1> HIDE DEF bytes
<1>12. ReadsAs(bytes, "enum", name, value)
  BY <1>9, <1>11, Zenon DEF ReadsAs
<1> QED BY <1>8, <1>12 DEF bytes, value, name, states

\* A boolean reads back.
LEMMA BooleanRead ==
  ASSUME NEW value \in {Bool(TRUE), Bool(FALSE)}, NEW name
  PROVE  /\ IsA(value, "boolean")
         /\ ReadsAs(Sized(<<IF value[2] THEN 1 ELSE 0>>), "boolean", name, value)
<1> DEFINE byte == IF value[2] THEN 1 ELSE 0
           content == <<byte>>
           bytes == Sized(content)
<1>1. byte \in {0, 1} /\ Bool(byte # 0) = value /\ IsA(value, "boolean")
  <2>1. \A b \in BOOLEAN : <<"boolean", b>>[2] = b /\ <<"boolean", b>>[1] = "boolean"
    OBVIOUS
  <2>2. PICK b \in BOOLEAN : value = <<"boolean", b>>
    BY Zenon DEF Bool
  <2>3. value[2] = b /\ value[1] = "boolean"
    BY <2>1, <2>2, Zenon
  <2>4. byte = IF b THEN 1 ELSE 0
    BY <2>3, Zenon
  <2>5. byte \in {0, 1} /\ (byte # 0) = b
    BY <2>4
  <2> QED BY <2>2, <2>3, <2>5, Zenon DEF Bool, IsA
<1>2. IsA(value, "boolean")
  BY <1>1
<1> HIDE DEF byte
<1>3. content \in Seq(Byte) /\ Len(content) = 1 /\ content[1] = byte /\ 1 \in DOMAIN content
  <2>1. byte \in Byte
    BY <1>1 DEF Byte
  <2> QED BY <2>1
<1> HIDE DEF content
<1>4. Len(content) \in Lengths
  BY <1>3 DEF Lengths
<1>6. /\ bytes \in Seq(Byte) /\ Len(bytes) = 2 + Len(content)
      /\ \A buffer \in Seq(Byte), at \in Nat \ {0} :
           Written(buffer, at, bytes) =>
             /\ Fits(buffer, at, 2) /\ Fits(buffer, at + 2, Len(content))
             /\ Written(buffer, at + 2, content)
  BY <1>3, <1>4, FieldWritten, Zenon
<1> HIDE DEF bytes
<1>7. ASSUME NEW buffer \in Seq(Byte), NEW at \in Nat \ {0}, NEW collection, Written(buffer, at, bytes)
      PROVE  readValue(buffer, collection, at, ippTags["boolean"], name) =
                  [ok |-> TRUE, value |-> value, next |-> at + Len(bytes)]
  <2>1. /\ Fits(buffer, at, 2) /\ Fits(buffer, at + 2, 1) /\ Written(buffer, at + 2, content)
    BY <1>3, <1>6, <1>7
  <2>2. at \in Nat /\ at + 2 + 1 = at + Len(bytes) /\ at + 2 + 1 - 1 = at + 2
    BY <1>3, <1>6
  <2>3. buffer[at + 2] = byte
    BY <1>3, <2>1, <2>2 DEF Written
  <2>4. readValue(buffer, collection, at, ippTags["boolean"], name) =
          Read(buffer, at + 2, 1, Bool(buffer[at + 2] # 0))
    BY <2>1, <2>2, BooleanTagged, Zenon
  <2>5. readValue(buffer, collection, at, ippTags["boolean"], name) =
          Read(buffer, at + 2, 1, value)
    BY <1>1, <2>3, <2>4, Zenon
  <2> QED BY <2>1, <2>2, <2>5 DEF Read
<1>8. Len(bytes) >= 2
  BY <1>3, <1>6
<1> QED BY <1>2, <1>6, <1>7, <1>8, Zenon DEF ReadsAs, bytes, content, byte

\* A text of UTF-8 reads back.
LEMMA TextRead ==
  ASSUME NEW s \in Seq(Characters), Len(Utf8(s)) \in Lengths, NEW name,
         NEW tag \in TextTags \ {"memberAttrName"}
  PROVE  ReadsAs(Sized(Utf8(s)), tag, name, Str(s))
<1> DEFINE value == Str(s)
           content == Utf8(s)
           bytes == Sized(content)
<1>0. value = Str(s)
  OBVIOUS
<1>3. content \in Seq(Byte) /\ FromUtf8(content) = s
  BY CharsReadBack
<1>4. Len(content) \in Lengths
  OBVIOUS
<1> HIDE DEF value, content
<1>5. Len(content) \in Lengths /\ Len(content) \in Nat
  BY <1>3, <1>4
<1>6. /\ bytes \in Seq(Byte) /\ Len(bytes) = 2 + Len(content)
      /\ \A buffer \in Seq(Byte), at \in Nat \ {0} :
              Written(buffer, at, bytes) =>
                /\ Fits(buffer, at, 2) /\ Fits(buffer, at + 2, Len(content))
                /\ UInt16At(buffer, at) = Len(content)
                /\ Slice(buffer, at + 2, Len(content)) = content
  BY <1>3, <1>5, FieldWritten, Zenon
<1> HIDE DEF bytes
<1>7. ASSUME NEW buffer \in Seq(Byte), NEW at \in Nat \ {0}, NEW collection, Written(buffer, at, bytes)
      PROVE  readValue(buffer, collection, at, ippTags[tag], name) =
                  [ok |-> TRUE, value |-> value, next |-> at + Len(bytes)]
  <2>1. /\ Fits(buffer, at, 2) /\ Fits(buffer, at + 2, Len(content))
        /\ UInt16At(buffer, at) = Len(content)
        /\ Slice(buffer, at + 2, Len(content)) = content
    BY <1>6, <1>7
  <2>2. at \in Nat /\ at + 2 + Len(content) = at + Len(bytes)
    BY <1>5, <1>6
  <2>3. readValue(buffer, collection, at, ippTags[tag], name) =
          Read(buffer, at + 2, UInt16At(buffer, at),
               Str(FromUtf8(Slice(buffer, at + 2, UInt16At(buffer, at)))))
    BY <2>1, <2>2, TextTagged, Zenon
  <2>4. readValue(buffer, collection, at, ippTags[tag], name) =
          Read(buffer, at + 2, Len(content), value)
    BY <1>0, <1>3, <2>1, <2>3, Zenon
  <2> QED BY <2>1, <2>2, <2>4 DEF Read
<1>8. Len(bytes) >= 2
  BY <1>5, <1>6
<1> QED BY <1>6, <1>7, <1>8, Zenon DEF ReadsAs, bytes, content, value

\* A text of ASCII reads back.
LEMMA AsciiRead ==
  ASSUME NEW s \in Seq(0..127), Len(Utf8(s)) \in Lengths, NEW name, NEW tag \in AsciiTags
  PROVE  ReadsAs(Sized(Ascii(s)), tag, name, Str(s))
<1> DEFINE value == Str(s)
           content == Ascii(s)
           bytes == Sized(content)
<1>0. value = Str(s)
  OBVIOUS
<1> HIDE DEF value
<1>3. /\ Len(s) \in Nat /\ DOMAIN s = 1..Len(s)
      /\ \A i \in DOMAIN s : s[i] \in 0..127
  <2> DEFINE S == 0..127
  <2>1. s \in Seq(S)
    OBVIOUS
  <2> HIDE DEF S
  <2>2. Len(s) \in Nat /\ DOMAIN s = 1..Len(s) /\ \A i \in DOMAIN s : s[i] \in S
    BY <2>1
  <2> QED BY <2>2 DEF S
<1>4. s = [i \in DOMAIN s |-> s[i]]
  BY <1>3
<1>5. content = s /\ FromAscii(s) = s
  <2>1. \A i \in DOMAIN s : s[i] % 256 = s[i] /\ s[i] % 128 = s[i]
    <3> SUFFICES ASSUME NEW c \in 0..127 PROVE c % 256 = c /\ c % 128 = c
      BY <1>3
    <3> QED OBVIOUS
  <2>2. [i \in DOMAIN s |-> s[i] % 256] = [i \in DOMAIN s |-> s[i]]
    BY <2>1
  <2>3. [i \in DOMAIN s |-> s[i] % 128] = [i \in DOMAIN s |-> s[i]]
    BY <2>1
  <2> QED BY <1>4, <2>2, <2>3 DEF Ascii, FromAscii
<1>6. Utf8(s) = s
  <2>1. \A i \in DOMAIN s : Utf8Char(s[i]) = <<s[i]>>
    <3> SUFFICES ASSUME NEW c \in 0..127 PROVE Utf8Char(c) = <<c>>
      BY <1>3
    <3>1. c < 128
      OBVIOUS
    <3> QED BY <3>1 DEF Utf8Char
  <2>2. [i \in DOMAIN s |-> Utf8Char(s[i])] = [i \in DOMAIN s |-> <<s[i]>>]
    BY <2>1
  <2>3. Utf8(s) = FlattenSeq([i \in DOMAIN s |-> <<s[i]>>])
    BY <2>2 DEF Utf8
  <2> QED BY <1>3, <2>3, FlattenUnits
<1>7. Len(s) \in Lengths
  BY <1>6
<1> HIDE DEF content
<1>8. content \in Seq(Byte) /\ Len(content) \in Lengths /\ Len(content) \in Nat
  <2>2. \A c \in 0..127 : c \in Byte
    BY DEF Byte
  <2>3. s \in [1..Len(s) -> Byte]
    BY <1>3, <1>4, <2>2
  <2>4. s \in Seq(Byte)
    BY <1>3, <2>3
  <2> QED BY <1>3, <1>5, <1>7, <2>4
<1>9. /\ bytes \in Seq(Byte) /\ Len(bytes) = 2 + Len(content)
      /\ \A buffer \in Seq(Byte), at \in Nat \ {0} :
              Written(buffer, at, bytes) =>
                /\ Fits(buffer, at, 2) /\ Fits(buffer, at + 2, Len(content))
                /\ UInt16At(buffer, at) = Len(content)
                /\ Slice(buffer, at + 2, Len(content)) = content
  BY <1>8, FieldWritten, Zenon
<1> HIDE DEF bytes
<1>10. ASSUME NEW buffer \in Seq(Byte), NEW at \in Nat \ {0}, NEW collection, Written(buffer, at, bytes)
      PROVE  readValue(buffer, collection, at, ippTags[tag], name) =
                  [ok |-> TRUE, value |-> value, next |-> at + Len(bytes)]
  <2>1. /\ Fits(buffer, at, 2) /\ Fits(buffer, at + 2, Len(content))
        /\ UInt16At(buffer, at) = Len(content)
        /\ Slice(buffer, at + 2, Len(content)) = content
    BY <1>9, <1>10
  <2>2. at \in Nat /\ at + 2 + Len(content) = at + Len(bytes)
    BY <1>8, <1>9
  <2>3. readValue(buffer, collection, at, ippTags[tag], name) =
          Read(buffer, at + 2, UInt16At(buffer, at),
               Str(FromAscii(Slice(buffer, at + 2, UInt16At(buffer, at)))))
    BY <2>1, <2>2, AsciiTagged, Zenon
  <2>4. readValue(buffer, collection, at, ippTags[tag], name) =
          Read(buffer, at + 2, Len(content), value)
    BY <1>0, <1>5, <2>1, <2>3, Zenon
  <2> QED BY <2>1, <2>2, <2>4 DEF Read
<1>11. Len(bytes) >= 2
  BY <1>8, <1>9
<1> QED BY <1>9, <1>10, <1>11, Zenon DEF ReadsAs, bytes, content, value

\* A resolution reads back.
LEMMA ResolutionRead ==
  ASSUME NEW x \in Integers32, NEW y \in Integers32, NEW unit \in {K("dpi"), K("dpcm")}, NEW name
  PROVE  LET value == Arr(<<Num(x), Num(y), unit>>)
         IN ReadsAs(writeResolution(value), "resolution", name, value)
<1> DEFINE value == Arr(<<Num(x), Num(y), unit>>)
           last == IF unit = K("dpi") THEN 3 ELSE 4
           a == UInt16(9)
           b == Int32(x)
           c == Int32(y)
           d == <<last>>
           bytes == writeResolution(value)
<1>1. bytes = a \o b \o c \o d
  BY DEF writeResolution, Arr, Num, IsA
<1>2. a \in Seq(Byte) /\ Len(a) = 2
  <2>1. 9 \in Lengths
    BY DEF Lengths
  <2> QED BY <2>1, TwoBytesSized, Zenon
<1>3. b \in Seq(Byte) /\ Len(b) = 4 /\ c \in Seq(Byte) /\ Len(c) = 4
  <2>1. ASSUME NEW n \in Integers32 PROVE Int32(n) \in Seq(Byte) /\ Len(Int32(n)) = 4
    <3>1. PICK e, f, g, h \in Byte : Int32(n) = <<e, f, g, h>>
      BY AnyFourBytes
    <3> QED BY <3>1
  <2> QED BY <2>1
<1>4. d \in Seq(Byte) /\ Len(d) = 1
  <2>1. last \in Byte
    BY DEF Byte
  <2> HIDE DEF last
  <2> QED BY <2>1
<1> HIDE DEF a, b, c, d, bytes, value
<1>5. /\ a \o b \o c \o d \in Seq(Byte) /\ Len(a \o b \o c \o d) = 11
  <2>1. a \o b \in Seq(Byte) /\ Len(a \o b) = 2 + 4
    BY <1>2, <1>3, Joined, ZenonT(60)
  <2> DEFINE e == a \o b
  <2> HIDE DEF e
  <2>2. e \in Seq(Byte) /\ Len(e) = 6
    BY <2>1 DEF e
  <2>3. e \o c \in Seq(Byte) /\ Len(e \o c) = 6 + 4
    BY <1>3, <2>2, Joined, ZenonT(60)
  <2> DEFINE f == e \o c
  <2> HIDE DEF f
  <2>4. f \in Seq(Byte) /\ Len(f) = 10
    BY <2>3 DEF f
  <2>5. f \o d \in Seq(Byte) /\ Len(f \o d) = 10 + 1
    BY <1>4, <2>4, Joined, ZenonT(60)
  <2> QED BY <2>5 DEF e, f
<1>6. bytes \in Seq(Byte) /\ Len(bytes) = 11 /\ bytes # <<>>
  BY <1>1, <1>5
<1>7. ASSUME NEW buffer \in Seq(Byte), NEW at \in Nat \ {0}, NEW collection, Written(buffer, at, bytes)
      PROVE  readValue(buffer, collection, at, ippTags["resolution"], name) =
                  [ok |-> TRUE, value |-> value, next |-> at + Len(bytes)]
  <2>1. at \in Nat /\ at + 2 + 9 = at + 11
    OBVIOUS
  <2>2. resolutionAt(buffer, at + 2) = value
    BY <2>1, <1>7, ResolutionsReadBack, ZenonT(60) DEF value, bytes
  <2>3. Fits(buffer, at, 2) /\ Fits(buffer, at, 11)
    <3>1. 2 \in Nat /\ 11 \in Nat /\ 2 <= Len(bytes) /\ 11 <= Len(bytes)
      BY <1>6
    <3> QED BY <1>6, <1>7, <3>1, WrittenFits
  <2>4. Fits(buffer, at + 2, 9)
    BY <2>3 DEF Fits
  <2>5. readValue(buffer, collection, at, ippTags["resolution"], name) =
          Read(buffer, at + 2, 9, resolutionAt(buffer, at + 2))
    BY <2>1, <2>3, ResolutionTagged, Zenon
  <2> QED BY <1>6, <2>1, <2>2, <2>4, <2>5 DEF Read
<1>8. Len(bytes) >= 2
  BY <1>6
<1> QED BY <1>6, <1>7, <1>8, Zenon DEF ReadsAs, bytes, value

\* The minutes of a month are natural numbers.
LEMMA MinutesOfAMonth == LastMinute \in Int /\ LastMinute < 44640
BY SMT DEF LastMinute

\* What follows the year of a date.
DateFields(month, local, deciseconds, sign, offset) ==
  <<month, 1 + local \div 1440, (local % 1440) \div 60, local % 60,
    deciseconds \div 10, deciseconds % 10, sign, offset \div 60, offset % 60>>

Months == 1..12
Offsets == 0..840
Deciseconds == 0..599

\* The parts of a day, of the distance to UTC and of deciseconds are bytes.
LEMMA DateParts ==
  ASSUME NEW local \in 0..LastMinute, NEW month \in Months, NEW offset \in Offsets,
         NEW sign \in Byte, NEW deciseconds \in Deciseconds
  PROVE  DateFields(month, local, deciseconds, sign, offset) \in Seq(Byte)
<1> DEFINE b2 == 1 + local \div 1440
           b3 == (local % 1440) \div 60
           b4 == local % 60
           b5 == deciseconds \div 10
           b6 == deciseconds % 10
           b8 == offset \div 60
           b9 == offset % 60
<1>0. LastMinute \in Int /\ LastMinute < 44640
  BY MinutesOfAMonth
<1>1. local \in Nat /\ local < 44640
  BY <1>0, SMT
<1>2. b2 \in Int /\ 0 <= b2 /\ b2 < 256
  BY <1>1, SMT
<1>3. b3 \in Int /\ 0 <= b3 /\ b3 < 256
  <2>1. local % 1440 \in Nat /\ local % 1440 < 1440
    BY <1>1, SMT
  <2> QED BY <2>1, SMT
<1>4. b4 \in Int /\ 0 <= b4 /\ b4 < 256
  BY <1>1, SMT
<1>5. b5 \in Int /\ 0 <= b5 /\ b5 < 256 /\ b6 \in Int /\ 0 <= b6 /\ b6 < 256
  BY SMT DEF Deciseconds
<1>6. b8 \in Int /\ 0 <= b8 /\ b8 < 256 /\ b9 \in Int /\ 0 <= b9 /\ b9 < 256
  BY SMT DEF Offsets
<1>7. month \in Int /\ 0 <= month /\ month < 256
  BY SMT DEF Months
<1> HIDE DEF b2, b3, b4, b5, b6, b8, b9
<1>8. /\ b2 \in Byte /\ b3 \in Byte /\ b4 \in Byte /\ b5 \in Byte /\ b6 \in Byte /\ b8 \in Byte
      /\ b9 \in Byte /\ month \in Byte /\ sign \in Byte
  BY <1>2, <1>3, <1>4, <1>5, <1>6, <1>7, AByte
<1>9. <<month, b2, b3, b4, b5, b6, sign, b8, b9>> \in Seq(Byte)
  BY <1>8
<1> QED BY <1>9 DEF DateFields, b2, b3, b4, b5, b6, b8, b9

\* A date reads back, as the moment it is.
LEMMA DateRead ==
  ASSUME NEW year \in Lengths, year >= 100, NEW month \in Months, NEW minutes \in Int,
         minutes - TimezoneOffset \in 0..LastMinute, NEW deciseconds \in Deciseconds, NEW name
  PROVE  ReadsAs(writeDateTime(Date(year, month, minutes, deciseconds)), "dateTime", name,
                 Date(year, month, minutes, deciseconds))
<1> DEFINE value == Date(year, month, minutes, deciseconds)
           local == minutes - TimezoneOffset
           offset == IF TimezoneOffset > 0 THEN TimezoneOffset ELSE - TimezoneOffset
           sign == IF TimezoneOffset > 0 THEN 45 ELSE 43
           rest == DateFields(month, local, deciseconds, sign, offset)
           a == UInt16(11)
           b == UInt16(year)
           bytes == writeDateTime(value)
<1>1. bytes = a \o b \o rest
  <2>1. dateTimeBytes(year, month, local, deciseconds) = a \o b \o rest
    BY DEF dateTimeBytes, DateFields
  <2>2. bytes = dateTimeBytes(year, month, local, deciseconds)
    BY DateWritten
  <2> HIDE DEF local, rest, a, b
  <2> QED BY <2>1, <2>2
<1>2. TimezoneOffset \in Int /\ offset \in 0..840 /\ sign \in Byte
  <2>1. TimezoneOffset \in Int /\ offset \in 0..840
    BY CodecAssumption
  <2>2. 45 \in Byte /\ 43 \in Byte
    BY DEF Byte
  <2> QED BY <2>1, <2>2
<1>3. local \in 0..LastMinute
  OBVIOUS
<1> HIDE DEF local, offset, sign
<1>6. rest \in Seq(Byte) /\ Len(rest) = 9
  <2>1. offset \in Offsets /\ month \in Months /\ deciseconds \in Deciseconds
    BY <1>2 DEF Offsets
  <2>2. DateFields(month, local, deciseconds, sign, offset) \in Seq(Byte)
    BY <1>2, <1>3, <2>1, DateParts, ZenonT(60)
  <2>3. Len(DateFields(month, local, deciseconds, sign, offset)) = 9
    BY DEF DateFields
  <2> QED BY <2>2, <2>3
<1> HIDE DEF rest
<1>7. a \in Seq(Byte) /\ Len(a) = 2 /\ b \in Seq(Byte) /\ Len(b) = 2
  <2>1. 11 \in Lengths
    BY DEF Lengths
  <2> QED BY <2>1, TwoBytesSized, Zenon
<1> HIDE DEF a, b
<1>8. a \o b \o rest \in Seq(Byte) /\ Len(a \o b \o rest) = 13
  <2>1. a \o b \in Seq(Byte) /\ Len(a \o b) = 2 + 2
    BY <1>7, Joined, ZenonT(60)
  <2> DEFINE e == a \o b
  <2> HIDE DEF e
  <2>0. e \in Seq(Byte) /\ Len(e) = 4
    BY <2>1 DEF e
  <2>2. e \o rest \in Seq(Byte) /\ Len(e \o rest) = 4 + 9
    BY <1>6, <2>0, Joined
  <2> QED BY <2>2 DEF e
<1>9. bytes \in Seq(Byte) /\ Len(bytes) = 13 /\ bytes # <<>>
  BY <1>1, <1>8
<1> HIDE DEF bytes, value
<1>10. ASSUME NEW buffer \in Seq(Byte), NEW at \in Nat \ {0}, NEW collection, Written(buffer, at, bytes)
      PROVE  readValue(buffer, collection, at, ippTags["dateTime"], name) =
                  [ok |-> TRUE, value |-> value, next |-> at + Len(bytes)]
  <2>1. at \in Nat /\ at + 2 + 11 = at + 13
    OBVIOUS
  <2>2. dateTimeAt(buffer, at + 2) = value
    <3>1. year \in Nat /\ year < 65536
      BY OfLengths
    <3>2. 100 <= year
      BY <3>1
    <3>3. month \in Int /\ deciseconds \in Nat
      BY DEF Months, Deciseconds
    <3>4. minutes >= TimezoneOffset
      <4>1. 0 <= local
        <5>1. LastMinute \in Int
          BY MinutesOfAMonth
        <5> QED BY <1>3, <5>1
      <4> QED BY <1>2, <4>1 DEF local
    <3>5. Written(buffer, at, writeDateTime(Date(year, month, minutes, deciseconds)))
      BY <1>10 DEF bytes, value
    <3>6. dateTimeAt(buffer, at + 2) = Date(year, month, minutes, deciseconds)
      BY <2>1, <3>1, <3>2, <3>3, <3>4, <3>5, DatesReadBack, SMTT(30) DEF Date
    <3> QED BY <3>6 DEF value
  <2>3. Fits(buffer, at, 2) /\ Fits(buffer, at, 13)
    <3>1. 2 \in Nat /\ 13 \in Nat /\ 2 <= Len(bytes) /\ 13 <= Len(bytes)
      BY <1>9
    <3> QED BY <1>9, <1>10, <3>1, WrittenFits
  <2>4. Fits(buffer, at + 2, 11)
    BY <2>3 DEF Fits
  <2>5. readValue(buffer, collection, at, ippTags["dateTime"], name) =
          Read(buffer, at + 2, 11, dateTimeAt(buffer, at + 2))
    BY <2>1, <2>3, DateTagged, Zenon
  <2> QED BY <1>9, <2>1, <2>2, <2>4, <2>5 DEF Read
<1>11. Len(bytes) >= 2
  BY <1>9
<1> QED BY <1>9, <1>10, <1>11, Zenon DEF ReadsAs, bytes, value

\* The tags of the values that a request may have.
RequestTags == {"integer", "boolean", "enum", "octetString", "dateTime", "resolution",
                "textWithoutLanguage", "nameWithoutLanguage", "keyword", "uri", "charset",
                "naturalLanguage"}

\* What is written of a value with a tag of its own.
LEMMA WriteByTag ==
  ASSUME NEW name, NEW value
  PROVE  /\ writeValue(name, "integer", value) = writeInteger(value)
         /\ writeValue(name, "enum", value) = writeInteger(resolveEnumCode(name, value))
         /\ writeValue(name, "resolution", value) = writeResolution(value)
         /\ writeValue(name, "dateTime", value) = writeDateTime(value)
<1>1. writeValue(name, "integer", value) = writeInteger(value)
  BY DEF writeValue, AsciiTags, TextTags
<1>2. writeValue(name, "enum", value) = writeInteger(resolveEnumCode(name, value))
  BY DEF writeValue, AsciiTags, TextTags
<1>3. writeValue(name, "resolution", value) = writeResolution(value)
  BY DEF writeValue, AsciiTags, TextTags
<1>4. writeValue(name, "dateTime", value) = writeDateTime(value)
  BY DEF writeValue, AsciiTags, TextTags
<1> QED BY <1>1, <1>2, <1>3, <1>4, Zenon

\* What is written of a boolean.
LEMMA WriteBoolean ==
  ASSUME NEW name, NEW value, IsA(value, "boolean")
  PROVE  writeValue(name, "boolean", value) = Sized(<<IF value[2] THEN 1 ELSE 0>>)
  BY DEF writeValue, AsciiTags, TextTags

\* What is written of a text of ASCII.
LEMMA WriteAscii ==
  ASSUME NEW name, NEW tag \in AsciiTags, NEW s
  PROVE  writeValue(name, tag, Str(s)) = Sized(Ascii(s))
<1>1. IsA(Str(s), "string") /\ Str(s)[2] = s
  BY DEF Str, IsA
<1>2. writeValue(name, tag, Str(s)) =
        IF IsA(Str(s), "string") THEN Sized(Ascii(Str(s)[2])) ELSE Refused
  BY DEF writeValue, AsciiTags, TextTags
<1> QED BY <1>1, <1>2

\* What is written of a text of UTF-8.
LEMMA WriteText ==
  ASSUME NEW name, NEW tag \in TextTags \ {"memberAttrName"}, NEW s
  PROVE  writeValue(name, tag, Str(s)) = Sized(Utf8(s))
<1>1. IsA(Str(s), "string") /\ Str(s)[2] = s
  BY DEF Str, IsA
<1>2. writeValue(name, tag, Str(s)) =
        IF IsA(Str(s), "string") THEN Sized(Utf8(Str(s)[2])) ELSE Refused
  BY DEF writeValue, AsciiTags, TextTags
<1> QED BY <1>1, <1>2

\* Of each syntax.
LEMMA ReadableInteger ==
  ASSUME NEW word, NEW value, Readable(word, "integer", value), NEW name
  PROVE  ReadsAs(writeValue(name, "integer", value), "integer", name, value)
<1> DEFINE n == value[2]
<1>1. IsInteger(value)
  BY DEF Readable, AsciiTags
<1>2. value = Num(n) /\ n \in Integers32
  BY <1>1 DEF IsInteger
<1> HIDE DEF n
<1>3. ReadsAs(writeInteger(Num(n)), "integer", name, Num(n))
  BY <1>2, IntegerRead, Zenon
<1> QED BY <1>2, <1>3, WriteByTag, Zenon

\* A readable boolean reads back.
LEMMA ReadableBoolean ==
  ASSUME NEW word, NEW value, Readable(word, "boolean", value), NEW name
  PROVE  ReadsAs(writeValue(name, "boolean", value), "boolean", name, value)
<1>1. value \in {Bool(TRUE), Bool(FALSE)}
  BY DEF Readable, AsciiTags
<1>2. /\ IsA(value, "boolean")
      /\ ReadsAs(Sized(<<IF value[2] THEN 1 ELSE 0>>), "boolean", name, value)
  BY <1>1, BooleanRead, Zenon
<1> QED BY <1>2, WriteBoolean, Zenon

\* A readable state of a job reads back: the one enum the agent writes.
LEMMA ReadableEnum ==
  ASSUME NEW value, Readable("job-state", "enum", value)
  PROVE  ReadsAs(writeValue(W("job-state"), "enum", value), "enum", W("job-state"), value)
<1>1. PICK code \in DOMAIN ippEnumValues["job-state"] : value = K(ippEnumValues["job-state"][code])
  BY DEF Readable, AsciiTags
<1>2. ReadsAs(writeInteger(resolveEnumCode(W("job-state"), K(ippEnumValues["job-state"][code]))),
              "enum", W("job-state"), K(ippEnumValues["job-state"][code]))
  BY EnumRead, Zenon
<1> QED BY <1>1, <1>2, WriteByTag, Zenon

\* A readable text of ASCII reads back.
LEMMA ReadableAscii ==
  ASSUME NEW word, NEW tag \in AsciiTags, NEW value, Readable(word, tag, value), NEW name
  PROVE  ReadsAs(writeValue(name, tag, value), tag, name, value)
<1> DEFINE s == value[2]
<1>1. IsText(value, 0..127)
  BY DEF Readable, AsciiTags
<1>2. value = Str(s) /\ s \in Seq(0..127) /\ Len(Utf8(s)) \in Lengths
  BY <1>1 DEF IsText
<1> HIDE DEF s
<1>3. ReadsAs(Sized(Ascii(s)), tag, name, Str(s))
  BY <1>2, AsciiRead, Zenon
<1> QED BY <1>2, <1>3, WriteAscii, Zenon

\* Texts that hold no separator of a language are written without one.
LEMMA TextNotQualified ==
  ASSUME NEW value, IsText(value, Characters \ {LanguageSeparator})
  PROVE  /\ resolveValueTag("name", value) = "nameWithoutLanguage"
         /\ resolveValueTag("text", value) = "textWithoutLanguage"
         /\ IsText(value, Characters)
<1> DEFINE s == value[2]
<1>1. value = Str(s) /\ s \in Seq(Characters \ {LanguageSeparator}) /\ Len(Utf8(s)) \in Lengths
  BY DEF IsText
<1> HIDE DEF s
<1>2. LanguageSeparator \notin ToSet(s)
  BY <1>1 DEF ToSet
<1>3. s \in Seq(Characters)
  <2>1. Len(s) \in Nat /\ s = [i \in 1..Len(s) |-> s[i]] /\ \A i \in 1..Len(s) : s[i] \in Characters
    BY <1>1
  <2> QED BY <2>1
<1>4. resolveValueTag("name", value) = "nameWithoutLanguage"
  BY <1>2 DEF resolveValueTag, s
<1>5. resolveValueTag("text", value) = "textWithoutLanguage"
  BY <1>2 DEF resolveValueTag, s
<1>6. IsText(value, Characters)
  BY <1>1, <1>3 DEF IsText, s
<1> QED BY <1>4, <1>5, <1>6, Zenon

\* A readable text of UTF-8 reads back.
LEMMA ReadableText ==
  ASSUME NEW tag \in TextTags \ {"memberAttrName"}, NEW value, IsText(value, Characters), NEW name
  PROVE  ReadsAs(writeValue(name, tag, value), tag, name, value)
<1> DEFINE s == value[2]
<1>2. value = Str(s) /\ s \in Seq(Characters) /\ Len(Utf8(s)) \in Lengths
  BY DEF IsText
<1> HIDE DEF s
<1>3. ReadsAs(Sized(Utf8(s)), tag, name, Str(s))
  BY <1>2, TextRead, Zenon
<1> QED BY <1>2, <1>3, WriteText, Zenon

\* A readable resolution reads back.
LEMMA ReadableResolution ==
  ASSUME NEW word, NEW value, Readable(word, "resolution", value), NEW name
  PROVE  ReadsAs(writeValue(name, "resolution", value), "resolution", name, value)
<1> DEFINE first == value[2][1]
           second == value[2][2]
           unit == value[2][3]
           x == first[2]
           y == second[2]
<1>1. /\ value = Arr(<<first, second, unit>>)
      /\ IsInteger(first) /\ IsInteger(second) /\ unit \in {K("dpi"), K("dpcm")}
  BY DEF Readable, AsciiTags
<1>2. first = Num(x) /\ second = Num(y) /\ x \in Integers32 /\ y \in Integers32
  BY <1>1 DEF IsInteger
<1> HIDE DEF first, second, unit, x, y
<1>3. value = Arr(<<Num(x), Num(y), unit>>)
  BY <1>1, <1>2, Zenon
<1>4. ReadsAs(writeResolution(Arr(<<Num(x), Num(y), unit>>)), "resolution", name,
              Arr(<<Num(x), Num(y), unit>>))
  BY <1>1, <1>2, ResolutionRead, Zenon
<1> QED BY <1>3, <1>4, WriteByTag, Zenon

\* A readable date reads back.
LEMMA ReadableDate ==
  ASSUME NEW word, NEW value, Readable(word, "dateTime", value), NEW name
  PROVE  ReadsAs(writeValue(name, "dateTime", value), "dateTime", name, value)
<1> DEFINE year == value[2]
           month == value[3]
           minutes == value[4]
           deciseconds == value[5]
<1>1. /\ value = Date(year, month, minutes, deciseconds)
      /\ year \in Lengths /\ year >= 100 /\ month \in 1..12
      /\ minutes \in Int /\ minutes - TimezoneOffset \in 0..LastMinute /\ deciseconds \in 0..599
  BY DEF Readable, AsciiTags
<1> HIDE DEF year, month, minutes, deciseconds
<1>2. month \in Months /\ deciseconds \in Deciseconds
  BY <1>1 DEF Months, Deciseconds
<1>3. ReadsAs(writeDateTime(Date(year, month, minutes, deciseconds)), "dateTime", name,
              Date(year, month, minutes, deciseconds))
  BY <1>1, <1>2, DateRead, Zenon
<1> QED BY <1>1, <1>3, WriteByTag, Zenon

\* The syntax of a value that is neither a name nor a text is its tag.
LEMMA TagOfSyntax ==
  ASSUME NEW syntax, syntax \notin {"name", "text"}, NEW value
  PROVE  resolveValueTag(syntax, value) = syntax
  BY DEF resolveValueTag

\* What writeValue (codec.ts:397) writes of a readable value of an attribute of the
\* tables has the tag of the value (codec.ts:230), and readValue (codec.ts:639) reads the
\* value again at any place of any buffer, whatever its length.
THEOREM ValueReadsBack ==
  ASSUME NEW group \in DOMAIN groupAttributeSyntax,
         NEW word \in DOMAIN groupAttributeSyntax[group], NEW syntax,
         syntax = groupAttributeSyntax[group][word], NEW value, Readable(word, syntax, value),
         NEW tag, tag = resolveValueTag(syntax, value)
  PROVE  tag \in RequestTags /\ ReadsAs(writeValue(W(word), tag, value), tag, W(word), value)
<1>1. syntax \in Syntaxes /\ (syntax = "enum" => word = "job-state")
  BY SyntaxKnown, Zenon
<1>2. CASE syntax = "integer"
  <2>1. tag = "integer"
    BY <1>2, TagOfSyntax
  <2> QED BY <1>2, <2>1, ReadableInteger DEF RequestTags
<1>3. CASE syntax = "boolean"
  <2>1. tag = "boolean"
    BY <1>3, TagOfSyntax
  <2> QED BY <1>3, <2>1, ReadableBoolean DEF RequestTags
<1>4. CASE syntax = "enum"
  <2>1. tag = "enum" /\ word = "job-state"
    BY <1>1, <1>4, TagOfSyntax
  <2> QED BY <1>4, <2>1, ReadableEnum DEF RequestTags
<1>5. CASE syntax \in AsciiTags
  <2>1. syntax \notin {"name", "text"}
    BY <1>5 DEF AsciiTags
  <2>2. tag = syntax
    BY <2>1, TagOfSyntax
  <2> QED BY <1>5, <2>2, ReadableAscii DEF RequestTags, AsciiTags
<1>6. CASE syntax = "name"
  <2>1. IsText(value, Characters \ {LanguageSeparator})
    BY <1>6 DEF Readable, AsciiTags
  <2>2. tag = "nameWithoutLanguage" /\ IsText(value, Characters)
    BY <1>6, <2>1, TextNotQualified
  <2>3. tag \in TextTags \ {"memberAttrName"} /\ tag \in RequestTags
    BY <2>2 DEF TextTags, RequestTags
  <2> QED BY <2>2, <2>3, ReadableText
<1>7. CASE syntax = "text"
  <2>1. IsText(value, Characters \ {LanguageSeparator})
    BY <1>7 DEF Readable, AsciiTags
  <2>2. tag = "textWithoutLanguage" /\ IsText(value, Characters)
    BY <1>7, <2>1, TextNotQualified
  <2>3. tag \in TextTags \ {"memberAttrName"} /\ tag \in RequestTags
    BY <2>2 DEF TextTags, RequestTags
  <2> QED BY <2>2, <2>3, ReadableText
<1>8. CASE syntax = "octetString"
  <2>1. IsText(value, Characters)
    BY <1>8 DEF Readable, AsciiTags
  <2>2. tag = "octetString"
    BY <1>8, TagOfSyntax
  <2>3. tag \in TextTags \ {"memberAttrName"} /\ tag \in RequestTags
    BY <2>2 DEF TextTags, RequestTags
  <2> QED BY <2>1, <2>3, ReadableText
<1>9. CASE syntax = "resolution"
  <2>1. tag = "resolution"
    BY <1>9, TagOfSyntax
  <2> QED BY <1>9, <2>1, ReadableResolution DEF RequestTags
<1>10. CASE syntax = "dateTime"
  <2>1. tag = "dateTime"
    BY <1>10, TagOfSyntax
  <2> QED BY <1>10, <2>1, ReadableDate DEF RequestTags
<1> QED BY <1>1, <1>2, <1>3, <1>4, <1>5, <1>6, <1>7, <1>8, <1>9, <1>10 DEF Syntaxes, AsciiTags

-----------------------------------------------------------------------------
(* The loops of the reader *)

\* What a function makes of a start, again and again.
Orbit(f, t, start, last) == f[0] = start /\ \A n \in 1..last : f[n] = t[f[n - 1]]

\* It keeps its place or moves on, and there are so many places.
MovesOn(S, t, last) ==
  \A s \in S : s.next \in 1..(last + 1) /\ (t[s] = s \/ t[s].next > s.next)

\* A function that takes a set to itself can be applied again and again.
LEMMA OrbitExists ==
  ASSUME NEW S, NEW t \in [S -> S], NEW start \in S, NEW last \in Nat
  PROVE  \E f \in [0..last -> S] : Orbit(f, t, start, last)
<1> DEFINE UpTo(n, f) == /\ f = [i \in 0..n |-> IF i = 0 THEN start ELSE t[f[i - 1]]]
                         /\ f \in [0..n -> S]
           Defined == {n \in Nat : \E f : UpTo(n, f)}
<1>1. ASSUME NEW n \in Nat, NEW f, UpTo(n, f) PROVE n + 1 \in Defined
  <2> DEFINE g == [i \in 0..(n + 1) |-> IF i = n + 1 THEN t[f[n]] ELSE f[i]]
  <2>1. f[n] \in S
    BY <1>1
  <2>2. ASSUME NEW i \in 0..(n + 1)
        PROVE  g[i] \in S /\ g[i] = IF i = 0 THEN start ELSE t[g[i - 1]]
    <3>1. CASE i = n + 1
      <4>1. i # 0 /\ i - 1 = n /\ n \in 0..(n + 1) /\ n # n + 1
        BY <3>1
      <4>2. g[n] = f[n]
        BY <4>1
      <4>3. g[i] = t[f[n]] /\ t[f[n]] \in S
        BY <2>1, <3>1
      <4> QED BY <4>1, <4>2, <4>3
    <3>2. CASE i # n + 1
      <4>1. i \in 0..n
        BY <3>2
      <4>2. f[i] \in S /\ f[i] = IF i = 0 THEN start ELSE t[f[i - 1]]
        BY <4>1, <1>1
      <4>3. g[i] = f[i] /\ (i # 0 => g[i - 1] = f[i - 1])
        BY <4>1
      <4> QED BY <4>2, <4>3
    <3> QED BY <3>1, <3>2
  <2>3. UpTo(n + 1, g)
    <3>1. g = [i \in 0..(n + 1) |-> g[i]]
      OBVIOUS
    <3> HIDE DEF g
    <3>2. g \in [0..(n + 1) -> S]
      BY <2>2, <3>1
    <3>3. g = [i \in 0..(n + 1) |-> IF i = 0 THEN start ELSE t[g[i - 1]]]
      BY <2>2, <3>1
    <3> QED BY <3>2, <3>3
  <2> HIDE DEF g, UpTo
  <2>4. n + 1 \in Nat
    OBVIOUS
  <2> QED BY <2>3, <2>4, Zenon
<1>2. 0 \in Defined
  <2> DEFINE g == [i \in 0..0 |-> start]
  <2>1. UpTo(0, g)
    <3>1. g \in [0..0 -> S]
      OBVIOUS
    <3>2. \A i \in 0..0 : i = 0
      OBVIOUS
    <3> QED BY <3>1, <3>2
  <2> HIDE DEF g, UpTo
  <2> QED BY <2>1
<1>3. ASSUME NEW n \in Nat, n \in Defined PROVE n + 1 \in Defined
  <2>1. PICK f : UpTo(n, f)
    BY <1>3
  <2> QED BY <1>1, <2>1, Zenon
<1> HIDE DEF Defined
<1>4. 1 \in Defined /\ \A i \in 1..(last - 1) : i \in Defined => i + 1 \in Defined
  <2>1. 0 + 1 = 1 /\ 0 \in Nat /\ \A i \in 1..(last - 1) : i \in Nat
    OBVIOUS
  <2>2. 1 \in Defined
    BY <1>2, <1>3, <2>1
  <2> QED BY <1>3, <2>1, <2>2
<1>5. \A i \in 1..last : i \in Defined
  BY <1>4, StepByStep
<1>6. last \in Defined
  BY <1>2, <1>5
<1>7. PICK f : UpTo(last, f)
  BY <1>6 DEF Defined
<1>8. Orbit(f, t, start, last)
  <2>1. 0 \in 0..last /\ \A n \in 1..last : n \in 0..last /\ n # 0
    OBVIOUS
  <2> QED BY <1>7, <2>1 DEF Orbit
<1> QED BY <1>7, <1>8

\* What keeps its place or moves on has kept its place after as many turns as there
\* are places.
LEMMA OrbitSettles ==
  ASSUME NEW S, NEW t \in [S -> S], NEW last \in Nat, NEW f \in [0..last -> S],
         NEW start, Orbit(f, t, start, last), MovesOn(S, t, last)
  PROVE  \E n \in 0..last : t[f[n]].next = f[n].next
<1> SUFFICES ASSUME \A n \in 0..last : t[f[n]].next # f[n].next
             PROVE  FALSE
  OBVIOUS
<1> DEFINE Moved == {n \in 1..last : f[n].next > n}
<1>1. \A n \in 0..last : /\ f[n] \in S /\ t[f[n]] \in S /\ f[n].next \in Int /\ t[f[n]].next \in Int
                         /\ t[f[n]].next > f[n].next /\ f[n].next > 0
  BY SMTT(30) DEF MovesOn
<1>2. \A n \in 1..last : n \in Moved
  <2>1. ASSUME last > 0 PROVE 1 \in Moved
    <3>1. 1 \in 1..last /\ 0 \in 0..last /\ 1 - 1 = 0
      BY <2>1
    <3>2. f[1] = t[f[0]] /\ f[0].next \in Int /\ f[1].next \in Int /\ f[0].next > 0
          /\ f[1].next > f[0].next
      BY <1>1, <3>1 DEF Orbit
    <3> QED BY <3>1, <3>2
  <2>2. ASSUME NEW n \in 1..(last - 1), n \in Moved PROVE n + 1 \in Moved
    <3>1. n + 1 \in 1..last /\ n \in 0..last /\ (n + 1) - 1 = n
      OBVIOUS
    <3>2. f[n + 1] = t[f[n]] /\ f[n].next \in Int /\ f[n + 1].next \in Int
          /\ f[n + 1].next > f[n].next /\ f[n].next > n
      BY <1>1, <2>2, <3>1 DEF Orbit
    <3> QED BY <3>1, <3>2
  <2> HIDE DEF Moved
  <2> QED BY <2>1, <2>2, StepByStep
<1>3. f[last].next > last
  <2>1. CASE last = 0
    BY <1>1, <2>1
  <2>2. CASE last # 0
    <3>1. last \in 1..last
      BY <2>2
    <3> QED BY <1>2, <3>1
  <2> QED BY <2>1, <2>2
<1>4. /\ f[last].next \in Int /\ t[f[last]].next \in Int /\ t[f[last]].next > f[last].next
      /\ t[f[last]] \in S
  BY <1>1
<1>5. t[f[last]].next \in 1..(last + 1)
  BY <1>4 DEF MovesOn
<1> QED BY <1>3, <1>4, <1>5

ValuesRun(buffer, collection, name, start) ==
  Loop(buffer, start, LAMBDA so : nextValue(buffer, collection, name, so))

\* A turn of this loop keeps its place or moves on.
ValuesMove(buffer, collection, name, S) ==
  \A s \in S :
    LET turned == nextValue(buffer, collection, name, s)
    IN /\ s.next \in 1..(Len(buffer) + 1) /\ turned \in S
       /\ turned = s \/ turned.next > s.next

\* The loop over the values of an attribute comes to a place that it keeps.
LEMMA ValuesLoop ==
  ASSUME NEW buffer \in Seq(Byte), NEW collection, NEW name, NEW S, NEW start \in S,
         ValuesMove(buffer, collection, name, S)
  PROVE  \E s \in S :
           /\ nextValue(buffer, collection, name, s) = s
           /\ ValuesRun(buffer, collection, name, start) = s
<1> DEFINE last == Len(buffer)
           T(s) == nextValue(buffer, collection, name, s)
           t == [s \in S |-> T(s)]
           Runs(f) == f = [n \in 0..last |-> IF n = 0 THEN start ELSE T(f[n - 1])]
           after == CHOOSE f : Runs(f)
           end == CHOOSE n \in 0..last : T(after[n]).next = after[n].next
<1>1. ValuesRun(buffer, collection, name, start) = after[end]
  BY DEF Loop, ValuesRun
<1>2. last \in Nat
  OBVIOUS
<1>3. t \in [S -> S] /\ (\A s \in S : t[s] = T(s)) /\ MovesOn(S, t, last)
  BY DEF MovesOn, ValuesMove
<1> HIDE DEF last, t, T
<1>4. \E f : Runs(f)
  <2>0. t \in [S -> S]
    BY <1>3
  <2>1. PICK f \in [0..last -> S] : Orbit(f, t, start, last)
    BY <1>2, <2>0, OrbitExists, Zenon
  <2>2. \A n \in 0..last : n # 0 => n - 1 \in 0..last
    BY <1>2
  <2>3. \A n \in 0..last : n # 0 => t[f[n - 1]] = T(f[n - 1])
    BY <1>3, <2>1, <2>2
  <2>4. \A n \in 0..last : f[n] = IF n = 0 THEN start ELSE T(f[n - 1])
    <3>1. \A n \in 0..last : n # 0 => n \in 1..last
      BY <1>2
    <3> QED BY <2>1, <2>3, <3>1 DEF Orbit
  <2>5. Runs(f)
    BY <2>1, <2>4
  <2> HIDE DEF Runs
  <2> QED BY <2>5
<1>5. Runs(after)
  BY <1>4
<1> HIDE DEF after
<1>6. after[0] = start /\ \A n \in 1..last : after[n] = T(after[n - 1])
  <2>1. 0 \in 0..last /\ \A n \in 1..last : n \in 0..last /\ n # 0
    BY <1>2
  <2> QED BY <1>5, <2>1
<1>7. \A n \in 0..last : after[n] \in S
  <2> DEFINE Good == {n \in 1..last : after[n] \in S}
  <2>1. ASSUME last > 0 PROVE 1 \in Good
    <3>1. 1 \in 1..last /\ 1 - 1 = 0
      BY <1>2, <2>1
    <3> QED BY <1>3, <1>6, <3>1
  <2>2. ASSUME NEW n \in 1..(last - 1), n \in Good PROVE n + 1 \in Good
    <3>1. n + 1 \in 1..last /\ (n + 1) - 1 = n
      BY <1>2
    <3> QED BY <1>3, <1>6, <2>2, <3>1
  <2>3. \A n \in 1..last : n \in Good
    <3> HIDE DEF Good
    <3> QED BY <1>2, <2>1, <2>2, StepByStep
  <2>4. \A n \in 0..last : n = 0 \/ n \in 1..last
    BY <1>2
  <2> QED BY <1>6, <2>3, <2>4
<1>8. after \in [0..last -> S]
  BY <1>5, <1>7
<1>9. \A n \in 1..last : after[n] = t[after[n - 1]]
  <2>1. \A n \in 1..last : n - 1 \in 0..last
    BY <1>2
  <2> QED BY <1>3, <1>6, <1>7, <2>1
<1>10. \E n \in 0..last : t[after[n]].next = after[n].next
  <2>1. t \in [S -> S] /\ MovesOn(S, t, last)
    BY <1>3
  <2>2. Orbit(after, t, start, last)
    BY <1>6, <1>9 DEF Orbit
  <2> QED BY <1>2, <1>8, <2>1, <2>2, OrbitSettles, SMTT(30)
<1>11. \E n \in 0..last : T(after[n]).next = after[n].next
  BY <1>3, <1>7, <1>10
<1>12. end \in 0..last /\ T(after[end]).next = after[end].next
  BY <1>11
<1> HIDE DEF end
<1>13. after[end] \in S /\ T(after[end]) = after[end]
  <2>1. after[end] \in S /\ t[after[end]] = T(after[end])
    BY <1>3, <1>7, <1>12
  <2>2. after[end].next \in 1..(last + 1)
    BY <1>3, <2>1 DEF MovesOn
  <2>3. ~ (T(after[end]).next > after[end].next)
    BY <1>2, <1>12, <2>2
  <2> QED BY <1>3, <2>1, <2>3 DEF MovesOn
<1> QED BY <1>1, <1>13 DEF T

AttributesRun(buffer, collection, start) ==
  Loop(buffer, start, LAMBDA so : nextAttribute(buffer, collection, so))

\* A turn of this loop keeps its place or moves on.
AttributesMove(buffer, collection, S) ==
  \A s \in S :
    LET turned == nextAttribute(buffer, collection, s)
    IN /\ s.next \in 1..(Len(buffer) + 1) /\ turned \in S
       /\ turned = s \/ turned.next > s.next

\* The loop over the attributes of a group comes to a place that it keeps.
LEMMA AttributesLoop ==
  ASSUME NEW buffer \in Seq(Byte), NEW collection, NEW S, NEW start \in S,
         AttributesMove(buffer, collection, S)
  PROVE  \E s \in S :
           /\ nextAttribute(buffer, collection, s) = s
           /\ AttributesRun(buffer, collection, start) = s
<1> DEFINE last == Len(buffer)
           T(s) == nextAttribute(buffer, collection, s)
           t == [s \in S |-> T(s)]
           Runs(f) == f = [n \in 0..last |-> IF n = 0 THEN start ELSE T(f[n - 1])]
           after == CHOOSE f : Runs(f)
           end == CHOOSE n \in 0..last : T(after[n]).next = after[n].next
<1>1. AttributesRun(buffer, collection, start) = after[end]
  BY DEF Loop, AttributesRun
<1>2. last \in Nat
  OBVIOUS
<1>3. t \in [S -> S] /\ (\A s \in S : t[s] = T(s)) /\ MovesOn(S, t, last)
  BY DEF MovesOn, AttributesMove
<1> HIDE DEF last, t, T
<1>4. \E f : Runs(f)
  <2>0. t \in [S -> S]
    BY <1>3
  <2>1. PICK f \in [0..last -> S] : Orbit(f, t, start, last)
    BY <1>2, <2>0, OrbitExists, Zenon
  <2>2. \A n \in 0..last : n # 0 => n - 1 \in 0..last
    BY <1>2
  <2>3. \A n \in 0..last : n # 0 => t[f[n - 1]] = T(f[n - 1])
    BY <1>3, <2>1, <2>2
  <2>4. \A n \in 0..last : f[n] = IF n = 0 THEN start ELSE T(f[n - 1])
    <3>1. \A n \in 0..last : n # 0 => n \in 1..last
      BY <1>2
    <3> QED BY <2>1, <2>3, <3>1 DEF Orbit
  <2>5. Runs(f)
    BY <2>1, <2>4
  <2> HIDE DEF Runs
  <2> QED BY <2>5
<1>5. Runs(after)
  BY <1>4
<1> HIDE DEF after
<1>6. after[0] = start /\ \A n \in 1..last : after[n] = T(after[n - 1])
  <2>1. 0 \in 0..last /\ \A n \in 1..last : n \in 0..last /\ n # 0
    BY <1>2
  <2> QED BY <1>5, <2>1
<1>7. \A n \in 0..last : after[n] \in S
  <2> DEFINE Good == {n \in 1..last : after[n] \in S}
  <2>1. ASSUME last > 0 PROVE 1 \in Good
    <3>1. 1 \in 1..last /\ 1 - 1 = 0
      BY <1>2, <2>1
    <3> QED BY <1>3, <1>6, <3>1
  <2>2. ASSUME NEW n \in 1..(last - 1), n \in Good PROVE n + 1 \in Good
    <3>1. n + 1 \in 1..last /\ (n + 1) - 1 = n
      BY <1>2
    <3> QED BY <1>3, <1>6, <2>2, <3>1
  <2>3. \A n \in 1..last : n \in Good
    <3> HIDE DEF Good
    <3> QED BY <1>2, <2>1, <2>2, StepByStep
  <2>4. \A n \in 0..last : n = 0 \/ n \in 1..last
    BY <1>2
  <2> QED BY <1>6, <2>3, <2>4
<1>8. after \in [0..last -> S]
  BY <1>5, <1>7
<1>9. \A n \in 1..last : after[n] = t[after[n - 1]]
  <2>1. \A n \in 1..last : n - 1 \in 0..last
    BY <1>2
  <2> QED BY <1>3, <1>6, <1>7, <2>1
<1>10. \E n \in 0..last : t[after[n]].next = after[n].next
  <2>1. t \in [S -> S] /\ MovesOn(S, t, last)
    BY <1>3
  <2>2. Orbit(after, t, start, last)
    BY <1>6, <1>9 DEF Orbit
  <2> QED BY <1>2, <1>8, <2>1, <2>2, OrbitSettles, SMTT(30)
<1>11. \E n \in 0..last : T(after[n]).next = after[n].next
  BY <1>3, <1>7, <1>10
<1>12. end \in 0..last /\ T(after[end]).next = after[end].next
  BY <1>11
<1> HIDE DEF end
<1>13. after[end] \in S /\ T(after[end]) = after[end]
  <2>1. after[end] \in S /\ t[after[end]] = T(after[end])
    BY <1>3, <1>7, <1>12
  <2>2. after[end].next \in 1..(last + 1)
    BY <1>3, <2>1 DEF MovesOn
  <2>3. ~ (T(after[end]).next > after[end].next)
    BY <1>2, <1>12, <2>2
  <2> QED BY <1>3, <2>1, <2>3 DEF MovesOn
<1> QED BY <1>1, <1>13 DEF T

GroupsRun(buffer, collection, start) ==
  Loop(buffer, start, LAMBDA so : nextGroup(buffer, collection, so))

\* A turn of this loop keeps its place or moves on.
GroupsMove(buffer, collection, S) ==
  \A s \in S :
    LET turned == nextGroup(buffer, collection, s)
    IN /\ s.next \in 1..(Len(buffer) + 1) /\ turned \in S
       /\ turned = s \/ turned.next > s.next

\* The loop over the groups comes to a place that it keeps.
LEMMA GroupsLoop ==
  ASSUME NEW buffer \in Seq(Byte), NEW collection, NEW S, NEW start \in S,
         GroupsMove(buffer, collection, S)
  PROVE  \E s \in S :
           /\ nextGroup(buffer, collection, s) = s
           /\ GroupsRun(buffer, collection, start) = s
<1> DEFINE last == Len(buffer)
           T(s) == nextGroup(buffer, collection, s)
           t == [s \in S |-> T(s)]
           Runs(f) == f = [n \in 0..last |-> IF n = 0 THEN start ELSE T(f[n - 1])]
           after == CHOOSE f : Runs(f)
           end == CHOOSE n \in 0..last : T(after[n]).next = after[n].next
<1>1. GroupsRun(buffer, collection, start) = after[end]
  BY DEF Loop, GroupsRun
<1>2. last \in Nat
  OBVIOUS
<1>3. t \in [S -> S] /\ (\A s \in S : t[s] = T(s)) /\ MovesOn(S, t, last)
  BY DEF MovesOn, GroupsMove
<1> HIDE DEF last, t, T
<1>4. \E f : Runs(f)
  <2>0. t \in [S -> S]
    BY <1>3
  <2>1. PICK f \in [0..last -> S] : Orbit(f, t, start, last)
    BY <1>2, <2>0, OrbitExists, Zenon
  <2>2. \A n \in 0..last : n # 0 => n - 1 \in 0..last
    BY <1>2
  <2>3. \A n \in 0..last : n # 0 => t[f[n - 1]] = T(f[n - 1])
    BY <1>3, <2>1, <2>2
  <2>4. \A n \in 0..last : f[n] = IF n = 0 THEN start ELSE T(f[n - 1])
    <3>1. \A n \in 0..last : n # 0 => n \in 1..last
      BY <1>2
    <3> QED BY <2>1, <2>3, <3>1 DEF Orbit
  <2>5. Runs(f)
    BY <2>1, <2>4
  <2> HIDE DEF Runs
  <2> QED BY <2>5
<1>5. Runs(after)
  BY <1>4
<1> HIDE DEF after
<1>6. after[0] = start /\ \A n \in 1..last : after[n] = T(after[n - 1])
  <2>1. 0 \in 0..last /\ \A n \in 1..last : n \in 0..last /\ n # 0
    BY <1>2
  <2> QED BY <1>5, <2>1
<1>7. \A n \in 0..last : after[n] \in S
  <2> DEFINE Good == {n \in 1..last : after[n] \in S}
  <2>1. ASSUME last > 0 PROVE 1 \in Good
    <3>1. 1 \in 1..last /\ 1 - 1 = 0
      BY <1>2, <2>1
    <3> QED BY <1>3, <1>6, <3>1
  <2>2. ASSUME NEW n \in 1..(last - 1), n \in Good PROVE n + 1 \in Good
    <3>1. n + 1 \in 1..last /\ (n + 1) - 1 = n
      BY <1>2
    <3> QED BY <1>3, <1>6, <2>2, <3>1
  <2>3. \A n \in 1..last : n \in Good
    <3> HIDE DEF Good
    <3> QED BY <1>2, <2>1, <2>2, StepByStep
  <2>4. \A n \in 0..last : n = 0 \/ n \in 1..last
    BY <1>2
  <2> QED BY <1>6, <2>3, <2>4
<1>8. after \in [0..last -> S]
  BY <1>5, <1>7
<1>9. \A n \in 1..last : after[n] = t[after[n - 1]]
  <2>1. \A n \in 1..last : n - 1 \in 0..last
    BY <1>2
  <2> QED BY <1>3, <1>6, <1>7, <2>1
<1>10. \E n \in 0..last : t[after[n]].next = after[n].next
  <2>1. t \in [S -> S] /\ MovesOn(S, t, last)
    BY <1>3
  <2>2. Orbit(after, t, start, last)
    BY <1>6, <1>9 DEF Orbit
  <2> QED BY <1>2, <1>8, <2>1, <2>2, OrbitSettles, SMTT(30)
<1>11. \E n \in 0..last : T(after[n]).next = after[n].next
  BY <1>3, <1>7, <1>10
<1>12. end \in 0..last /\ T(after[end]).next = after[end].next
  BY <1>11
<1> HIDE DEF end
<1>13. after[end] \in S /\ T(after[end]) = after[end]
  <2>1. after[end] \in S /\ t[after[end]] = T(after[end])
    BY <1>3, <1>7, <1>12
  <2>2. after[end].next \in 1..(last + 1)
    BY <1>3, <2>1 DEF MovesOn
  <2>3. ~ (T(after[end]).next > after[end].next)
    BY <1>2, <1>12, <2>2
  <2> QED BY <1>3, <2>1, <2>3 DEF MovesOn
<1> QED BY <1>1, <1>13 DEF T

-----------------------------------------------------------------------------
(* Pieces of a message in a buffer *)

\* Where each sequence ends when they are put together, none of them included.
LEMMA PiecesPlaced ==
  ASSUME NEW S, NEW seqs \in Seq(Seq(S))
  PROVE  FlattenSeq(seqs) \in Seq(S) /\ \E end : Ends(seqs, FlattenSeq(seqs), end)
<1>1. CASE Len(seqs) # 0
  BY <1>1, FlattenPlaces, Zenon
<1>2. CASE Len(seqs) = 0
  <2>1. seqs = <<>>
    BY <1>2
  <2>2. FlattenSeq(<<>>) = <<>>
    BY DEF FlattenSeq
  <2>3. FlattenSeq(seqs) = <<>> /\ Len(FlattenSeq(seqs)) = 0
    BY <2>1, <2>2
  <2> DEFINE end == [i \in 0..0 |-> 0]
  <2>4. Ends(seqs, FlattenSeq(seqs), end)
    BY <1>2, <2>3 DEF Ends
  <2> QED BY <2>3, <2>4
<1> QED BY <1>1, <1>2

\* Each is written where those before it end.
LEMMA PiecesWritten ==
  ASSUME NEW S, NEW seqs \in Seq(Seq(S)), NEW buffer, NEW at \in Nat,
         Written(buffer, at, FlattenSeq(seqs)), NEW end, Ends(seqs, FlattenSeq(seqs), end),
         NEW i \in 1..Len(seqs)
  PROVE  Written(buffer, at + end[i - 1], seqs[i])
<1> DEFINE all == FlattenSeq(seqs)
<1>1. all \in Seq(S) /\ Len(all) \in Nat /\ DOMAIN all = 1..Len(all)
  BY PiecesPlaced
<1>2. /\ end \in [0..Len(seqs) -> Nat] /\ end[i] = end[i - 1] + Len(seqs[i]) /\ end[i] <= Len(all)
      /\ \A k \in 1..Len(seqs[i]) : all[end[i - 1] + k] = seqs[i][k]
  BY DEF Ends
<1>3. /\ Len(seqs) \in Nat /\ i - 1 \in 0..Len(seqs) /\ i \in 0..Len(seqs) /\ seqs[i] \in Seq(S)
      /\ DOMAIN seqs[i] = 1..Len(seqs[i]) /\ Len(seqs[i]) \in Nat
  OBVIOUS
<1>4. end[i - 1] \in Nat /\ end[i] \in Nat
  BY <1>2, <1>3
<1> HIDE DEF all
<1> DEFINE piece == seqs[i]
           from == end[i - 1]
<1>5. /\ from \in Nat /\ from + Len(piece) <= Len(all) /\ Len(piece) \in Nat
      /\ DOMAIN piece = 1..Len(piece) /\ \A k \in 1..Len(piece) : all[from + k] = piece[k]
  BY <1>2, <1>3, <1>4
<1> HIDE DEF piece, from
<1>6. ASSUME NEW k \in DOMAIN piece
      PROVE  at + from + k - 1 \in DOMAIN buffer /\ buffer[at + from + k - 1] = piece[k]
  <2>1. k \in 1..Len(piece) /\ from + k \in 1..Len(all) /\ at + (from + k) - 1 = at + from + k - 1
    BY <1>1, <1>5, SMTT(40)
  <2>2. /\ at + (from + k) - 1 \in DOMAIN buffer
        /\ buffer[at + (from + k) - 1] = all[from + k]
    BY <1>1, <2>1 DEF Written, all
  <2> QED BY <1>5, <2>1, <2>2
<1>7. Written(buffer, at + from, piece)
  BY <1>6 DEF Written
<1> QED BY <1>7 DEF piece, from

\* After a place between two of them there is nothing, or one that is not empty.
LEMMA NextPiece ==
  ASSUME NEW S, NEW seqs \in Seq(Seq(S)), NEW all, NEW end, Ends(seqs, all, end),
         NEW i \in 0..Len(seqs)
  PROVE  \/ /\ \A k \in (i + 1)..Len(seqs) : seqs[k] = <<>>
            /\ end[i] = Len(all)
         \/ \E j \in (i + 1)..Len(seqs) :
              /\ seqs[j] # <<>> /\ end[j - 1] = end[i]
              /\ \A k \in (i + 1)..(j - 1) : seqs[k] = <<>>
<1> DEFINE n == Len(seqs)
           Full == {j \in (i + 1)..n : seqs[j] # <<>>}
<1>1. n \in Nat /\ i \in 0..n
  OBVIOUS
<1>2. ASSUME NEW k \in (i + 1)..n, seqs[k] = <<>> PROVE end[k] = end[k - 1]
  <2>1. k \in 1..n /\ k - 1 \in 0..n /\ Len(seqs[k]) = 0
    BY <1>1, <1>2
  <2>2. end[k] = end[k - 1] + Len(seqs[k]) /\ end[k - 1] \in Nat
    BY <2>1 DEF Ends
  <2> QED BY <2>1, <2>2
<1>3. ASSUME NEW m \in i..n, \A k \in (i + 1)..m : seqs[k] = <<>>
      PROVE  end[m] = end[i]
  <2> DEFINE Same == {d \in Nat : i + d <= m => end[i + d] = end[i]}
  <2>1. m - i \in Nat /\ i + (m - i) = m
    BY <1>1
  <2>2. 1 \in Same
    <3>1. CASE i + 1 <= m
      <4>1. i + 1 \in (i + 1)..m /\ i + 1 \in (i + 1)..n /\ (i + 1) - 1 = i
        BY <1>1, <3>1
      <4> QED BY <1>2, <1>3, <4>1
    <3>2. CASE ~ (i + 1 <= m)
      BY <3>2
    <3> QED BY <3>1, <3>2
  <2>3. ASSUME NEW d \in 1..(m - i - 1), d \in Same PROVE d + 1 \in Same
    <3>1. d + 1 \in Nat /\ i + d <= m /\ i + (d + 1) \in (i + 1)..m /\ i + (d + 1) \in (i + 1)..n
          /\ (i + (d + 1)) - 1 = i + d
      BY <1>1
    <3>2. end[i + (d + 1)] = end[i + d]
      BY <1>2, <1>3, <3>1
    <3> QED BY <2>3, <3>1, <3>2
  <2>4. \A d \in 1..(m - i) : d \in Same
    <3> HIDE DEF Same
    <3> QED BY <2>1, <2>2, <2>3, StepByStep
  <2>5. CASE m = i
    BY <2>5
  <2>6. CASE m # i
    <3>1. m - i \in 1..(m - i)
      BY <1>1, <2>6
    <3>2. i + (m - i) <= m => end[i + (m - i)] = end[i]
      BY <2>4, <3>1
    <3>3. m <= m
      BY <1>1
    <3> QED BY <2>1, <3>2, <3>3
  <2> QED BY <2>5, <2>6
<1>4. CASE Full = {}
  <2>1. \A k \in (i + 1)..n : seqs[k] = <<>>
    BY <1>4
  <2>2. n \in i..n
    BY <1>1
  <2>3. end[n] = end[i]
    BY <1>3, <2>1, <2>2
  <2> QED BY <2>1, <2>3 DEF Ends
<1>5. CASE Full # {}
  <2>1. Full \subseteq Nat
    BY <1>1
  <2>2. PICK j \in Full : \A k \in Full : j <= k
    BY <1>5, <2>1, LeastNumber, Zenon
  <2>3. j \in (i + 1)..n /\ seqs[j] # <<>> /\ j - 1 \in i..n
    BY <1>1, <2>2
  <2>4. \A k \in (i + 1)..(j - 1) : seqs[k] = <<>>
    <3>1. \A k \in (i + 1)..(j - 1) : k \in (i + 1)..n /\ ~ (j <= k)
      BY <1>1, <2>3
    <3> QED BY <2>2, <3>1
  <2>5. end[j - 1] = end[i]
    BY <1>3, <2>3, <2>4
  <2> QED BY <2>3, <2>4, <2>5
<1> QED BY <1>4, <1>5

\* The tags of a request are tags of values, and none of those that end a list.
LEMMA RequestTagsKnown ==
  ASSUME NEW tag \in RequestTags
  PROVE  /\ tag \in DOMAIN ValueTags /\ ippTags[tag] \in Byte /\ ippTags[tag] >= 15
         /\ ippTags[tag] \notin {ippTags["memberAttrName"], ippTags["endCollection"],
                                 ippTags["end-of-attributes-tag"]}
<1>1. tag \in DOMAIN ValueTags
  BY ValueTagsKnown DEF RequestTags
<1>2. ippTags[tag] \in 16..74 /\ ippTags[tag] # 74 /\ ippTags[tag] # 55
  <2>1. ippTags[tag] = ValueTags[tag] /\ ValueTags[tag] \in 16..74
    BY <1>1, TagsKnown, ValueTagsApart
  <2>2. ValueTags[tag] # 74 /\ ValueTags[tag] # 55
    BY ValueTagsKnown DEF RequestTags
  <2> QED BY <2>1, <2>2
<1>3. /\ ippTags["memberAttrName"] = 74 /\ ippTags["endCollection"] = 55
      /\ ippTags["end-of-attributes-tag"] = 3
  BY TagsKnown, ValueTagsKnown, GroupTagsKnown
<1>4. ippTags[tag] \in Byte
  BY <1>2 DEF Byte
<1> QED BY <1>1, <1>2, <1>3, <1>4

\* A name is read as it was written.
LEMMA NameReadBack ==
  ASSUME NEW word \in DOMAIN Spelling
  PROVE  \E c \in Byte : W(word) = <<c>> /\ FromUtf8(<<c>>) = <<c>>
<1> DEFINE c == W(word)[1]
<1>1. c \in 33..126 /\ W(word) = <<c>>
  <2> DEFINE w == W(word)
             Printable == 33..126
  <2>1. w \in Seq(Printable) /\ Len(w) = 1
    BY SpelledInAscii, Zenon
  <2> HIDE DEF w, Printable
  <2>2. w[1] \in Printable
    BY <2>1, SMTT(40)
  <2>3. w = [k \in 1..Len(w) |-> w[k]] /\ 1..Len(w) = {1}
    BY <2>1
  <2>4. w = <<w[1]>>
    BY <2>3
  <2> QED BY <2>2, <2>4 DEF w, Printable
<1> HIDE DEF c
<1>2. c \in Characters /\ c \in Byte /\ c < 128
  BY <1>1 DEF Characters, Byte
<1>3. Utf8(<<c>>) = <<c>>
  <2>1. <<c>> \in Seq(Byte) /\ DOMAIN <<c>> = {1}
    BY <1>2
  <2>2. Utf8Char(c) = <<c>>
    BY <1>2 DEF Utf8Char
  <2>3. Utf8(<<c>>) = FlattenSeq([i \in DOMAIN <<c>> |-> Utf8Char(<<c>>[i])])
    BY DEF Utf8
  <2>4. \A i \in DOMAIN <<c>> : Utf8Char(<<c>>[i]) = <<(<<c>>)[i]>>
    BY <2>1, <2>2
  <2>5. [i \in DOMAIN <<c>> |-> Utf8Char(<<c>>[i])] = [i \in DOMAIN <<c>> |-> <<(<<c>>)[i]>>]
    BY <2>4
  <2> QED BY <2>1, <2>3, <2>5, FlattenUnits
<1>4. FromUtf8(Utf8(<<c>>)) = <<c>>
  <2>1. <<c>> \in Seq(Characters)
    BY <1>2
  <2> QED BY <2>1, CharsReadBack
<1> QED BY <1>1, <1>2, <1>3, <1>4

\* A tag, the length of a name, the name and the rest, and where they are in a buffer.
TagFirst(bytes, code, name, rest) ==
  /\ bytes \in Seq(Byte) /\ Len(bytes) = 3 + Len(name) + Len(rest)
  /\ \A buffer \in Seq(Byte), at \in Nat \ {0} : Written(buffer, at, bytes) =>
       /\ at + 2 <= Len(buffer)
       /\ buffer[at] = code /\ buffer[at + 1] = 0 /\ buffer[at + 2] = Len(name)
       /\ Written(buffer, at + 3, name) /\ Written(buffer, at + 3 + Len(name), rest)

\* What begins with a tag and a length.
LEMMA TagAndLength ==
  ASSUME NEW code \in Byte, NEW name \in Seq(Byte), Len(name) \in {0, 1},
         NEW rest \in Seq(Byte)
  PROVE  TagFirst(<<code>> \o Sized(name) \o rest, code, name, rest)
<1> DEFINE n == Len(name)
           tag == <<code>>
           size == UInt16(n)
           named == Sized(name)
<1>0. n \in {0, 1} /\ Len(name) = n
  OBVIOUS
<1> HIDE DEF n
<1>1. tag \in Seq(Byte) /\ Len(tag) = 1 /\ tag[1] = code /\ DOMAIN tag = {1}
  OBVIOUS
<1>2. size \in Seq(Byte) /\ Len(size) = 2 /\ size[1] = 0 /\ size[2] = n /\ DOMAIN size = {1, 2}
  <2>1. n \div 256 = 0 /\ n % 256 = n /\ n \in Byte /\ 0 \in Byte
    BY <1>0 DEF Byte
  <2>2. size = <<0, n>>
    BY <2>1 DEF UInt16
  <2> QED BY <2>1, <2>2
<1>3. named = size \o name
  BY DEF Sized, n
<1> HIDE DEF tag, size, named
<1>4. named \in Seq(Byte) /\ Len(named) = 2 + n
  <2>1. size \o name \in Seq(Byte) /\ Len(size \o name) = Len(size) + Len(name)
    BY <1>2, Joined, ZenonT(60)
  <2> QED BY <1>0, <1>2, <1>3, <2>1
<1> DEFINE head == tag \o named
<1>5. head \in Seq(Byte) /\ Len(head) = 3 + n
  <2>1. tag \o named \in Seq(Byte) /\ Len(tag \o named) = Len(tag) + Len(named)
    BY <1>1, <1>4, Joined, ZenonT(60)
  <2> QED BY <1>0, <1>1, <1>4, <2>1
<1> HIDE DEF head
<1>6. head \o rest \in Seq(Byte) /\ Len(head \o rest) = 3 + n + Len(rest)
  <2>1. head \o rest \in Seq(Byte) /\ Len(head \o rest) = Len(head) + Len(rest)
    BY <1>5, Joined
  <2> QED BY <1>5, <2>1
<1>7. ASSUME NEW buffer \in Seq(Byte), NEW at \in Nat \ {0}, Written(buffer, at, head \o rest)
      PROVE  /\ at + 2 <= Len(buffer)
             /\ buffer[at] = code /\ buffer[at + 1] = 0 /\ buffer[at + 2] = n
             /\ Written(buffer, at + 3, name) /\ Written(buffer, at + 3 + n, rest)
  <2>1. Written(buffer, at, head) /\ Written(buffer, at + Len(head), rest)
    BY <1>5, <1>7, WrittenParts
  <2>2. Written(buffer, at, tag) /\ Written(buffer, at + 1, named)
    BY <1>1, <1>4, <2>1, WrittenParts DEF head
  <2>3. Written(buffer, at + 1, size) /\ Written(buffer, at + 1 + 2, name)
    <3>1. at + 1 \in Nat
      OBVIOUS
    <3> QED BY <1>2, <1>3, <2>2, <3>1, WrittenParts
  <2>4. at + 1 - 1 = at /\ (at + 1) + 1 - 1 = at + 1 /\ (at + 1) + 2 - 1 = at + 2 /\ at + 1 + 2 = at + 3
        /\ at + (3 + n) = at + 3 + n
    BY <1>0
  <2>5. buffer[at] = code
    BY <1>1, <2>2, <2>4 DEF Written
  <2>6. buffer[at + 1] = 0 /\ buffer[at + 2] = n /\ at + 2 \in DOMAIN buffer
    BY <1>2, <2>3, <2>4 DEF Written
  <2>7. at + 2 <= Len(buffer)
    BY <2>6
  <2>8. Written(buffer, at + 3, name)
    BY <2>3, <2>4
  <2>9. Written(buffer, at + 3 + n, rest)
    BY <1>5, <2>1, <2>4
  <2> QED BY <2>5, <2>6, <2>7, <2>8, <2>9, Zenon
<1>8. TagFirst(head \o rest, code, name, rest)
  BY <1>0, <1>6, <1>7 DEF TagFirst
<1>9. <<code>> \o Sized(name) \o rest = head \o rest
  BY DEF head, tag, named
<1> QED BY <1>8, <1>9

\* The bytes that are written at a place are the slice from there.
LEMMA SliceWritten ==
  ASSUME NEW buffer, NEW at \in Nat, NEW bytes \in Seq(Byte), Written(buffer, at, bytes)
  PROVE  Slice(buffer, at, Len(bytes)) = bytes
<1> DEFINE to == at + Len(bytes) - 1
<1>1. SubSeq(buffer, at, to) = bytes
  BY WrittenPart
<1> QED BY <1>1 DEF Slice

\* What a reader has read.
Done(value, next) == [ok |-> TRUE, value |-> value, next |-> next]

\* A further value of an attribute, and the first one with its name.
FurtherValue(bytes, name, value) ==
  /\ bytes \in Seq(Byte) /\ Len(bytes) > 0
  /\ \A buffer \in Seq(Byte), at \in Nat \ {0} : \A collection :
       Written(buffer, at, bytes) =>
         /\ hasAdditionalValue(buffer, at)
         /\ readValue(buffer, collection, at + 3, buffer[at], name) = Done(value, at + Len(bytes))

FirstValue(bytes, name, value) ==
  /\ bytes \in Seq(Byte) /\ Len(bytes) > 0
  /\ \A buffer \in Seq(Byte), at \in Nat \ {0} : \A collection :
       Written(buffer, at, bytes) =>
         /\ Fits(buffer, at, 3) /\ Fits(buffer, at + 3, 1) /\ buffer[at] >= 15
         /\ ~ hasAdditionalValue(buffer, at)
         /\ UInt16At(buffer, at + 1) = 1 /\ FromUtf8(Slice(buffer, at + 3, 1)) = name
         /\ readValue(buffer, collection, at + 4, buffer[at], name) = Done(value, at + Len(bytes))

ValueBytes(syntax, word, value, name) ==
  LET tag == resolveValueTag(syntax, value)
  IN <<ippTags[tag]>> \o Sized(name) \o writeValue(W(word), tag, value)

\* A readable value after the first one of its attribute is written as one.
LEMMA FurtherValueWritten ==
  ASSUME NEW group \in DOMAIN groupAttributeSyntax,
         NEW word \in DOMAIN groupAttributeSyntax[group], NEW syntax,
         syntax = groupAttributeSyntax[group][word], NEW value, Readable(word, syntax, value)
  PROVE  FurtherValue(ValueBytes(syntax, word, value, <<>>), W(word), value)
<1> DEFINE tag == resolveValueTag(syntax, value)
           code == ippTags[tag]
           rest == writeValue(W(word), tag, value)
           bytes == ValueBytes(syntax, word, value, <<>>)
           none == <<>>
<1>1. tag \in RequestTags /\ ReadsAs(rest, tag, W(word), value)
  BY ValueReadsBack, Zenon
<1>2. bytes = <<code>> \o Sized(none) \o rest
  BY DEF ValueBytes
<1>3. code = ippTags[tag] /\ none \in Seq(Byte) /\ Len(none) \in {0, 1} /\ Len(none) = 0
  OBVIOUS
<1> HIDE DEF tag, code, rest, bytes, none
<1>4. /\ code \in Byte
      /\ code \notin {ippTags["memberAttrName"], ippTags["endCollection"],
                      ippTags["end-of-attributes-tag"]}
  BY <1>1, <1>3, RequestTagsKnown
<1>5. /\ rest \in Seq(Byte)
      /\ \A buffer \in Seq(Byte), at \in Nat \ {0} : \A collection :
           Written(buffer, at, rest) =>
             readValue(buffer, collection, at, code, W(word)) = Done(value, at + Len(rest))
  BY <1>1, <1>3 DEF ReadsAs, Done
<1>t. TagFirst(bytes, code, none, rest)
  <2>1. code \in Byte /\ rest \in Seq(Byte) /\ none \in Seq(Byte) /\ Len(none) \in {0, 1}
    BY <1>3, <1>4, <1>5
  <2>2. TagFirst(<<code>> \o Sized(none) \o rest, code, none, rest)
    BY <2>1, TagAndLength, Zenon
  <2> QED BY <1>2, <2>2, Zenon
<1>6. bytes \in Seq(Byte) /\ Len(bytes) = 3 + Len(rest) /\ Len(rest) \in Nat
  <2>1. Len(rest) \in Nat
    BY <1>5
  <2> QED BY <1>t, <2>1, <1>3 DEF TagFirst
<1>7. ASSUME NEW buffer \in Seq(Byte), NEW at \in Nat \ {0}, NEW collection,
             Written(buffer, at, bytes)
      PROVE  /\ hasAdditionalValue(buffer, at)
             /\ readValue(buffer, collection, at + 3, buffer[at], W(word)) =
                  Done(value, at + Len(bytes))
  <2>1. at + 3 + Len(none) = at + 3 /\ at + 3 \in Nat \ {0}
    BY <1>3
  <2>2. /\ at + 2 <= Len(buffer)
        /\ buffer[at] = code /\ buffer[at + 1] = 0 /\ buffer[at + 2] = Len(none)
        /\ Written(buffer, at + 3 + Len(none), rest)
    BY <1>7, <1>t, Zenon DEF TagFirst
  <2>3. hasAdditionalValue(buffer, at)
    BY <1>3, <1>4, <2>2 DEF hasAdditionalValue
  <2>4. readValue(buffer, collection, at + 3, code, W(word)) = Done(value, at + 3 + Len(rest))
    BY <1>5, <2>1, <2>2
  <2>5. at + 3 + Len(rest) = at + Len(bytes)
    BY <1>6
  <2> QED BY <2>2, <2>3, <2>4, <2>5
<1>8. Len(bytes) > 0
  BY <1>6
<1> QED BY <1>6, <1>7, <1>8, Zenon DEF FurtherValue, bytes

\* A readable value that is the first one of its attribute is written as one.
LEMMA FirstValueWritten ==
  ASSUME NEW group \in DOMAIN groupAttributeSyntax,
         NEW word \in DOMAIN groupAttributeSyntax[group], NEW syntax,
         syntax = groupAttributeSyntax[group][word], NEW value, Readable(word, syntax, value)
  PROVE  FirstValue(ValueBytes(syntax, word, value, W(word)), W(word), value)
<1> DEFINE tag == resolveValueTag(syntax, value)
           code == ippTags[tag]
           rest == writeValue(W(word), tag, value)
           bytes == ValueBytes(syntax, word, value, W(word))
<1>1. tag \in RequestTags /\ ReadsAs(rest, tag, W(word), value)
  BY ValueReadsBack, Zenon
<1>2. bytes = <<code>> \o Sized(W(word)) \o rest
  BY DEF ValueBytes
<1>3. code = ippTags[tag]
  OBVIOUS
<1> HIDE DEF tag, code, rest, bytes
<1>4. code \in Byte /\ code >= 15
  BY <1>1, <1>3, RequestTagsKnown
<1>5. /\ rest \in Seq(Byte)
      /\ \A buffer \in Seq(Byte), at \in Nat \ {0} : \A collection :
           Written(buffer, at, rest) =>
             readValue(buffer, collection, at, code, W(word)) = Done(value, at + Len(rest))
  BY <1>1, <1>3 DEF ReadsAs, Done
<1>n. PICK c \in Byte : W(word) = <<c>> /\ FromUtf8(<<c>>) = <<c>>
  BY SyntaxKnown, NameReadBack
<1> DEFINE name == <<c>>
<1>m. name \in Seq(Byte) /\ Len(name) = 1 /\ Len(name) \in {0, 1} /\ bytes = <<code>> \o Sized(name) \o rest
      /\ W(word) = name /\ FromUtf8(name) = name
  BY <1>2, <1>n
<1> HIDE DEF name
<1>t. TagFirst(bytes, code, name, rest)
  <2>1. code \in Byte /\ rest \in Seq(Byte) /\ name \in Seq(Byte) /\ Len(name) \in {0, 1}
    BY <1>4, <1>5, <1>m
  <2>2. TagFirst(<<code>> \o Sized(name) \o rest, code, name, rest)
    BY <2>1, TagAndLength, Zenon
  <2> QED BY <1>m, <2>2, Zenon
<1>6. bytes \in Seq(Byte) /\ Len(bytes) = 4 + Len(rest) /\ Len(rest) \in Nat
  <2>1. Len(rest) \in Nat
    BY <1>5
  <2> QED BY <1>t, <2>1, <1>m DEF TagFirst
<1>7. ASSUME NEW buffer \in Seq(Byte), NEW at \in Nat \ {0}, NEW collection,
             Written(buffer, at, bytes)
      PROVE  /\ Fits(buffer, at, 3) /\ Fits(buffer, at + 3, 1) /\ buffer[at] >= 15
             /\ ~ hasAdditionalValue(buffer, at)
             /\ UInt16At(buffer, at + 1) = 1 /\ FromUtf8(Slice(buffer, at + 3, 1)) = W(word)
             /\ readValue(buffer, collection, at + 4, buffer[at], W(word)) =
                  Done(value, at + Len(bytes))
  <2>1. /\ at + 3 + Len(name) = at + 4 /\ at + 4 \in Nat \ {0} /\ at + 3 \in Nat \ {0} /\ at + 1 + 1 = at + 2
        /\ at + 3 + 1 - 1 = at + 3
    BY <1>m
  <2>2. /\ buffer[at] = code /\ buffer[at + 1] = 0 /\ buffer[at + 2] = Len(name)
        /\ Written(buffer, at + 3, name) /\ Written(buffer, at + 3 + Len(name), rest)
    BY <1>7, <1>t, Zenon DEF TagFirst
  <2>3. ~ hasAdditionalValue(buffer, at)
    BY <1>m, <2>2 DEF hasAdditionalValue
  <2>4. readValue(buffer, collection, at + 4, code, W(word)) = Done(value, at + 4 + Len(rest))
    BY <1>5, <2>1, <2>2
  <2>5. at + 4 + Len(rest) = at + Len(bytes)
    BY <1>6
  <2>6. UInt16At(buffer, at + 1) = 1
    BY <1>m, <2>1, <2>2 DEF UInt16At
  <2>7. at + 3 \in DOMAIN buffer
    <3>1. 1 \in DOMAIN name /\ at + 3 + 1 - 1 = at + 3
      BY <1>m
    <3> QED BY <2>2, <3>1 DEF Written
  <2>8. Fits(buffer, at, 3) /\ Fits(buffer, at + 3, 1)
    BY <2>7 DEF Fits
  <2>9. Slice(buffer, at + 3, 1) = name
    <3>1. Slice(buffer, at + 3, Len(name)) = name
      BY <1>m, <2>1, <2>2, SliceWritten
    <3> QED BY <1>m, <3>1
  <2>10. FromUtf8(Slice(buffer, at + 3, 1)) = W(word)
    BY <1>m, <2>9
  <2>11. buffer[at] >= 15 /\ readValue(buffer, collection, at + 4, buffer[at], W(word)) =
                  Done(value, at + Len(bytes))
    BY <1>4, <2>2, <2>4, <2>5
  <2> QED BY <2>3, <2>6, <2>8, <2>10, <2>11, Zenon
<1>8. Len(bytes) > 0
  BY <1>6
<1> QED BY <1>6, <1>7, <1>8, Zenon DEF FirstValue, bytes

\* The first elements of a sequence.
Firsts(s, k) == [i \in 1..k |-> s[i]]

\* The first elements and the next one are the first elements, one more.
LEMMA FirstsGrow ==
  ASSUME NEW S, NEW s \in Seq(S), NEW k \in 1..(Len(s) - 1)
  PROVE  Append(Firsts(s, k), s[k + 1]) = Firsts(s, k + 1)
<1> DEFINE f == Firsts(s, k)
           e == s[k + 1]
<1>1. f \in Seq(S) /\ Len(f) = k /\ (\A i \in 1..k : f[i] = s[i]) /\ e \in S /\ k \in Nat
  BY DEF Firsts
<1>2. Firsts(s, k + 1) = [i \in 1..(k + 1) |-> IF i <= k THEN f[i] ELSE e]
  <2>1. \A i \in 1..(k + 1) : s[i] = IF i <= k THEN f[i] ELSE e
    <3>1. ASSUME NEW i \in 1..(k + 1) PROVE s[i] = IF i <= k THEN f[i] ELSE e
      <4>1. i <= k => i \in 1..k
        OBVIOUS
      <4>2. ~ (i <= k) => i = k + 1
        OBVIOUS
      <4> HIDE DEF f
      <4> QED BY <1>1, <4>1, <4>2
    <3> QED BY <3>1
  <2> QED BY <2>1 DEF Firsts
<1> HIDE DEF f, e
<1>3. Append(f, e) = [i \in 1..(k + 1) |-> IF i <= k THEN f[i] ELSE e]
  <2> DEFINE g == Append(f, e)
  <2>1. g \in Seq(S) /\ Len(g) = k + 1 /\ \A i \in 1..(k + 1) : g[i] = IF i <= k THEN f[i] ELSE e
    BY <1>1
  <2> HIDE DEF g
  <2>2. g = [i \in 1..(k + 1) |-> g[i]]
    BY <2>1
  <2>3. g = [i \in 1..(k + 1) |-> IF i <= k THEN f[i] ELSE e]
    BY <2>1, <2>2
  <2> QED BY <2>3 DEF g
<1> QED BY <1>2, <1>3 DEF f, e

\* All the first elements are the sequence.
LEMMA FirstsAll ==
  ASSUME NEW S, NEW s \in Seq(S)
  PROVE  Firsts(s, Len(s)) = s
  BY DEF Firsts

\* One value as it is, several as an array.
OneOrAll(values) == IF Len(values) = 1 THEN values[1] ELSE Arr(values)

\* What has been read, with another value.
LEMMA DoneExcept ==
  ASSUME NEW v, NEW w, NEW p
  PROVE [Done(v, p) EXCEPT !.value = w] = Done(w, p)
<1> DEFINE x == Done(v, p)
           y == Done(w, p)
           z == [x EXCEPT !.value = w]
           D == {"ok", "value", "next"}
<1>1. x = [i \in D |-> x[i]]
  BY DEF Done
<1>2. y = [i \in D |-> y[i]]
  BY DEF Done
<1>3. x.ok = TRUE /\ x.value = v /\ x.next = p /\ y.ok = TRUE /\ y.value = w /\ y.next = p
  BY DEF Done
<1> HIDE DEF x, y
<1>4. z = [i \in D |-> z[i]]
  BY <1>1
<1>5. z.ok = TRUE /\ z.value = w /\ z.next = p
  BY <1>1, <1>3
<1> HIDE DEF z
<1>6. \A i \in D : z[i] = y[i]
  BY <1>3, <1>5
<1>7. z = y
  BY <1>2, <1>4, <1>6
<1> QED BY <1>7 DEF x, y, z

\* The values of an attribute, and what is written of each.
ValuesWritten(seqs, name, values) ==
  /\ IsSequence(values) /\ values # <<>>
  /\ seqs \in Seq(Seq(Byte)) /\ Len(seqs) = Len(values)
  /\ FirstValue(seqs[1], name, values[1])
  /\ \A i \in 2..Len(values) : FurtherValue(seqs[i], name, values[i])

\* The values of an attribute are read until nothing says that one follows.
LEMMA ValuesReadBack ==
  ASSUME NEW name, NEW values, NEW seqs, ValuesWritten(seqs, name, values),
         NEW buffer \in Seq(Byte), NEW at \in Nat \ {0}, NEW collection,
         Written(buffer, at, FlattenSeq(seqs)),
         ~ hasAdditionalValue(buffer, at + Len(FlattenSeq(seqs)))
  PROVE  readValues(buffer, collection, at + 4, buffer[at], name) =
           Done(OneOrAll(values), at + Len(FlattenSeq(seqs)))
<1> DEFINE n == Len(values)
           all == FlattenSeq(seqs)
           V == ToSet(values)
<1>0. /\ values \in Seq(V) /\ seqs \in Seq(Seq(Byte)) /\ Len(seqs) = Len(values) /\ Len(values) # 0
      /\ FirstValue(seqs[1], name, values[1])
      /\ \A i \in 2..Len(values) : FurtherValue(seqs[i], name, values[i])
  <2>1. IsSequence(values) /\ values # <<>>
    BY DEF ValuesWritten
  <2>2. values \in Seq(V) /\ values # <<>>
    BY <2>1 DEF IsSequence
  <2> HIDE DEF V
  <2>3. Len(values) # 0
    BY <2>2
  <2> QED BY <2>2, <2>3 DEF ValuesWritten
<1> HIDE DEF V
<1>1. n \in Nat \ {0} /\ Len(seqs) = n /\ all \in Seq(Byte) /\ Len(all) \in Nat
  BY <1>0, PiecesPlaced
<1>2. PICK end : Ends(seqs, all, end)
  BY <1>0, PiecesPlaced
<1>3. /\ end \in [0..n -> Nat] /\ end[0] = 0 /\ end[n] = Len(all)
      /\ \A i \in 1..n : end[i] = end[i - 1] + Len(seqs[i]) /\ end[i] <= Len(all)
  BY <1>1, <1>2 DEF Ends
<1>4. \A i \in 1..n : Written(buffer, at + end[i - 1], seqs[i])
  BY <1>0, <1>1, <1>2, PiecesWritten
<1>5. \A i \in 1..n : seqs[i] \in Seq(Byte) /\ Len(seqs[i]) \in Nat /\ Len(seqs[i]) > 0 /\ values[i] \in V
  <2>1. ASSUME NEW i \in 1..n PROVE Len(seqs[i]) > 0
    <3>1. i = 1 \/ i \in 2..n
      BY <1>1
    <3> QED BY <1>0, <3>1 DEF FirstValue, FurtherValue
  <2> QED BY <1>0, <1>1, <2>1
<1>6. at + Len(all) - 1 <= Len(buffer) /\ Len(buffer) \in Nat
  <2>1. 1 \in 1..n
    BY <1>1
  <2>2. end[1] <= Len(all) /\ end[1] = Len(seqs[1])
    BY <1>3, <2>1
  <2>3. Len(all) > 0
    BY <1>1, <1>5, <2>1, <2>2
  <2>4. Len(all) \in DOMAIN all
    BY <1>1, <2>3
  <2>5. at + Len(all) - 1 \in DOMAIN buffer
    BY <2>4 DEF Written
  <2> QED BY <2>5
<1> HIDE DEF n, all
<1> DEFINE St(k) == Done(Firsts(values, k), at + end[k])
           S == {St(k) : k \in 1..n}
           T(s) == nextValue(buffer, collection, name, s)
<1>7. \A k \in 1..n : /\ St(k).ok = TRUE /\ St(k).value = Firsts(values, k) /\ St(k).next = at + end[k]
                      /\ St(k).next \in 1..(Len(buffer) + 1)
  <2>1. ASSUME NEW k \in 1..n PROVE at + end[k] \in 1..(Len(buffer) + 1)
    <3>1. end[k] \in Nat /\ end[k] <= Len(all)
      BY <1>1, <1>3
    <3> QED BY <1>1, <1>6, <3>1
  <2> QED BY <2>1 DEF Done
<1>8. ASSUME NEW k \in 1..(n - 1)
      PROVE  /\ hasAdditionalValue(buffer, at + end[k])
             /\ T(St(k)) = St(k + 1) /\ St(k + 1).next > St(k).next
  <2>1. k \in 1..n /\ k + 1 \in 1..n /\ k + 1 \in 2..n /\ (k + 1) - 1 = k
    BY <1>1
  <2>2. at + end[k] \in Nat \ {0}
    <3>1. end[k] \in Nat
      BY <1>3, <2>1
    <3> QED BY <3>1
  <2>3. /\ hasAdditionalValue(buffer, at + end[k])
        /\ readValue(buffer, collection, at + end[k] + 3, buffer[at + end[k]], name) =
             Done(values[k + 1], at + end[k] + Len(seqs[k + 1]))
    <3>1. FurtherValue(seqs[k + 1], name, values[k + 1])
      BY <1>0, <2>1 DEF n
    <3>2. Written(buffer, at + end[k], seqs[k + 1])
      BY <1>4, <2>1
    <3> QED BY <2>2, <3>1, <3>2 DEF FurtherValue
  <2>4. at + end[k] + Len(seqs[k + 1]) = at + end[k + 1] /\ at + end[k + 1] > at + end[k]
    <3>0. k \in 0..n /\ k + 1 \in 0..n
      BY <1>1
    <3>1. end[k + 1] = end[k] + Len(seqs[k + 1]) /\ end[k] \in Nat /\ end[k + 1] \in Nat
      BY <1>3, <2>1, <3>0
    <3> QED BY <1>5, <2>1, <3>1
  <2>5. Append(Firsts(values, k), values[k + 1]) = Firsts(values, k + 1)
    BY <1>0, FirstsGrow DEF n
  <2>6. T(St(k)) = Further(St(k), Done(values[k + 1], at + end[k + 1]), values[k + 1])
    <3> DEFINE one == Done(values[k + 1], at + end[k + 1])
    <3>1. one = readValue(buffer, collection, St(k).next + 3, buffer[St(k).next], name)
      BY <1>7, <2>1, <2>3, <2>4
    <3>2. one.value = values[k + 1]
      BY DEF Done
    <3>3. St(k).ok /\ hasAdditionalValue(buffer, St(k).next)
      BY <1>7, <2>1, <2>3
    <3> HIDE DEF one, St
    <3>4. nextValue(buffer, collection, name, St(k)) = Further(St(k), one, one.value)
      BY <3>1, <3>3 DEF nextValue
    <3> QED BY <3>2, <3>4 DEF one
  <2>7. Further(St(k), Done(values[k + 1], at + end[k + 1]), values[k + 1]) = St(k + 1)
    BY <2>5 DEF Further, Done
  <2>8. St(k + 1).next > St(k).next
    BY <1>7, <2>1, <2>4
  <2> HIDE DEF St, T
  <2> QED BY <2>3, <2>6, <2>7, <2>8
<1>9. at + end[n] = at + Len(all) /\ ~ hasAdditionalValue(buffer, at + end[n])
  BY <1>3 DEF all
<1>10. T(St(n)) = St(n)
  <2>1. n \in 1..n
    BY <1>1
  <2>2. St(n).next = at + end[n]
    BY <1>7, <2>1
  <2> HIDE DEF St
  <2> QED BY <1>9, <2>2 DEF nextValue
<1> DEFINE first == readValue(buffer, collection, at + 4, buffer[at], name)
<1>11. first = Done(values[1], at + end[1]) /\ 1 \in 1..n
  <2>1. 1 \in 1..n /\ 1 - 1 = 0 /\ at + 0 = at
    BY <1>1
  <2>2. Written(buffer, at, seqs[1])
    BY <1>3, <1>4, <2>1
  <2>3. first = Done(values[1], at + Len(seqs[1]))
    BY <1>0, <2>2 DEF FirstValue
  <2>4. end[1] = Len(seqs[1])
    BY <1>3, <1>5, <2>1
  <2> QED BY <2>1, <2>3, <2>4
<1>12. Further(ListFrom(at + 4), first, first.value) = St(1)
  <2>1. Append(<<>>, values[1]) = Firsts(values, 1)
    BY DEF Firsts
  <2>2. first.ok /\ first.value = values[1] /\ first.next = at + end[1]
    BY <1>11 DEF Done
  <2>3. ListFrom(at + 4).value = <<>>
    BY DEF ListFrom
  <2> HIDE DEF first
  <2>4. Further(ListFrom(at + 4), first, first.value) =
          [ok |-> TRUE, value |-> Append(<<>>, values[1]), next |-> at + end[1]]
    BY <2>2, <2>3 DEF Further
  <2> QED BY <2>1, <2>4 DEF Done
<1>13. \E s \in S :
          /\ T(s) = s
          /\ ValuesRun(buffer, collection, name, St(1)) = s
  <2>1. St(1) \in S
    BY <1>11
  <2>2. ASSUME NEW s \in S
        PROVE  LET turned == T(s)
               IN /\ s.next \in 1..(Len(buffer) + 1) /\ turned \in S
                  /\ turned = s \/ turned.next > s.next
    <3>1. PICK k \in 1..n : s = St(k)
      OBVIOUS
    <3>2. CASE k = n
      <4>1. T(s) = s
        BY <1>10, <3>1, <3>2
      <4> HIDE DEF St, S
      <4> QED BY <1>7, <3>1, <4>1
    <3>3. CASE k # n
      <4>1. k \in 1..(n - 1) /\ k + 1 \in 1..n
        BY <1>1, <3>3
      <4>2. T(s) = St(k + 1) /\ St(k + 1).next > s.next
        BY <1>8, <3>1, <4>1
      <4>3. St(k + 1) \in S
        BY <4>1
      <4> HIDE DEF St, S
      <4> QED BY <1>7, <3>1, <4>2, <4>3
    <3> QED BY <3>2, <3>3
  <2>m. ValuesMove(buffer, collection, name, S)
    <3> HIDE DEF S
    <3> QED BY <2>2 DEF ValuesMove
  <2> DEFINE start == St(1)
  <2> HIDE DEF S, start
  <2>3. start \in S
    BY <2>1 DEF start
  <2>4. \E s \in S :
          /\ nextValue(buffer, collection, name, s) = s
          /\ ValuesRun(buffer, collection, name, start) = s
    BY <2>m, <2>3, ValuesLoop
  <2> QED BY <2>4 DEF start
<1>14. ValuesRun(buffer, collection, name, St(1)) = St(n)
  <2>1. PICK s \in S :
          /\ T(s) = s
          /\ ValuesRun(buffer, collection, name, St(1)) = s
    BY <1>13
  <2>2. PICK k \in 1..n : s = St(k)
    OBVIOUS
  <2>3. CASE k = n
    BY <2>1, <2>2, <2>3
  <2>4. CASE k # n
    <3>1. k \in 1..(n - 1)
      BY <1>1, <2>4
    <3>2. St(k + 1).next > St(k).next /\ St(k + 1) = St(k)
      <4> HIDE DEF St, T
      <4> QED BY <1>8, <2>1, <2>2, <3>1
    <3>3. St(k).next \in Int
      <4> HIDE DEF St
      <4> QED BY <1>7, <2>2
    <3> HIDE DEF St
    <3> QED BY <3>2, <3>3
  <2> QED BY <2>3, <2>4
<1>15. readValues(buffer, collection, at + 4, buffer[at], name) =
         IF ~ first.ok \/ ~ hasAdditionalValue(buffer, first.next) THEN first
         ELSE IF St(n).ok THEN [St(n) EXCEPT !.value = Arr(@)] ELSE TooShort
  <2> HIDE DEF first, St
  <2> QED BY <1>12, <1>14 DEF readValues, first, ValuesRun
<1>16. first.ok /\ first.next = at + end[1]
  BY <1>11 DEF Done
<1>17. CASE n = 1
  <2>1. OneOrAll(values) = values[1]
    BY <1>17 DEF OneOrAll, n
  <2>2. readValues(buffer, collection, at + 4, buffer[at], name) = first
    BY <1>9, <1>15, <1>16, <1>17
  <2> QED BY <1>9, <1>11, <1>17, <2>1, <2>2 DEF all
<1>18. CASE n # 1
  <2>1. 1 \in 1..(n - 1) /\ n \in 1..n
    BY <1>1, <1>18
  <2>2. hasAdditionalValue(buffer, first.next)
    BY <1>8, <1>16, <2>1
  <2>3. Firsts(values, n) = values
    BY <1>0, FirstsAll DEF n
  <2>4. OneOrAll(values) = Arr(values)
    BY <1>18 DEF OneOrAll, n
  <2>5. St(n) = Done(values, at + Len(all))
    BY <1>9, <2>3
  <2>6. readValues(buffer, collection, at + 4, buffer[at], name) = [St(n) EXCEPT !.value = Arr(@)]
    <3>1. St(n).ok = TRUE
      BY <1>7, <2>1
    <3> HIDE DEF St, first
    <3> QED BY <1>15, <1>16, <2>2, <3>1
  <2>7. [St(n) EXCEPT !.value = Arr(@)] = Done(Arr(values), at + Len(all))
    <3> DEFINE x == Done(values, at + Len(all))
    <3>1. [x EXCEPT !.value = Arr(@)] = Done(Arr(values), at + Len(all))
      <4>1. x.value = values
        BY DEF Done
      <4>2. [x EXCEPT !.value = Arr(values)] = Done(Arr(values), at + Len(all))
        BY DoneExcept
      <4> HIDE DEF x
      <4> QED BY <4>1, <4>2
    <3>2. St(n) = x
      BY <2>5
    <3> HIDE DEF St, x
    <3> QED BY <3>1, <3>2
  <2> QED BY <2>4, <2>6, <2>7 DEF all
<1> QED BY <1>17, <1>18

\* Only a resolution is an array, and it has three parts.
LEMMA ReadableArray ==
  ASSUME NEW group \in DOMAIN groupAttributeSyntax,
         NEW word \in DOMAIN groupAttributeSyntax[group], NEW syntax,
         syntax = groupAttributeSyntax[group][word], NEW value, Readable(word, syntax, value),
         IsA(value, "array")
  PROVE  syntax = "resolution" /\ Len(value[2]) = 3
<1>1. syntax \in Syntaxes
  BY SyntaxKnown, Zenon
<1>2. CASE syntax = "resolution"
  <2> DEFINE a == value[2][1]
             b == value[2][2]
             c == value[2][3]
  <2>1. value = Arr(<<a, b, c>>)
    BY <1>2 DEF Readable, AsciiTags
  <2> HIDE DEF a, b, c
  <2>2. value[2] = <<a, b, c>>
    BY <2>1 DEF Arr
  <2> QED BY <1>2, <2>2
<1>3. CASE syntax = "integer"
  <2>1. value = Num(value[2])
    BY <1>3 DEF Readable, AsciiTags, IsInteger
  <2>2. value[1] = "number"
    BY <2>1 DEF Num
  <2> QED BY <2>2 DEF IsA
<1>4. CASE syntax = "boolean"
  <2>1. value \in {Bool(TRUE), Bool(FALSE)}
    BY <1>4 DEF Readable, AsciiTags
  <2>2. value[1] = "boolean"
    BY <2>1, BooleanRead, Zenon DEF IsA
  <2> QED BY <2>2 DEF IsA
<1>5. CASE syntax = "enum"
  <2>1. PICK code \in DOMAIN ippEnumValues[word] : value = K(ippEnumValues[word][code])
    BY <1>5 DEF Readable, AsciiTags
  <2>2. value[1] = "string"
    BY <2>1 DEF K, Str
  <2> QED BY <2>2 DEF IsA
<1>6. CASE syntax = "dateTime"
  <2>1. value = Date(value[2], value[3], value[4], value[5])
    BY <1>6 DEF Readable, AsciiTags
  <2>2. value[1] = "date"
    BY <2>1 DEF Date
  <2> QED BY <2>2 DEF IsA
<1>7. CASE syntax \in AsciiTags \cup {"name", "text", "octetString"}
  <2>1. value = Str(value[2])
    BY <1>7 DEF Readable, AsciiTags, IsText
  <2>2. value[1] = "string"
    BY <2>1 DEF Str
  <2> QED BY <2>2 DEF IsA
<1> QED BY <1>1, <1>2, <1>3, <1>4, <1>5, <1>6, <1>7 DEF Syntaxes, AsciiTags

\* What is written of the values of an attribute.
ValuesBytes(syntax, word, values) ==
  [i \in DOMAIN values |->
     ValueBytes(syntax, word, values[i], IF i = 1 THEN W(word) ELSE <<>>)]

\* What is written of an attribute: its values, one after the other.
LEMMA WriteAttribute ==
  ASSUME NEW group \in DOMAIN groupAttributeSyntax,
         NEW word \in DOMAIN groupAttributeSyntax[group], NEW syntax,
         syntax = groupAttributeSyntax[group][word], NEW value, NEW values,
         values = IF IsA(value, "array") /\ syntax # "resolution" THEN value[2] ELSE <<value>>
  PROVE  writeAttribute(group, W(word), value) = FlattenSeq(ValuesBytes(syntax, word, values))
<1>1. Unspelled(W(word)) \cap DOMAIN groupAttributeSyntax[group] = {word}
  BY SyntaxKnown, UnspelledOne
<1>2. (CHOOSE w \in {word} : TRUE) = word
  OBVIOUS
<1>3. writeAttribute(group, W(word), value) =
        FlattenSeq([i \in DOMAIN values |->
            LET tag == resolveValueTag(syntax, values[i])
            IN <<ippTags[tag]>> \o Sized(IF i = 1 THEN W(word) ELSE <<>>)
               \o writeValue(W(word), tag, values[i])])
  BY <1>1, <1>2, Zenon DEF writeAttribute
<1> QED BY <1>3 DEF ValuesBytes, ValueBytes

\* A readable attribute is a word of the table and readable values.
LEMMA ReadableValues ==
  ASSUME NEW group \in DOMAIN groupAttributeSyntax, NEW attribute, IsReadable(group, attribute)
  PROVE  \E word \in DOMAIN groupAttributeSyntax[group] : \E values :
           LET syntax == groupAttributeSyntax[group][word]
           IN /\ attribute[1] = W(word) /\ IsSequence(values)
              /\ \A i \in DOMAIN values : Readable(word, syntax, values[i])
              /\ writeAttribute(group, attribute[1], attribute[2]) =
                   FlattenSeq(ValuesBytes(syntax, word, values))
              /\ values # <<>> => Kept(attribute) = [name |-> W(word), value |-> OneOrAll(values)]
              /\ values = <<>> <=> attribute[2] = Arr(<<>>)
<1> DEFINE value == attribute[2]
<1>1. PICK word \in DOMAIN groupAttributeSyntax[group] :
        LET syntax == groupAttributeSyntax[group][word]
        IN /\ attribute = <<W(word), value>>
           /\ \/ /\ value = Arr(value[2]) /\ syntax # "resolution" /\ IsSequence(value[2])
                 /\ \A i \in DOMAIN value[2] : Readable(word, syntax, value[2][i])
              \/ Readable(word, syntax, value)
  BY DEF IsReadable
<1> DEFINE syntax == groupAttributeSyntax[group][word]
<1>2. attribute[1] = W(word)
  BY <1>1
<1>0. value = attribute[2] /\ syntax = groupAttributeSyntax[group][word]
  OBVIOUS
<1> HIDE DEF value, syntax
<1>3. CASE /\ value = Arr(value[2]) /\ syntax # "resolution" /\ IsSequence(value[2])
           /\ \A i \in DOMAIN value[2] : Readable(word, syntax, value[2][i])
  <2> DEFINE values == value[2]
  <2>1. /\ value = Arr(values) /\ syntax # "resolution" /\ IsSequence(values)
        /\ \A i \in DOMAIN values : Readable(word, syntax, values[i])
    BY <1>3
  <2>0. values = value[2]
    OBVIOUS
  <2> HIDE DEF values
  <2>2. IsA(value, "array")
    BY <2>1 DEF IsA, Arr
  <2>3. writeAttribute(group, W(word), value) = FlattenSeq(ValuesBytes(syntax, word, values))
    BY <1>0, <2>0, <2>1, <2>2, WriteAttribute
  <2>4. Kept(attribute) = [name |-> W(word), value |-> OneOrAll(values)]
    BY <1>0, <1>2, <2>0, <2>1, <2>2 DEF Kept, OneOrAll
  <2>5. values = <<>> <=> value = Arr(<<>>)
    BY <2>1, <2>0 DEF Arr
  <2> QED BY <1>0, <1>2, <2>1, <2>3, <2>4, <2>5
<1>4. CASE Readable(word, syntax, value)
  <2> DEFINE values == <<value>>
  <2>0. Len(values) = 1 /\ values[1] = value /\ DOMAIN values = {1} /\ values # <<>>
    OBVIOUS
  <2>1. IsA(value, "array") => syntax = "resolution" /\ Len(value[2]) = 3
    BY <1>0, <1>4, ReadableArray
  <2>2. value # Arr(<<>>)
    <3>1. IsA(Arr(<<>>), "array") /\ Arr(<<>>)[2] = <<>> /\ Len(<<>>) = 0
      BY DEF IsA, Arr
    <3> QED BY <2>1, <3>1
  <2>3. values = IF IsA(value, "array") /\ syntax # "resolution" THEN value[2] ELSE <<value>>
    BY <2>1
  <2>4. IsSequence(values)
    <3>1. ToSet(values) = {value}
      BY DEF ToSet
    <3> QED BY <3>1 DEF IsSequence
  <2> HIDE DEF values
  <2>5. writeAttribute(group, W(word), value) = FlattenSeq(ValuesBytes(syntax, word, values))
    BY <1>0, <2>3, WriteAttribute
  <2>6. Kept(attribute) = [name |-> W(word), value |-> OneOrAll(values)]
    BY <1>0, <1>2, <2>0, <2>1, SMTT(40) DEF Kept, OneOrAll
  <2>7. \A i \in DOMAIN values : Readable(word, syntax, values[i])
    BY <1>4, <2>0
  <2> QED BY <1>0, <1>2, <2>0, <2>2, <2>4, <2>5, <2>6, <2>7
<1> QED BY <1>0, <1>1, <1>3, <1>4

\* An attribute that is written as these bytes is read as this one, unless a further
\* value seems to follow.
AttributeBytes(bytes, attribute) ==
  /\ bytes \in Seq(Byte) /\ Len(bytes) > 0
  /\ \A buffer \in Seq(Byte), at \in Nat \ {0} : \A collection, list :
       Written(buffer, at, bytes) =>
         /\ at <= Len(buffer) /\ buffer[at] >= 15 /\ ~ hasAdditionalValue(buffer, at)
         /\ ~ hasAdditionalValue(buffer, at + Len(bytes)) =>
              nextAttribute(buffer, collection, Done(list, at)) =
                Done(Append(list, attribute), at + Len(bytes))

\* A readable attribute that has values is written as one that reads back; one that has
\* none is not written.
LEMMA AttributeReadBack ==
  ASSUME NEW group \in DOMAIN groupAttributeSyntax, NEW attribute, IsReadable(group, attribute)
  PROVE  IF attribute[2] = Arr(<<>>)
         THEN writeAttribute(group, attribute[1], attribute[2]) = <<>>
         ELSE AttributeBytes(writeAttribute(group, attribute[1], attribute[2]), Kept(attribute))
<1>1. PICK word, values :
           LET syntax == groupAttributeSyntax[group][word]
           IN /\ word \in DOMAIN groupAttributeSyntax[group]
              /\ attribute[1] = W(word) /\ IsSequence(values)
              /\ \A i \in DOMAIN values : Readable(word, syntax, values[i])
              /\ writeAttribute(group, attribute[1], attribute[2]) =
                   FlattenSeq(ValuesBytes(syntax, word, values))
              /\ values # <<>> => Kept(attribute) = [name |-> W(word), value |-> OneOrAll(values)]
              /\ values = <<>> <=> attribute[2] = Arr(<<>>)
  BY ReadableValues, Zenon
<1>0. word \in DOMAIN groupAttributeSyntax[group]
  BY <1>1, Zenon
<1> DEFINE syntax == groupAttributeSyntax[group][word]
           V == ToSet(values)
           seqs == ValuesBytes(syntax, word, values)
           name == W(word)
           n == Len(values)
           bytes == FlattenSeq(seqs)
<1>2. syntax = groupAttributeSyntax[group][word] /\ values \in Seq(V) /\ n \in Nat /\ DOMAIN values = 1..n
  <2>1. values \in Seq(ToSet(values))
    BY <1>1 DEF IsSequence
  <2> HIDE DEF V
  <2>2. values \in Seq(V)
    BY <2>1 DEF V
  <2> QED BY <2>2
<1>3. \A i \in 1..n : Readable(word, syntax, values[i])
  BY <1>1, <1>2
<1>4. /\ writeAttribute(group, attribute[1], attribute[2]) = bytes
      /\ values # <<>> => Kept(attribute) = [name |-> name, value |-> OneOrAll(values)]
      /\ values = <<>> <=> attribute[2] = Arr(<<>>)
  BY <1>1
<1>5. \A i \in 1..n : seqs[i] = ValueBytes(syntax, word, values[i], IF i = 1 THEN W(word) ELSE <<>>)
  BY <1>2 DEF ValuesBytes
<1>6. DOMAIN seqs = 1..n
  BY <1>2 DEF ValuesBytes
<1>6f. seqs = [i \in 1..n |-> seqs[i]]
  BY <1>2 DEF ValuesBytes
<1> HIDE DEF syntax, V, seqs, n
<1>7. n > 0 => FirstValue(seqs[1], name, values[1])
  <2>1. ASSUME n > 0 PROVE FirstValue(seqs[1], name, values[1])
    <3>1. 1 \in 1..n
      BY <1>2, <2>1
    <3>2. seqs[1] = ValueBytes(syntax, word, values[1], W(word)) /\ Readable(word, syntax, values[1])
      BY <1>3, <1>5, <3>1
    <3>3. FirstValue(ValueBytes(syntax, word, values[1], W(word)), W(word), values[1])
      BY <1>0, <1>2, <3>2, FirstValueWritten
    <3> QED BY <3>2, <3>3
  <2> QED BY <2>1
<1>8. ASSUME NEW i \in 2..n PROVE FurtherValue(seqs[i], name, values[i])
  <2>1. i \in 1..n /\ i # 1
    BY <1>2
  <2>2. seqs[i] = ValueBytes(syntax, word, values[i], <<>>) /\ Readable(word, syntax, values[i])
    BY <1>3, <1>5, <2>1
  <2>3. FurtherValue(ValueBytes(syntax, word, values[i], <<>>), W(word), values[i])
    BY <1>0, <1>2, <2>2, FurtherValueWritten
  <2> QED BY <2>2, <2>3
<1> HIDE DEF name
<1>9. seqs \in Seq(Seq(Byte)) /\ Len(seqs) = n
  <2>1. ASSUME NEW i \in 1..n PROVE seqs[i] \in Seq(Byte)
    <3>1. (i = 1 /\ n > 0) \/ i \in 2..n
      BY <1>2
    <3> QED BY <1>7, <1>8, <3>1 DEF FirstValue, FurtherValue
  <2> QED BY <1>2, <1>6f, <2>1
<1>10. CASE values = <<>>
  <2>1. n = 0
    BY <1>10 DEF n
  <2>2. seqs = <<>>
    BY <1>9, <2>1
  <2>3. FlattenSeq(<<>>) = <<>>
    BY DEF FlattenSeq
  <2> QED BY <1>4, <1>10, <2>2, <2>3
<1>11. CASE values # <<>>
  <2> DEFINE kept == Kept(attribute)
  <2>1. n # 0 /\ n > 0 /\ 1 \in 1..n
    BY <1>2, <1>11 DEF n
  <2>2. kept = [name |-> name, value |-> OneOrAll(values)]
    BY <1>4, <1>11
  <2>3. bytes \in Seq(Byte) /\ Len(bytes) \in Nat
    BY <1>9, PiecesPlaced
  <2>4. PICK end : Ends(seqs, bytes, end)
    BY <1>9, PiecesPlaced
  <2>5. Len(bytes) > 0
    <3>1. end[1] = end[0] + Len(seqs[1]) /\ end[1] <= Len(bytes) /\ end[0] = 0
      BY <1>9, <2>1, <2>4 DEF Ends
    <3>2. Len(seqs[1]) \in Nat /\ Len(seqs[1]) > 0
      BY <1>7, <2>1 DEF FirstValue
    <3> QED BY <2>3, <3>1, <3>2
  <2> HIDE DEF bytes, kept
  <2>6. ASSUME NEW buffer \in Seq(Byte), NEW at \in Nat \ {0}, NEW collection, NEW list,
               Written(buffer, at, bytes)
        PROVE  /\ at <= Len(buffer) /\ buffer[at] >= 15 /\ ~ hasAdditionalValue(buffer, at)
               /\ ~ hasAdditionalValue(buffer, at + Len(bytes)) =>
                    nextAttribute(buffer, collection, Done(list, at)) =
                      Done(Append(list, kept), at + Len(bytes))
    <3>1. Written(buffer, at, seqs[1])
      <4>1. Written(buffer, at + end[1 - 1], seqs[1])
        BY <1>9, <2>1, <2>4, <2>6, PiecesWritten DEF bytes
      <4>2. at + end[1 - 1] = at
        BY <2>4 DEF Ends
      <4> QED BY <4>1, <4>2
    <3>2. /\ Fits(buffer, at, 3) /\ Fits(buffer, at + 3, 1) /\ buffer[at] >= 15
          /\ ~ hasAdditionalValue(buffer, at)
          /\ UInt16At(buffer, at + 1) = 1 /\ FromUtf8(Slice(buffer, at + 3, 1)) = name
      BY <1>7, <2>1, <3>1 DEF FirstValue
    <3>3. at <= Len(buffer) /\ at + 3 + 1 = at + 4
      BY <3>2 DEF Fits
    <3>4. ASSUME ~ hasAdditionalValue(buffer, at + Len(bytes))
          PROVE  nextAttribute(buffer, collection, Done(list, at)) =
                      Done(Append(list, kept), at + Len(bytes))
      <4>1. readValues(buffer, collection, at + 4, buffer[at], name) =
              Done(OneOrAll(values), at + Len(bytes))
        <5>1. ValuesWritten(seqs, name, values)
          <6>1. Len(seqs) = Len(values) /\ FirstValue(seqs[1], name, values[1])
            BY <1>2, <1>7, <1>9, <2>1 DEF n
          <6>2. \A i \in 2..Len(values) : FurtherValue(seqs[i], name, values[i])
            BY <1>8 DEF n
          <6> QED BY <1>1, <1>9, <1>11, <6>1, <6>2, Zenon DEF ValuesWritten
        <5>3. /\ Written(buffer, at, FlattenSeq(seqs))
              /\ ~ hasAdditionalValue(buffer, at + Len(FlattenSeq(seqs)))
          BY <2>6, <3>4 DEF bytes
        <5>4. readValues(buffer, collection, at + 4, buffer[at], name) =
                Done(OneOrAll(values), at + Len(FlattenSeq(seqs)))
          BY <5>1, <5>3, ValuesReadBack, SMTT(30)
        <5> QED BY <5>4 DEF bytes
      <4> DEFINE values1 == Done(OneOrAll(values), at + Len(bytes))
                 so == Done(list, at)
      <4>2. so.ok /\ so.next = at /\ so.value = list /\ values1.ok /\ values1.value = OneOrAll(values)
            /\ values1.next = at + Len(bytes)
        BY DEF Done
      <4> HIDE DEF values1, so
      <4>3. readValues(buffer, collection, at + 3 + 1, buffer[at], name) = values1
        BY <3>3, <4>1 DEF values1
      <4>4. nextAttribute(buffer, collection, so) =
              Further(so, values1, [name |-> name, value |-> values1.value])
        BY <3>2, <3>3, <4>2, <4>3 DEF nextAttribute
      <4>5. Further(so, values1, kept) = Done(Append(list, kept), at + Len(bytes))
        BY <4>2 DEF Further, Done
      <4>6. [name |-> name, value |-> values1.value] = kept
        BY <2>2, <4>2
      <4> QED BY <4>4, <4>5, <4>6 DEF so
    <3> QED BY <3>2, <3>3, <3>4
  <2>7. AttributeBytes(bytes, kept)
    BY <2>3, <2>5, <2>6, Zenon DEF AttributeBytes
  <2> QED BY <1>4, <1>11, <2>7 DEF bytes, kept
<1> QED BY <1>10, <1>11

-----------------------------------------------------------------------------
(* The attributes of a group *)

\* An attribute with a value is written.
Full(attributes, k) == attributes[k][2] # Arr(<<>>)
NamesApart(attributes) ==
  \A i, j \in DOMAIN attributes : i # j => attributes[i][1] # attributes[j][1]

\* What has been read of the first attributes: each that has a value, once, and at its
\* place as long as all before it have one.
Got(attributes, i, list) ==
  /\ ToSet(list) = {Kept(attributes[k]) : k \in {k \in 1..i : Full(attributes, k)}}
  /\ \A a, b \in 1..Len(list) : a # b => list[a].name # list[b].name
  /\ \A k \in 1..i : (\A l \in 1..k : Full(attributes, l)) =>
                        k <= Len(list) /\ list[k] = Kept(attributes[k])
  /\ (\A l \in 1..i : Full(attributes, l)) => Len(list) = i

\* Before the first attribute the reader has nothing.
LEMMA GotNothing ==
  ASSUME NEW attributes
  PROVE  Got(attributes, 0, <<>>)
<1>1. ToSet(<<>>) = {} /\ Len(<<>>) = 0
  BY DEF ToSet
<1>2. \A k \in 1..0 : FALSE
  OBVIOUS
<1> QED BY <1>1, <1>2 DEF Got

\* One more that has a value.
LEMMA GotMore ==
  ASSUME NEW A, NEW attributes \in Seq(A), NamesApart(attributes), NEW M, NEW list \in Seq(M),
         NEW i \in 0..Len(attributes), Got(attributes, i, list),
         NEW j \in (i + 1)..Len(attributes), Full(attributes, j), Kept(attributes[j]) \in M,
         \A k \in (i + 1)..(j - 1) : ~ Full(attributes, k)
  PROVE  Got(attributes, j, Append(list, Kept(attributes[j])))
<1> DEFINE item == Kept(attributes[j])
           more == Append(list, item)
           Fulls(m) == {k \in 1..m : Full(attributes, k)}
           F(k) == Full(attributes, k)
<1> HIDE DEF item, F
<1>1. /\ more \in Seq(M) /\ Len(more) = Len(list) + 1 /\ Len(list) \in Nat
      /\ \A k \in 1..Len(list) : more[k] = list[k]
      /\ more[Len(list) + 1] = item /\ i \in Nat /\ j \in Nat /\ i < j
      /\ DOMAIN more = 1..(Len(list) + 1) /\ DOMAIN list = 1..Len(list)
      /\ item \in M
  BY DEF item
<1>2. Fulls(j) = Fulls(i) \cup {j}
  <2>1. \A k \in 1..j : k \in 1..i \/ k \in (i + 1)..(j - 1) \/ k = j
    BY <1>1
  <2>2. \A k \in 1..i : k \in 1..j
    BY <1>1
  <2>3. j \in 1..j
    BY <1>1
  <2> QED BY <2>1, <2>2, <2>3
<1> HIDE DEF more
<1>3. ToSet(more) = ToSet(list) \cup {item}
  <2>1. \A k \in 1..(Len(list) + 1) : k \in 1..Len(list) \/ k = Len(list) + 1
    BY <1>1
  <2>2. Len(list) + 1 \in 1..(Len(list) + 1) /\ \A k \in 1..Len(list) : k \in 1..(Len(list) + 1)
    BY <1>1
  <2> QED BY <1>1, <2>1, <2>2 DEF ToSet
<1>4. ToSet(more) = {Kept(attributes[k]) : k \in {k \in 1..j : Full(attributes, k)}}
  <2>1. ToSet(list) = {Kept(attributes[k]) : k \in Fulls(i)}
    BY DEF Got
  <2> HIDE DEF Fulls
  <2>2. ToSet(more) = {Kept(attributes[k]) : k \in Fulls(j)}
    BY <1>2, <1>3, <2>1 DEF item
  <2> QED BY <2>2 DEF Fulls
<1>5. \A a \in 1..Len(list) : list[a].name # item.name
  <2>1. ASSUME NEW a \in 1..Len(list) PROVE list[a].name # item.name
    <3>1. list[a] \in ToSet(list)
      BY <1>1 DEF ToSet
    <3>2. PICK k \in 1..i : list[a] = Kept(attributes[k])
      BY <3>1 DEF Got
    <3>3. k \in DOMAIN attributes /\ j \in DOMAIN attributes /\ k # j
      BY <1>1
    <3>4. attributes[k][1] # attributes[j][1]
      BY <3>3 DEF NamesApart
    <3>5. Kept(attributes[k]).name = attributes[k][1] /\ item.name = attributes[j][1]
      BY DEF Kept, item
    <3> QED BY <3>2, <3>4, <3>5
  <2> QED BY <2>1
<1>6. \A a, b \in 1..Len(more) : a # b => more[a].name # more[b].name
  <2>1. \A a, b \in 1..Len(list) : a # b => list[a].name # list[b].name
    BY DEF Got
  <2>2. \A a \in 1..Len(more) : a \in 1..Len(list) \/ a = Len(list) + 1
    BY <1>1
  <2> QED BY <1>1, <1>5, <2>1, <2>2
<1>7. ASSUME NEW k \in 1..j, \A l \in 1..k : F(l)
      PROVE  k <= Len(more) /\ more[k] = Kept(attributes[k]) /\ (k = j => Len(more) = j)
  <2>1. CASE k \in 1..i
    <3>1. k <= Len(list) /\ list[k] = Kept(attributes[k])
      BY <1>7, <2>1 DEF Got, F
    <3>2. k \in 1..Len(list) /\ k # j /\ k <= Len(list) + 1
      BY <1>1, <2>1, <3>1
    <3> QED BY <1>1, <3>1, <3>2
  <2>2. CASE ~ (k \in 1..i)
    <3>1. i + 1 \in 1..k /\ \A l \in 1..i : l \in 1..k
      BY <1>1, <2>2
    <3>2. F(i + 1) /\ \A l \in 1..i : F(l)
      BY <1>7, <3>1
    <3>3. ~ (i + 1 \in (i + 1)..(j - 1))
      BY <3>2 DEF F
    <3>4. i + 1 = j /\ k = j
      BY <1>1, <2>2, <3>3
    <3>5. Len(list) = i
      BY <3>2 DEF Got, F
    <3> QED BY <1>1, <3>4, <3>5 DEF item
  <2> QED BY <2>1, <2>2
<1>8. j \in 1..j
  BY <1>1
<1>9. (\A l \in 1..j : Full(attributes, l)) => Len(more) = j
  BY <1>7, <1>8 DEF F
<1>10. \A k \in 1..j : (\A l \in 1..k : Full(attributes, l)) =>
                        k <= Len(more) /\ more[k] = Kept(attributes[k])
  BY <1>7 DEF F
<1>11. Got(attributes, j, more)
  BY <1>4, <1>6, <1>9, <1>10 DEF Got
<1> QED BY <1>11 DEF more, item

\* None of the others has a value.
LEMMA GotAll ==
  ASSUME NEW A, NEW attributes \in Seq(A), NEW list,
         NEW i \in 0..Len(attributes), Got(attributes, i, list),
         \A k \in (i + 1)..Len(attributes) : ~ Full(attributes, k)
  PROVE  Got(attributes, Len(attributes), list)
<1> DEFINE n == Len(attributes)
<1>1. n \in Nat /\ i \in Nat /\ i <= n
  OBVIOUS
<1>2. \A k \in 1..n : k \in 1..i \/ k \in (i + 1)..n
  BY <1>1
<1>3. \A k \in 1..i : k \in 1..n
  BY <1>1
<1>4. {k \in 1..n : Full(attributes, k)} = {k \in 1..i : Full(attributes, k)}
  BY <1>2, <1>3
<1>5. ASSUME NEW k \in 1..n, \A l \in 1..k : Full(attributes, l)
      PROVE  k \in 1..i
  <2>1. k \in 1..k
    BY <1>1
  <2> QED BY <1>2, <1>5, <2>1
<1>6. ASSUME \A l \in 1..n : Full(attributes, l) PROVE i = n
  <2>1. ~ (i < n)
    <3>1. ASSUME i < n PROVE FALSE
      <4>1. n \in 1..n /\ n \in (i + 1)..n
        BY <1>1, <3>1
      <4> QED BY <1>6, <4>1
    <3> QED BY <3>1
  <2> QED BY <1>1, <2>1
<1> HIDE DEF n
<1>7. (\A l \in 1..n : Full(attributes, l)) => Len(list) = n
  BY <1>6 DEF Got
<1>8. \A k \in 1..n : (\A l \in 1..k : Full(attributes, l)) =>
                        k <= Len(list) /\ list[k] = Kept(attributes[k])
  BY <1>5 DEF Got
<1>9. ToSet(list) = {Kept(attributes[k]) : k \in {k \in 1..n : Full(attributes, k)}}
  BY <1>4 DEF Got
<1>10. \A a, b \in 1..Len(list) : a # b => list[a].name # list[b].name
  BY DEF Got
<1> QED BY <1>7, <1>8, <1>9, <1>10 DEF Got, n

\* The attributes of a group, and what is written of each.
AttributesWritten(seqs, attributes) ==
  /\ attributes \in Seq(ToSet(attributes)) /\ NamesApart(attributes)
  /\ seqs \in Seq(Seq(Byte)) /\ Len(seqs) = Len(attributes)
  /\ \A k \in 1..Len(attributes) :
       IF Full(attributes, k) THEN AttributeBytes(seqs[k], Kept(attributes[k]))
       ELSE seqs[k] = <<>>

\* Where no attribute begins.
GroupEnd(buffer, at) == at <= Len(buffer) /\ buffer[at] < 15 /\ ~ hasAdditionalValue(buffer, at)

\* The attributes of a group are read up to its end, each once.
LEMMA AttributesRead ==
  ASSUME NEW attributes, NEW seqs, AttributesWritten(seqs, attributes),
         NEW buffer \in Seq(Byte), NEW at \in Nat \ {0}, NEW collection,
         Written(buffer, at, FlattenSeq(seqs)), GroupEnd(buffer, at + Len(FlattenSeq(seqs)))
  PROVE  \E list : /\ IsSequence(list) /\ Got(attributes, Len(attributes), list)
                   /\ readAttributes(buffer, collection, at) =
                        Done(list, at + Len(FlattenSeq(seqs)))
<1> DEFINE n == Len(attributes)
           all == FlattenSeq(seqs)
           A == ToSet(attributes)
           M == {Kept(attributes[k]) : k \in 1..n}
<1>0. /\ attributes \in Seq(A) /\ NamesApart(attributes) /\ seqs \in Seq(Seq(Byte))
      /\ Len(seqs) = n /\ n \in Nat /\ DOMAIN attributes = 1..n
  <2>1. attributes \in Seq(A) /\ NamesApart(attributes) /\ seqs \in Seq(Seq(Byte)) /\ Len(seqs) = n
    BY DEF AttributesWritten
  <2> HIDE DEF A
  <2> QED BY <2>1
<1>a. \A k \in 1..n : IF Full(attributes, k) THEN AttributeBytes(seqs[k], Kept(attributes[k]))
                      ELSE seqs[k] = <<>>
  BY DEF AttributesWritten
<1>k. \A k \in 1..n : Kept(attributes[k]) \in M
  OBVIOUS
<1> HIDE DEF A, M
<1>1. all \in Seq(Byte) /\ Len(all) \in Nat
  BY <1>0, PiecesPlaced
<1>2. PICK end : Ends(seqs, all, end)
  BY <1>0, PiecesPlaced
<1>3. /\ end \in [0..n -> Nat] /\ end[0] = 0 /\ end[n] = Len(all)
      /\ \A i \in 1..n : end[i] = end[i - 1] + Len(seqs[i]) /\ end[i] <= Len(all)
  BY <1>0, <1>2 DEF Ends
<1>4. \A i \in 1..n : Written(buffer, at + end[i - 1], seqs[i])
  BY <1>0, <1>2, PiecesWritten
<1>5. Len(buffer) \in Nat /\ GroupEnd(buffer, at + Len(all))
  OBVIOUS
<1>6. \A i \in 0..n : end[i] \in Nat /\ end[i] <= Len(all) /\ at + end[i] \in 1..Len(buffer)
  <2>1. ASSUME NEW i \in 0..n PROVE end[i] \in Nat /\ end[i] <= Len(all)
    <3>1. i = 0 \/ i \in 1..n
      BY <1>0
    <3> QED BY <1>1, <1>3, <3>1
  <2>2. at + Len(all) <= Len(buffer)
    BY <1>5 DEF GroupEnd
  <2> HIDE DEF all, n
  <2>3. ASSUME NEW i \in 0..n PROVE at + end[i] \in 1..Len(buffer)
    BY <1>1, <1>5, <2>1, <2>2
  <2> QED BY <2>1, <2>3
<1>7. \A i \in 0..n :
        \/ (\A k \in (i + 1)..n : seqs[k] = <<>>) /\ end[i] = Len(all)
        \/ \E j \in (i + 1)..n : /\ seqs[j] # <<>> /\ end[j - 1] = end[i]
                                 /\ \A k \in (i + 1)..(j - 1) : seqs[k] = <<>>
  BY <1>0, <1>2, NextPiece
<1> HIDE DEF n, all
<1>e. AttributeBytes(<<>>, 0) = FALSE /\ \A item : ~ AttributeBytes(<<>>, item)
  <2>1. ~ (Len(<<>>) > 0)
    OBVIOUS
  <2> QED BY <2>1 DEF AttributeBytes
<1>8. \A k \in 1..n : seqs[k] = <<>> <=> ~ Full(attributes, k)
  BY <1>a, <1>e
<1>9. ASSUME NEW i \in 0..n PROVE ~ hasAdditionalValue(buffer, at + end[i])
  <2>1. CASE end[i] = Len(all)
    BY <1>5, <2>1 DEF GroupEnd
  <2>2. CASE \E j \in (i + 1)..n : seqs[j] # <<>> /\ end[j - 1] = end[i]
    <3>1. PICK j \in (i + 1)..n : seqs[j] # <<>> /\ end[j - 1] = end[i]
      BY <2>2
    <3>2. j \in 1..n
      BY <1>0
    <3>3. AttributeBytes(seqs[j], Kept(attributes[j])) /\ Written(buffer, at + end[i], seqs[j])
      BY <1>4, <1>8, <1>a, <3>1, <3>2
    <3>4. at + end[i] \in Nat \ {0}
      BY <1>6
    <3> QED BY <3>3, <3>4 DEF AttributeBytes
  <2> QED BY <1>7, <2>1, <2>2
<1> DEFINE Places == {p \in (0..n) \X Seq(M) : Got(attributes, p[1], p[2])}
           St(p) == Done(p[2], at + end[p[1]])
           S == {St(p) : p \in Places}
           T(s) == nextAttribute(buffer, collection, s)
<1>10. ASSUME NEW i \in 0..n, NEW list \in Seq(M), Got(attributes, i, list)
       PROVE  Done(list, at + end[i]) \in S
  <2>1. <<i, list>> \in Places
    BY <1>10
  <2>2. St(<<i, list>>) \in S
    BY <2>1
  <2> QED BY <2>2
<1>11. ASSUME NEW s \in S
       PROVE  \E i \in 0..n : \E list \in Seq(M) :
                Got(attributes, i, list) /\ s = Done(list, at + end[i])
  <2>1. PICK p \in Places : s = St(p)
    OBVIOUS
  <2>2. p[1] \in 0..n /\ p[2] \in Seq(M) /\ Got(attributes, p[1], p[2])
    OBVIOUS
  <2> QED BY <2>1, <2>2
<1> HIDE DEF S
<1>12. ASSUME NEW i \in 0..n, NEW list \in Seq(M), Got(attributes, i, list)
       PROVE  LET s == Done(list, at + end[i])
              IN \/ end[i] = Len(all) /\ Got(attributes, n, list) /\ T(s) = s
                 \/ T(s) \in S /\ T(s).next > s.next
  <2> DEFINE s == Done(list, at + end[i])
  <2>1. s.ok = TRUE /\ s.value = list /\ s.next = at + end[i] /\ at + end[i] \in 1..Len(buffer)
    BY <1>6 DEF Done
  <2>2. CASE (\A k \in (i + 1)..n : seqs[k] = <<>>) /\ end[i] = Len(all)
    <3>1. \A k \in (i + 1)..n : ~ Full(attributes, k)
      <4>1. \A k \in (i + 1)..n : k \in 1..n
        BY <1>0
      <4> QED BY <1>8, <2>2, <4>1
    <3>2. Got(attributes, n, list)
      <4>1. attributes \in Seq(A) /\ i \in 0..Len(attributes) /\ Got(attributes, i, list)
            /\ \A k \in (i + 1)..Len(attributes) : ~ Full(attributes, k)
        BY <1>0, <1>12, <3>1 DEF n
      <4> QED BY <4>1, GotAll DEF n
    <3>3. ~ (buffer[s.next] >= 15)
      <4>1. buffer[at + Len(all)] < 15 /\ at + Len(all) <= Len(buffer)
        BY <1>5 DEF GroupEnd
      <4>2. buffer[at + Len(all)] \in Int
        <5>1. at + Len(all) \in 1..Len(buffer)
          BY <1>1, <4>1
        <5>2. \A k \in 1..Len(buffer) : buffer[k] \in Byte
          OBVIOUS
        <5>3. \A b \in Byte : b \in Int
          BY DEF Byte
        <5> QED BY <5>1, <5>2, <5>3
      <4> HIDE DEF s
      <4> QED BY <2>1, <2>2, <4>1, <4>2
    <3> HIDE DEF s
    <3>4. T(s) = s
      BY <3>3 DEF nextAttribute
    <3> QED BY <2>2, <3>2, <3>4 DEF s
  <2>3. CASE \E j \in (i + 1)..n : /\ seqs[j] # <<>> /\ end[j - 1] = end[i]
                                 /\ \A k \in (i + 1)..(j - 1) : seqs[k] = <<>>
    <3>1. PICK j \in (i + 1)..n : /\ seqs[j] # <<>> /\ end[j - 1] = end[i]
                                 /\ \A k \in (i + 1)..(j - 1) : seqs[k] = <<>>
      BY <2>3
    <3>2. j \in 1..n /\ j \in 0..n
      BY <1>0
    <3> DEFINE item == Kept(attributes[j])
    <3>3. /\ AttributeBytes(seqs[j], item) /\ Written(buffer, at + end[i], seqs[j])
          /\ Full(attributes, j) /\ item \in M
      BY <1>4, <1>8, <1>a, <1>k, <3>1, <3>2
    <3>4. Got(attributes, j, Append(list, item)) /\ Append(list, item) \in Seq(M)
      <4>1. \A k \in (i + 1)..(j - 1) : ~ Full(attributes, k)
        <5>1. \A k \in (i + 1)..(j - 1) : k \in 1..n
          BY <1>0, <3>2
        <5> QED BY <1>8, <3>1, <5>1
      <4>2. /\ attributes \in Seq(A) /\ NamesApart(attributes)
            /\ list \in Seq(M) /\ i \in 0..Len(attributes) /\ Got(attributes, i, list)
            /\ j \in (i + 1)..Len(attributes) /\ Full(attributes, j) /\ Kept(attributes[j]) \in M
        BY <1>0, <1>12, <3>3 DEF n
      <4>3. Append(list, item) \in Seq(M)
        BY <3>3
      <4> QED BY <4>1, <4>2, <4>3, GotMore, SMTT(30)
    <3> HIDE DEF item
    <3>5. end[i] + Len(seqs[j]) = end[j] /\ Len(seqs[j]) > 0 /\ end[i] \in Nat /\ end[j] \in Nat
      BY <1>3, <1>6, <3>1, <3>2, <3>3 DEF AttributeBytes
    <3>6. Len(seqs[j]) \in Nat
      BY <1>0, <3>2
    <3>7. /\ (at + end[i]) + Len(seqs[j]) = at + end[j] /\ at + end[j] > at + end[i]
          /\ at + end[i] \in Nat \ {0}
      <4> DEFINE d == end[i]
                 e == end[j]
                 l == Len(seqs[j])
      <4>1. d + l = e /\ l > 0 /\ d \in Nat /\ e \in Nat /\ l \in Nat
        BY <3>5, <3>6
      <4> HIDE DEF d, e, l
      <4>2. (at + d) + l = at + e /\ at + e > at + d /\ at + d \in Nat \ {0}
        BY <4>1
      <4> QED BY <4>2 DEF d, e, l
    <3>8. ~ hasAdditionalValue(buffer, (at + end[i]) + Len(seqs[j]))
      BY <1>9, <3>2, <3>7
    <3>9. nextAttribute(buffer, collection, Done(list, at + end[i])) =
            Done(Append(list, item), (at + end[i]) + Len(seqs[j]))
      BY <3>3, <3>7, <3>8 DEF AttributeBytes
    <3>10. T(s) = Done(Append(list, item), at + end[j])
      BY <3>7, <3>9
    <3>11. T(s) \in S
      BY <1>10, <3>2, <3>4, <3>10
    <3>12. T(s).next = at + end[j]
      BY <3>10 DEF Done
    <3> HIDE DEF s, T
    <3>13. T(s).next > s.next
      BY <2>1, <3>7, <3>12
    <3> QED BY <3>11, <3>13 DEF s
  <2> QED BY <1>7, <2>2, <2>3
<1> HIDE DEF T
<1>13. ASSUME NEW s \in S
       PROVE  /\ s.next \in 1..(Len(buffer) + 1) /\ T(s) \in S
              /\ T(s) = s \/ T(s).next > s.next
  <2>1. PICK i \in 0..n, list \in Seq(M) : Got(attributes, i, list) /\ s = Done(list, at + end[i])
    BY <1>11
  <2>2. s.next = at + end[i]
    BY <2>1 DEF Done
  <2>3. at + end[i] \in 1..Len(buffer)
    BY <1>6
  <2>4. s.next \in 1..(Len(buffer) + 1)
    BY <1>5, <2>2, <2>3
  <2>5. T(s) = s \/ (T(s) \in S /\ T(s).next > s.next)
    BY <1>12, <2>1
  <2> QED BY <2>4, <2>5
<1>14. AttributesMove(buffer, collection, S)
  BY <1>13 DEF AttributesMove, T
<1> DEFINE start == ListFrom(at)
<1>15. start \in S
  <2>1. Got(attributes, 0, <<>>) /\ <<>> \in Seq(M) /\ 0 \in 0..n
    BY <1>0, GotNothing
  <2>2. Done(<<>>, at + end[0]) \in S
    BY <1>10, <2>1
  <2>3. at + end[0] = at
    BY <1>3
  <2> QED BY <2>2, <2>3 DEF ListFrom, Done
<1> HIDE DEF start
<1>16. PICK s \in S : T(s) = s /\ AttributesRun(buffer, collection, start) = s
  BY <1>14, <1>15, AttributesLoop DEF T
<1>17. PICK i \in 0..n, list \in Seq(M) : Got(attributes, i, list) /\ s = Done(list, at + end[i])
  BY <1>11
<1>18. end[i] = Len(all) /\ Got(attributes, n, list)
  <2>1. s.next = at + end[i] /\ at + end[i] \in Int
    BY <1>6, <1>17 DEF Done
  <2>2. ~ (T(s).next > s.next)
    BY <1>16, <2>1
  <2> QED BY <1>12, <1>17, <2>2
<1>19. readAttributes(buffer, collection, at) = Done(list, at + Len(all))
  BY <1>16, <1>17, <1>18 DEF readAttributes, AttributesRun, start
<1>20. IsSequence(list)
  <2>1. list \in Seq(ToSet(list))
    <3>1. Len(list) \in Nat /\ list = [a \in 1..Len(list) |-> list[a]]
      OBVIOUS
    <3>2. \A a \in 1..Len(list) : list[a] \in ToSet(list)
      BY DEF ToSet
    <3> DEFINE L == ToSet(list)
    <3> HIDE DEF L
    <3>3. \A a \in 1..Len(list) : list[a] \in L
      BY <3>2 DEF L
    <3>4. list \in Seq(L)
      BY <3>1, <3>3
    <3> QED BY <3>4 DEF L
  <2> QED BY <2>1 DEF IsSequence
<1> QED BY <1>18, <1>19, <1>20 DEF n, all

-----------------------------------------------------------------------------
(* The groups of a message *)

\* The groups of a request are found by their codes.
LEMMA RequestGroupsKnown ==
  ASSUME NEW tag \in DOMAIN groupAttributeSyntax
  PROVE  /\ ippTags[tag] \in Byte /\ ippTags[tag] \in {1, 2, 4, 6}
         /\ (CHOOSE t \in NamesOf(GroupTags, ippTags[tag]) \cup {"unknown-group"} :
               NamesOf(GroupTags, ippTags[tag]) # {} => t # "unknown-group") = tag
<1>1. tag \in {"operation-attributes-tag", "job-attributes-tag", "printer-attributes-tag",
               "subscription-attributes-tag"}
  BY SyntaxTables
<1>2. tag \in DOMAIN GroupTags /\ tag # "unknown-group"
  BY <1>1, GroupTagsKnown
<1>3. ippTags[tag] = GroupTags[tag] /\ NamesOf(GroupTags, ippTags[tag]) = {tag}
  BY <1>2, TagsKnown, GroupTagsApart
<1>4. GroupTags[tag] \in {1, 2, 4, 6}
  BY <1>1, GroupTagsKnown
<1>5. ippTags[tag] \in Byte
  BY <1>3, <1>4 DEF Byte
<1>6. (CHOOSE t \in {tag} \cup {"unknown-group"} : {tag} # {} => t # "unknown-group") = tag
  BY <1>2
<1> QED BY <1>3, <1>4, <1>5, <1>6

\* The end of the attributes is a byte, below the tags of the values.
LEMMA EndTag == ippTags["end-of-attributes-tag"] = 3
  BY TagsKnown, GroupTagsKnown

\* The attributes of a group begin with a tag of a value.
LEMMA AttributesBegin ==
  ASSUME NEW attributes, NEW seqs, AttributesWritten(seqs, attributes),
         NEW buffer \in Seq(Byte), NEW at \in Nat \ {0},
         Written(buffer, at, FlattenSeq(seqs)), Len(FlattenSeq(seqs)) > 0
  PROVE  at <= Len(buffer) /\ buffer[at] >= 15
<1> DEFINE n == Len(attributes)
           all == FlattenSeq(seqs)
<1>1. /\ seqs \in Seq(Seq(Byte)) /\ Len(seqs) = n /\ n \in Nat
      /\ \A k \in 1..n : IF Full(attributes, k) THEN AttributeBytes(seqs[k], Kept(attributes[k]))
                         ELSE seqs[k] = <<>>
  <2>1. /\ seqs \in Seq(Seq(Byte)) /\ Len(seqs) = n
        /\ \A k \in 1..n : IF Full(attributes, k) THEN AttributeBytes(seqs[k], Kept(attributes[k]))
                           ELSE seqs[k] = <<>>
    BY DEF AttributesWritten
  <2> HIDE DEF n
  <2> QED BY <2>1
<1>2. PICK end : Ends(seqs, all, end)
  BY <1>1, PiecesPlaced
<1>3. end[0] = 0 /\ 0 \in 0..Len(seqs)
  BY <1>1, <1>2 DEF Ends
<1>4. \A i \in 0..Len(seqs) :
        \/ (\A k \in (i + 1)..Len(seqs) : seqs[k] = <<>>) /\ end[i] = Len(all)
        \/ \E j \in (i + 1)..Len(seqs) : /\ seqs[j] # <<>> /\ end[j - 1] = end[i]
                                        /\ \A k \in (i + 1)..(j - 1) : seqs[k] = <<>>
  BY <1>1, <1>2, NextPiece
<1>5. \E j \in (0 + 1)..Len(seqs) : seqs[j] # <<>> /\ end[j - 1] = 0
  <2>1. ~ (0 = Len(all))
    OBVIOUS
  <2> HIDE DEF all
  <2> QED BY <1>3, <1>4, <2>1
<1>p. PICK j \in 1..Len(seqs) : seqs[j] # <<>> /\ end[j - 1] = 0
  BY <1>5
<1>6. \A i \in 1..Len(seqs) : Written(buffer, at + end[i - 1], seqs[i])
  BY <1>1, <1>2, PiecesWritten
<1>7. Written(buffer, at, seqs[j])
  BY <1>6, <1>p
<1>8. AttributeBytes(seqs[j], Kept(attributes[j]))
  BY <1>1, <1>p
<1> QED BY <1>7, <1>8 DEF AttributeBytes

\* A group that is written as these bytes is read as one of these attributes.
GroupBytes(bytes, tag, attributes) ==
  /\ bytes \in Seq(Byte) /\ Len(bytes) > 0
  /\ \A buffer \in Seq(Byte), at \in Nat \ {0} :
       Written(buffer, at, bytes) =>
         /\ at <= Len(buffer) /\ buffer[at] = ippTags[tag]
         /\ Len(bytes) > 1 => buffer[at + 1] >= 15
         /\ GroupEnd(buffer, at + Len(bytes)) =>
              \A collection, list :
                \E read : /\ IsSequence(read) /\ Got(attributes, Len(attributes), read)
                          /\ nextGroup(buffer, collection, Done(list, at)) =
                               Done(Append(list, [tag |-> tag, attributes |-> read]),
                                    at + Len(bytes))

\* A group of readable attributes is read from its tag on.
LEMMA GroupRead ==
  ASSUME NEW tag \in DOMAIN groupAttributeSyntax, NEW attributes, NEW seqs,
         AttributesWritten(seqs, attributes)
  PROVE  GroupBytes(<<ippTags[tag]>> \o FlattenSeq(seqs), tag, attributes)
<1> DEFINE code == ippTags[tag]
           first == <<code>>
           all == FlattenSeq(seqs)
           bytes == first \o all
<1>1. code \in Byte /\ code \in {1, 2, 4, 6}
  BY RequestGroupsKnown
<1>2. all \in Seq(Byte) /\ Len(all) \in Nat
  <2>1. seqs \in Seq(Seq(Byte))
    BY DEF AttributesWritten
  <2> QED BY <2>1, PiecesPlaced
<1>3. first \in Seq(Byte) /\ Len(first) = 1 /\ first[1] = code /\ DOMAIN first = 1..1
  BY <1>1
<1> HIDE DEF first, all
<1>4. bytes \in Seq(Byte) /\ Len(bytes) = 1 + Len(all)
  BY <1>2, <1>3, Joined
<1>5. ASSUME NEW buffer \in Seq(Byte), NEW at \in Nat \ {0}, Written(buffer, at, bytes)
      PROVE  /\ at <= Len(buffer) /\ buffer[at] = code
             /\ Len(bytes) > 1 => buffer[at + 1] >= 15
             /\ GroupEnd(buffer, at + Len(bytes)) =>
                  \A collection, list :
                    \E read : /\ IsSequence(read) /\ Got(attributes, Len(attributes), read)
                              /\ nextGroup(buffer, collection, Done(list, at)) =
                                   Done(Append(list, [tag |-> tag, attributes |-> read]),
                                        at + Len(bytes))
  <2>1. Written(buffer, at, first) /\ Written(buffer, at + Len(first), all)
    BY <1>2, <1>3, <1>5, WrittenParts
  <2>2. Written(buffer, at + 1, all)
    BY <1>3, <2>1
  <2>3. at <= Len(buffer) /\ buffer[at] = code
    <3>1. 1 \in DOMAIN first
      BY <1>3
    <3>2. at + 1 - 1 \in DOMAIN buffer /\ buffer[at + 1 - 1] = first[1]
      BY <2>1, <3>1 DEF Written
    <3>3. at + 1 - 1 = at
      OBVIOUS
    <3> QED BY <1>3, <3>2, <3>3
  <2>4. Len(bytes) > 1 => buffer[at + 1] >= 15
    <3>1. at + 1 \in Nat \ {0}
      OBVIOUS
    <3>2. Len(bytes) > 1 => Len(all) > 0
      BY <1>2, <1>4
    <3> QED BY <2>2, <3>1, <3>2, AttributesBegin DEF all
  <2>5. ASSUME GroupEnd(buffer, at + Len(bytes)), NEW collection, NEW list
        PROVE  \E read : /\ IsSequence(read) /\ Got(attributes, Len(attributes), read)
                         /\ nextGroup(buffer, collection, Done(list, at)) =
                              Done(Append(list, [tag |-> tag, attributes |-> read]),
                                   at + Len(bytes))
    <3>1. at + 1 \in Nat \ {0} /\ (at + 1) + Len(all) = at + Len(bytes)
      BY <1>2, <1>4
    <3>2. /\ Written(buffer, at + 1, FlattenSeq(seqs))
          /\ GroupEnd(buffer, (at + 1) + Len(FlattenSeq(seqs)))
      BY <2>2, <2>5, <3>1 DEF all
    <3>3. PICK read : /\ IsSequence(read) /\ Got(attributes, Len(attributes), read)
                      /\ readAttributes(buffer, collection, at + 1) =
                           Done(read, (at + 1) + Len(FlattenSeq(seqs)))
      BY <3>1, <3>2, AttributesRead, SMTT(30)
    <3> DEFINE so == Done(list, at)
               one == Done(read, at + Len(bytes))
    <3>4. readAttributes(buffer, collection, at + 1) = one
      BY <3>1, <3>3 DEF all
    <3>5. so.ok /\ so.next = at /\ so.value = list /\ one.ok /\ one.value = read
          /\ one.next = at + Len(bytes)
      BY DEF Done
    <3>6. (CHOOSE t \in NamesOf(GroupTags, code) \cup {"unknown-group"} :
             NamesOf(GroupTags, code) # {} => t # "unknown-group") = tag
      BY RequestGroupsKnown
    <3>7. ~ (at > Len(buffer)) /\ buffer[at] # ippTags["end-of-attributes-tag"]
      <4>1. ~ (at > Len(buffer))
        BY <2>3
      <4>2. buffer[at] # 3
        BY <1>1, <2>3
      <4> QED BY <4>1, <4>2, EndTag
    <3> HIDE DEF so, one, code
    <3>8. nextGroup(buffer, collection, so) =
            Further(so, one, [tag |-> tag, attributes |-> one.value])
      BY <2>3, <3>4, <3>5, <3>6, <3>7 DEF nextGroup
    <3>9. Further(so, one, [tag |-> tag, attributes |-> read]) =
            Done(Append(list, [tag |-> tag, attributes |-> read]), at + Len(bytes))
      BY <3>5 DEF Further, Done
    <3> QED BY <3>3, <3>5, <3>8, <3>9 DEF so
  <2> QED BY <2>3, <2>4, <2>5
<1>6. Len(bytes) > 0
  BY <1>2, <1>4
<1> HIDE DEF bytes
<1>7. GroupBytes(bytes, tag, attributes)
  BY <1>4, <1>5, <1>6 DEF GroupBytes, code
<1> QED BY <1>7 DEF bytes, first, code, all

KeptOf(attributes) == {Kept(attributes[k]) : k \in 1..Len(attributes)}

\* After the last attribute the reader has what was kept of each.
LEMMA GotKept ==
  ASSUME NEW attributes, NEW list, IsSequence(list), Got(attributes, Len(attributes), list)
  PROVE  list \in Seq(KeptOf(attributes))
<1> DEFINE L == ToSet(list)
           M == KeptOf(attributes)
<1>1. list \in Seq(L)
  BY DEF IsSequence
<1>2. L \subseteq M
  BY DEF Got, KeptOf
<1> HIDE DEF L, M
<1>3. list \in Seq(M)
  BY <1>1, <1>2
<1> QED BY <1>3 DEF M

\* What has been read of the first groups: each that the request has, once.
GotGroups(tags, asked, i, list) ==
  /\ {list[a].tag : a \in 1..Len(list)} = {tags[k] : k \in {k \in 1..i : tags[k] \in DOMAIN asked}}
  /\ \A a, b \in 1..Len(list) : a # b => list[a].tag # list[b].tag
  /\ \A a \in 1..Len(list) :
       LET attributes == asked[list[a].tag]
       IN IsSequence(list[a].attributes) /\ Got(attributes, Len(attributes), list[a].attributes)
  /\ i > 0 /\ tags[1] \in DOMAIN asked => Len(list) > 0 /\ list[1].tag = tags[1]

\* Before the first group the reader has nothing.
LEMMA GotNoGroup ==
  ASSUME NEW tags, NEW asked
  PROVE  GotGroups(tags, asked, 0, <<>>)
<1>1. Len(<<>>) = 0 /\ ~ (0 > 0)
  OBVIOUS
<1>2. \A k \in 1..0 : FALSE
  OBVIOUS
<1> QED BY <1>1, <1>2 DEF GotGroups

\* One more group.
LEMMA GotMoreGroups ==
  ASSUME NEW D, NEW tags \in Seq(D), \A a, b \in 1..Len(tags) : a # b => tags[a] # tags[b],
         NEW asked, NEW M, NEW list \in Seq(M),
         NEW i \in 0..Len(tags), GotGroups(tags, asked, i, list),
         NEW j \in (i + 1)..Len(tags), tags[j] \in DOMAIN asked,
         \A k \in (i + 1)..(j - 1) : tags[k] \notin DOMAIN asked,
         NEW read, IsSequence(read), Got(asked[tags[j]], Len(asked[tags[j]]), read),
         [tag |-> tags[j], attributes |-> read] \in M
  PROVE  GotGroups(tags, asked, j, Append(list, [tag |-> tags[j], attributes |-> read]))
<1> DEFINE item == [tag |-> tags[j], attributes |-> read]
           more == Append(list, item)
           Has(m) == {k \in 1..m : tags[k] \in DOMAIN asked}
<1>0. item.tag = tags[j] /\ item.attributes = read /\ item \in M
  OBVIOUS
<1> HIDE DEF item
<1>1. /\ more \in Seq(M) /\ Len(more) = Len(list) + 1 /\ Len(list) \in Nat
      /\ \A k \in 1..Len(list) : more[k] = list[k]
      /\ more[Len(list) + 1] = item /\ i \in Nat /\ j \in Nat /\ i < j /\ j <= Len(tags)
      /\ Len(tags) \in Nat
  BY <1>0
<1>2. Has(j) = Has(i) \cup {j}
  <2>1. \A k \in 1..j : k \in 1..i \/ k \in (i + 1)..(j - 1) \/ k = j
    BY <1>1
  <2>2. \A k \in 1..i : k \in 1..j
    BY <1>1
  <2>3. j \in 1..j
    BY <1>1
  <2> QED BY <2>1, <2>2, <2>3
<1> HIDE DEF more
<1>p. \A a \in 1..Len(more) : a \in 1..Len(list) \/ a = Len(list) + 1
  BY <1>1
<1>q. Len(list) + 1 \in 1..Len(more) /\ \A k \in 1..Len(list) : k \in 1..Len(more)
  BY <1>1
<1>3. {more[a].tag : a \in 1..Len(more)} = {list[a].tag : a \in 1..Len(list)} \cup {tags[j]}
  BY <1>0, <1>1, <1>p, <1>q
<1>4. {more[a].tag : a \in 1..Len(more)} = {tags[k] : k \in Has(j)}
  <2>1. {list[a].tag : a \in 1..Len(list)} = {tags[k] : k \in Has(i)}
    BY DEF GotGroups
  <2> HIDE DEF Has
  <2> QED BY <1>2, <1>3, <2>1
<1>5. ASSUME NEW a \in 1..Len(list) PROVE list[a].tag # tags[j]
  <2>1. list[a].tag \in {tags[k] : k \in {k \in 1..i : tags[k] \in DOMAIN asked}}
    BY DEF GotGroups
  <2>2. PICK k \in 1..i : list[a].tag = tags[k]
    BY <2>1
  <2>3. k \in 1..Len(tags) /\ j \in 1..Len(tags) /\ k # j
    BY <1>1
  <2> QED BY <2>2, <2>3
<1>6. \A a, b \in 1..Len(more) : a # b => more[a].tag # more[b].tag
  <2>1. \A a, b \in 1..Len(list) : a # b => list[a].tag # list[b].tag
    BY DEF GotGroups
  <2> QED BY <1>0, <1>1, <1>5, <1>p, <2>1
<1>7. ASSUME NEW a \in 1..Len(more)
      PROVE  /\ IsSequence(more[a].attributes)
             /\ Got(asked[more[a].tag], Len(asked[more[a].tag]), more[a].attributes)
  <2>1. CASE a \in 1..Len(list)
    <3>1. more[a] = list[a]
      BY <1>1, <2>1
    <3> QED BY <2>1, <3>1 DEF GotGroups
  <2>2. CASE a = Len(list) + 1
    <3>1. more[a] = item
      BY <1>1, <2>2
    <3> QED BY <1>0, <3>1
  <2> QED BY <1>p, <2>1, <2>2
<1>8. ASSUME tags[1] \in DOMAIN asked PROVE Len(more) > 0 /\ more[1].tag = tags[1]
  <2>1. CASE i > 0
    <3>1. Len(list) > 0 /\ list[1].tag = tags[1]
      BY <1>8, <2>1 DEF GotGroups
    <3>2. 1 \in 1..Len(list)
      BY <1>1, <3>1
    <3>3. more[1] = list[1]
      BY <1>1, <3>2
    <3>4. Len(more) > 0
      BY <1>1
    <3> QED BY <3>1, <3>3, <3>4
  <2>2. CASE ~ (i > 0)
    <3>1. i = 0
      BY <1>1, <2>2
    <3>2. j = 1
      <4>1. ASSUME j # 1 PROVE FALSE
        <5>1. 1 \in (i + 1)..(j - 1)
          BY <1>1, <3>1, <4>1
        <5> QED BY <1>8, <5>1
      <4> QED BY <4>1
    <3>3. Len(list) = 0
      <4>1. ASSUME Len(list) # 0 PROVE FALSE
        <5>1. 1 \in 1..Len(list)
          BY <1>1, <4>1
        <5>2. list[1].tag \in {tags[k] : k \in {k \in 1..i : tags[k] \in DOMAIN asked}}
          BY <5>1 DEF GotGroups
        <5>3. PICK k \in 1..i : TRUE
          BY <5>2
        <5> QED BY <3>1, <5>3
      <4> QED BY <4>1
    <3>4. more[1] = item
      BY <1>1, <3>3
    <3> QED BY <1>0, <1>1, <3>2, <3>4
  <2> QED BY <2>1, <2>2
<1>9. GotGroups(tags, asked, j, more)
  BY <1>4, <1>6, <1>7, <1>8 DEF GotGroups
<1> QED BY <1>9 DEF more, item

\* No other group.
LEMMA GotAllGroups ==
  ASSUME NEW D, NEW tags \in Seq(D), NEW asked, NEW list,
         NEW i \in 0..Len(tags), GotGroups(tags, asked, i, list),
         \A k \in (i + 1)..Len(tags) : tags[k] \notin DOMAIN asked
  PROVE  GotGroups(tags, asked, Len(tags), list)
<1> DEFINE n == Len(tags)
<1>1. n \in Nat /\ i \in Nat /\ i <= n
  OBVIOUS
<1>2. \A k \in 1..n : k \in 1..i \/ k \in (i + 1)..n
  BY <1>1
<1>3. \A k \in 1..i : k \in 1..n
  BY <1>1
<1>4. {k \in 1..n : tags[k] \in DOMAIN asked} = {k \in 1..i : tags[k] \in DOMAIN asked}
  BY <1>2, <1>3
<1>5. ASSUME n > 0, tags[1] \in DOMAIN asked PROVE i > 0
  <2>1. ASSUME i = 0 PROVE FALSE
    <3>1. 1 \in (i + 1)..n
      BY <1>1, <1>5, <2>1
    <3> QED BY <1>5, <3>1
  <2> QED BY <1>1, <2>1
<1> HIDE DEF n
<1>6. {list[a].tag : a \in 1..Len(list)} = {tags[k] : k \in {k \in 1..n : tags[k] \in DOMAIN asked}}
  BY <1>4 DEF GotGroups
<1>7. n > 0 /\ tags[1] \in DOMAIN asked => Len(list) > 0 /\ list[1].tag = tags[1]
  BY <1>5 DEF GotGroups
<1>8. /\ \A a, b \in 1..Len(list) : a # b => list[a].tag # list[b].tag
      /\ \A a \in 1..Len(list) :
           LET attributes == asked[list[a].tag]
           IN IsSequence(list[a].attributes) /\ Got(attributes, Len(attributes), list[a].attributes)
  BY DEF GotGroups
<1> QED BY <1>6, <1>7, <1>8 DEF GotGroups, n

\* The groups of a request, and what is written of each.
GroupsWritten(seqs, tags, asked) ==
  /\ tags \in Seq(DOMAIN groupAttributeSyntax)
  /\ \A a, b \in 1..Len(tags) : a # b => tags[a] # tags[b]
  /\ seqs \in Seq(Seq(Byte)) /\ Len(seqs) = Len(tags)
  /\ \A k \in 1..Len(tags) :
       IF tags[k] \in DOMAIN asked THEN GroupBytes(seqs[k], tags[k], asked[tags[k]])
       ELSE seqs[k] = <<>>

\* What the groups that are written from a place on are read as.
GroupsReadBack(buffer, collection, at, length, tags, asked) ==
  \E list : /\ list \in Seq(ToSet(list)) /\ GotGroups(tags, asked, Len(tags), list)
            /\ readGroups(buffer, collection, at) = Done(list, at + length)

\* The groups of a request are read up to the end of its attributes, each once.
LEMMA GroupsRead ==
  ASSUME NEW tags, NEW asked, NEW seqs, GroupsWritten(seqs, tags, asked),
         NEW buffer \in Seq(Byte), NEW at \in Nat \ {0}, NEW collection,
         Written(buffer, at, FlattenSeq(seqs)),
         at + Len(FlattenSeq(seqs)) <= Len(buffer),
         buffer[at + Len(FlattenSeq(seqs))] = ippTags["end-of-attributes-tag"]
  PROVE  GroupsReadBack(buffer, collection, at, Len(FlattenSeq(seqs)), tags, asked)
<1> DEFINE n == Len(tags)
           all == FlattenSeq(seqs)
           D == DOMAIN groupAttributeSyntax
           Readings(k) == {[tag |-> tags[k], attributes |-> read] :
                             read \in Seq(KeptOf(asked[tags[k]]))}
           M == UNION {Readings(k) : k \in 1..n}
<1>0. /\ tags \in Seq(D) /\ n \in Nat /\ \A a, b \in 1..n : a # b => tags[a] # tags[b]
      /\ seqs \in Seq(Seq(Byte)) /\ Len(seqs) = n
  <2>1. /\ tags \in Seq(D) /\ \A a, b \in 1..n : a # b => tags[a] # tags[b]
        /\ seqs \in Seq(Seq(Byte)) /\ Len(seqs) = n
    BY DEF GroupsWritten
  <2>2. n \in Nat
    <3> HIDE DEF D
    <3> QED BY <2>1
  <2> QED BY <2>1, <2>2, Zenon
<1>a. \A k \in 1..n : IF tags[k] \in DOMAIN asked THEN GroupBytes(seqs[k], tags[k], asked[tags[k]])
                      ELSE seqs[k] = <<>>
  BY DEF GroupsWritten
<1>k. ASSUME NEW k \in 1..n, NEW read, IsSequence(read),
             Got(asked[tags[k]], Len(asked[tags[k]]), read)
      PROVE  [tag |-> tags[k], attributes |-> read] \in M
  <2>1. read \in Seq(KeptOf(asked[tags[k]]))
    BY <1>k, GotKept
  <2>2. [tag |-> tags[k], attributes |-> read] \in Readings(k)
    BY <2>1
  <2> HIDE DEF Readings
  <2> QED BY <2>2
<1>c. \A k \in 1..n : ippTags[tags[k]] \in {1, 2, 4, 6}
  <2>1. \A k \in 1..n : tags[k] \in D
    BY <1>0
  <2> QED BY <2>1, RequestGroupsKnown
<1> HIDE DEF M
<1>1. all \in Seq(Byte) /\ Len(all) \in Nat
  BY <1>0, PiecesPlaced
<1>2. PICK end : Ends(seqs, all, end)
  BY <1>0, PiecesPlaced
<1>3. /\ end \in [0..n -> Nat] /\ end[0] = 0 /\ end[n] = Len(all)
      /\ \A i \in 1..n : end[i] = end[i - 1] + Len(seqs[i]) /\ end[i] <= Len(all)
  BY <1>0, <1>2 DEF Ends
<1>4. \A i \in 1..n : Written(buffer, at + end[i - 1], seqs[i])
  BY <1>0, <1>2, PiecesWritten
<1>5. Len(buffer) \in Nat /\ at + Len(all) <= Len(buffer) /\ buffer[at + Len(all)] = 3
  BY EndTag
<1>6. \A i \in 0..n : end[i] \in Nat /\ end[i] <= Len(all) /\ at + end[i] \in 1..Len(buffer)
                      /\ at + end[i] \in Nat \ {0}
  <2>1. ASSUME NEW i \in 0..n PROVE end[i] \in Nat /\ end[i] <= Len(all)
    <3>1. i = 0 \/ i \in 1..n
      BY <1>0
    <3> QED BY <1>1, <1>3, <3>1
  <2> HIDE DEF all, n
  <2>3. ASSUME NEW i \in 0..n PROVE at + end[i] \in 1..Len(buffer) /\ at + end[i] \in Nat \ {0}
    BY <1>1, <1>5, <2>1
  <2> QED BY <2>1, <2>3
<1>7. \A i \in 0..n :
        \/ (\A k \in (i + 1)..n : seqs[k] = <<>>) /\ end[i] = Len(all)
        \/ \E j \in (i + 1)..n : /\ seqs[j] # <<>> /\ end[j - 1] = end[i]
                                 /\ \A k \in (i + 1)..(j - 1) : seqs[k] = <<>>
  BY <1>0, <1>2, NextPiece
<1> HIDE DEF n, all, D
<1>e. \A tag, attributes : ~ GroupBytes(<<>>, tag, attributes)
  <2>1. ~ (Len(<<>>) > 0)
    OBVIOUS
  <2> QED BY <2>1 DEF GroupBytes
<1>8. \A k \in 1..n : seqs[k] = <<>> <=> tags[k] \notin DOMAIN asked
  BY <1>a, <1>e
\* What is at the place where a group may begin.
<1>b. ASSUME NEW i \in 0..n, end[i] # Len(all)
      PROVE  \E j \in 1..n : /\ j \in (i + 1)..n /\ end[j - 1] = end[i] /\ tags[j] \in DOMAIN asked
                             /\ GroupBytes(seqs[j], tags[j], asked[tags[j]])
                             /\ Written(buffer, at + end[i], seqs[j])
                             /\ buffer[at + end[i]] = ippTags[tags[j]]
                             /\ Len(seqs[j]) > 1 => buffer[(at + end[i]) + 1] >= 15
                             /\ \A k \in (i + 1)..(j - 1) : tags[k] \notin DOMAIN asked
                             /\ (at + end[i]) + Len(seqs[j]) = at + end[j]
                             /\ at + end[j] > at + end[i]
  <2>1. PICK j \in (i + 1)..n : /\ seqs[j] # <<>> /\ end[j - 1] = end[i]
                                /\ \A k \in (i + 1)..(j - 1) : seqs[k] = <<>>
    BY <1>7, <1>b
  <2>2. j \in 1..n /\ j \in 0..n /\ \A k \in (i + 1)..(j - 1) : k \in 1..n
    BY <1>0
  <2>3. tags[j] \in DOMAIN asked /\ GroupBytes(seqs[j], tags[j], asked[tags[j]])
    BY <1>8, <1>a, <2>1, <2>2
  <2>4. Written(buffer, at + end[i], seqs[j])
    BY <1>4, <2>1, <2>2
  <2>5. /\ buffer[at + end[i]] = ippTags[tags[j]]
        /\ Len(seqs[j]) > 1 => buffer[(at + end[i]) + 1] >= 15
    <3>1. at + end[i] \in Nat \ {0}
      BY <1>6
    <3> QED BY <2>3, <2>4, <3>1 DEF GroupBytes
  <2>6. \A k \in (i + 1)..(j - 1) : tags[k] \notin DOMAIN asked
    BY <1>8, <2>1, <2>2
  <2>7. (at + end[i]) + Len(seqs[j]) = at + end[j] /\ at + end[j] > at + end[i]
    <3> DEFINE d == end[i]
               e == end[j]
               l == Len(seqs[j])
    <3>1. e = d + l /\ d \in Nat /\ e \in Nat /\ l > 0
      BY <1>3, <1>6, <2>1, <2>2, <2>3 DEF GroupBytes
    <3>2. l \in Nat
      BY <1>0, <2>2
    <3> HIDE DEF d, e, l
    <3>3. (at + d) + l = at + e /\ at + e > at + d
      BY <3>1, <3>2
    <3> QED BY <3>3 DEF d, e, l
  <2> QED BY <2>1, <2>2, <2>3, <2>4, <2>5, <2>6, <2>7
<1>9. ASSUME NEW i \in 0..n PROVE buffer[at + end[i]] \in {1, 2, 3, 4, 6}
  <2>1. CASE end[i] = Len(all)
    BY <1>5, <2>1
  <2>2. CASE end[i] # Len(all)
    BY <1>b, <1>c, <2>2
  <2> QED BY <2>1, <2>2
<1>10. ASSUME NEW i \in 0..n PROVE GroupEnd(buffer, at + end[i])
  <2>1. at + end[i] <= Len(buffer) /\ buffer[at + end[i]] < 15
    <3>1. buffer[at + end[i]] \in {1, 2, 3, 4, 6} /\ at + end[i] \in 1..Len(buffer)
      BY <1>6, <1>9
    <3> QED BY <1>5, <3>1
  <2>2. ~ hasAdditionalValue(buffer, at + end[i])
    <3>1. CASE end[i] = Len(all)
      <4>1. buffer[at + end[i]] = ippTags["end-of-attributes-tag"]
        BY <1>5, <3>1, EndTag
      <4> QED BY <4>1 DEF hasAdditionalValue
    <3>2. CASE end[i] # Len(all)
      <4>1. PICK j \in 1..n :
              /\ j \in (i + 1)..n /\ GroupBytes(seqs[j], tags[j], asked[tags[j]])
              /\ Len(seqs[j]) > 1 => buffer[(at + end[i]) + 1] >= 15
              /\ (at + end[i]) + Len(seqs[j]) = at + end[j]
        BY <1>b, <3>2
      <4>2. j \in 0..n /\ Len(seqs[j]) \in Nat /\ Len(seqs[j]) > 0
        <5>1. j \in 0..n /\ seqs[j] \in Seq(Byte)
          BY <1>0
        <5> QED BY <4>1, <5>1 DEF GroupBytes
      <4>3. buffer[(at + end[i]) + 1] # 0
        <5>1. CASE Len(seqs[j]) > 1
          <6>1. buffer[(at + end[i]) + 1] >= 15
            BY <4>1, <5>1
          <6> QED BY <6>1
        <5>2. CASE ~ (Len(seqs[j]) > 1)
          <6> DEFINE l == Len(seqs[j])
          <6>0. l \in Nat /\ l > 0 /\ ~ (l > 1)
            BY <4>2, <5>2
          <6> HIDE DEF l
          <6>l. l = 1
            BY <6>0
          <6>1. Len(seqs[j]) = 1
            BY <6>l DEF l
          <6>2. (at + end[i]) + 1 = at + end[j]
            BY <4>1, <6>1
          <6>3. buffer[at + end[j]] \in {1, 2, 3, 4, 6}
            BY <1>9, <4>2
          <6>4. buffer[(at + end[i]) + 1] \in {1, 2, 3, 4, 6}
            BY <6>2, <6>3
          <6> QED BY <6>4
        <5> QED BY <5>1, <5>2
      <4> QED BY <4>3 DEF hasAdditionalValue
    <3> QED BY <3>1, <3>2
  <2> QED BY <2>1, <2>2 DEF GroupEnd
<1> DEFINE Places == {p \in (0..n) \X Seq(M) : GotGroups(tags, asked, p[1], p[2])}
           St(p) == Done(p[2], at + end[p[1]])
           S == {St(p) : p \in Places}
           T(s) == nextGroup(buffer, collection, s)
<1>11. ASSUME NEW i \in 0..n, NEW list \in Seq(M), GotGroups(tags, asked, i, list)
       PROVE  Done(list, at + end[i]) \in S
  <2>1. <<i, list>> \in Places
    BY <1>11
  <2>2. St(<<i, list>>) \in S
    BY <2>1
  <2> QED BY <2>2
<1>12. ASSUME NEW s \in S
       PROVE  \E i \in 0..n : \E list \in Seq(M) :
                GotGroups(tags, asked, i, list) /\ s = Done(list, at + end[i])
  <2>1. PICK p \in Places : s = St(p)
    OBVIOUS
  <2>2. p[1] \in 0..n /\ p[2] \in Seq(M) /\ GotGroups(tags, asked, p[1], p[2])
    OBVIOUS
  <2> QED BY <2>1, <2>2
<1> HIDE DEF S
<1>13. ASSUME NEW i \in 0..n, NEW list \in Seq(M), GotGroups(tags, asked, i, list)
       PROVE  LET s == Done(list, at + end[i])
              IN \/ end[i] = Len(all) /\ GotGroups(tags, asked, n, list) /\ T(s) = s
                 \/ T(s) \in S /\ T(s).next > s.next
  <2> DEFINE s == Done(list, at + end[i])
  <2>1. s.ok = TRUE /\ s.value = list /\ s.next = at + end[i] /\ at + end[i] \in 1..Len(buffer)
    BY <1>6 DEF Done
  <2>2. CASE end[i] = Len(all)
    <3>1. \A k \in (i + 1)..n : tags[k] \notin DOMAIN asked
      <4>1. ASSUME NEW k \in (i + 1)..n, tags[k] \in DOMAIN asked PROVE FALSE
        <5>1. CASE \A l \in (i + 1)..n : seqs[l] = <<>>
          <6>1. k \in 1..n
            BY <1>0
          <6> QED BY <1>8, <4>1, <5>1, <6>1
        <5>2. CASE \E j \in (i + 1)..n : seqs[j] # <<>> /\ end[j - 1] = end[i]
          <6>1. PICK j \in (i + 1)..n : seqs[j] # <<>> /\ end[j - 1] = end[i]
            BY <5>2
          <6>2. j \in 1..n
            BY <1>0
          <6>3. GroupBytes(seqs[j], tags[j], asked[tags[j]])
            BY <1>8, <1>a, <6>1, <6>2
          <6> DEFINE l == Len(seqs[j])
          <6>4. end[j] = end[i] + l /\ end[j] <= Len(all) /\ l > 0
            BY <1>3, <6>1, <6>2, <6>3 DEF GroupBytes
          <6>5. l \in Nat
            BY <1>0, <6>2
          <6> HIDE DEF l
          <6>6. end[i] \in Nat
            BY <1>6
          <6> QED BY <1>1, <2>2, <6>4, <6>5, <6>6
        <5> QED BY <1>7, <5>1, <5>2
      <4> QED BY <4>1
    <3>2. GotGroups(tags, asked, n, list)
      <4>1. tags \in Seq(D) /\ i \in 0..Len(tags) /\ GotGroups(tags, asked, i, list)
            /\ \A k \in (i + 1)..Len(tags) : tags[k] \notin DOMAIN asked
        BY <1>0, <1>13, <3>1 DEF n
      <4> QED BY <4>1, GotAllGroups DEF n
    <3>3. buffer[s.next] = ippTags["end-of-attributes-tag"]
      <4> HIDE DEF s
      <4> QED BY <1>5, <2>1, <2>2, EndTag
    <3> HIDE DEF s
    <3>4. T(s) = s
      BY <3>3 DEF nextGroup
    <3> QED BY <2>2, <3>2, <3>4 DEF s
  <2>3. CASE end[i] # Len(all)
    <3>1. PICK j \in 1..n : /\ j \in (i + 1)..n /\ tags[j] \in DOMAIN asked
                            /\ GroupBytes(seqs[j], tags[j], asked[tags[j]])
                            /\ Written(buffer, at + end[i], seqs[j])
                            /\ \A k \in (i + 1)..(j - 1) : tags[k] \notin DOMAIN asked
                            /\ (at + end[i]) + Len(seqs[j]) = at + end[j]
                            /\ at + end[j] > at + end[i]
      BY <1>b, <2>3
    <3>2. j \in 0..n
      BY <1>0
    <3>3. GroupEnd(buffer, (at + end[i]) + Len(seqs[j])) /\ at + end[i] \in Nat \ {0}
      BY <1>10, <1>6, <3>1, <3>2
    <3>4. PICK read : /\ IsSequence(read) /\ Got(asked[tags[j]], Len(asked[tags[j]]), read)
                      /\ nextGroup(buffer, collection, Done(list, at + end[i])) =
                           Done(Append(list, [tag |-> tags[j], attributes |-> read]),
                                (at + end[i]) + Len(seqs[j]))
      <4>1. GroupEnd(buffer, (at + end[i]) + Len(seqs[j])) =>
              \A co, li :
                \E read : /\ IsSequence(read) /\ Got(asked[tags[j]], Len(asked[tags[j]]), read)
                          /\ nextGroup(buffer, co, Done(li, at + end[i])) =
                               Done(Append(li, [tag |-> tags[j], attributes |-> read]),
                                    (at + end[i]) + Len(seqs[j]))
        BY <3>1, <3>3, Zenon DEF GroupBytes
      <4> QED BY <3>3, <4>1, Zenon
    <3> DEFINE item == [tag |-> tags[j], attributes |-> read]
    <3>5. item \in M
      BY <1>k, <3>4
    <3>6. GotGroups(tags, asked, j, Append(list, item)) /\ Append(list, item) \in Seq(M)
      <4>1. /\ tags \in Seq(D) /\ \A a, b \in 1..Len(tags) : a # b => tags[a] # tags[b]
            /\ list \in Seq(M) /\ i \in 0..Len(tags) /\ GotGroups(tags, asked, i, list)
            /\ j \in (i + 1)..Len(tags) /\ tags[j] \in DOMAIN asked
            /\ \A k \in (i + 1)..(j - 1) : tags[k] \notin DOMAIN asked
            /\ IsSequence(read) /\ Got(asked[tags[j]], Len(asked[tags[j]]), read)
            /\ [tag |-> tags[j], attributes |-> read] \in M
        BY <1>0, <1>13, <3>1, <3>4, <3>5 DEF n
      <4>2. GotGroups(tags, asked, j, Append(list, [tag |-> tags[j], attributes |-> read]))
        BY <4>1, GotMoreGroups, Zenon
      <4> HIDE DEF item
      <4>3. Append(list, item) \in Seq(M)
        BY <3>5
      <4> QED BY <4>2, <4>3 DEF item
    <3>7. T(s) = Done(Append(list, item), at + end[j])
      BY <3>1, <3>4
    <3> HIDE DEF item
    <3>8. T(s) \in S
      BY <1>11, <3>2, <3>6, <3>7
    <3>9. T(s).next = at + end[j]
      BY <3>7 DEF Done
    <3> HIDE DEF s, T
    <3>10. T(s).next > s.next
      BY <2>1, <3>1, <3>9
    <3> QED BY <3>8, <3>10 DEF s
  <2> QED BY <2>2, <2>3
<1> HIDE DEF T
<1>14. ASSUME NEW s \in S
       PROVE  /\ s.next \in 1..(Len(buffer) + 1) /\ T(s) \in S
              /\ T(s) = s \/ T(s).next > s.next
  <2>1. PICK i \in 0..n, list \in Seq(M) :
          GotGroups(tags, asked, i, list) /\ s = Done(list, at + end[i])
    BY <1>12
  <2>2. s.next = at + end[i]
    BY <2>1 DEF Done
  <2>3. at + end[i] \in 1..Len(buffer)
    BY <1>6
  <2>4. s.next \in 1..(Len(buffer) + 1)
    BY <1>5, <2>2, <2>3
  <2>5. T(s) = s \/ (T(s) \in S /\ T(s).next > s.next)
    BY <1>13, <2>1
  <2> QED BY <2>4, <2>5
<1>15. GroupsMove(buffer, collection, S)
  BY <1>14 DEF GroupsMove, T
<1> DEFINE start == ListFrom(at)
<1>16. start \in S
  <2>1. GotGroups(tags, asked, 0, <<>>) /\ <<>> \in Seq(M) /\ 0 \in 0..n
    BY <1>0, GotNoGroup
  <2>2. Done(<<>>, at + end[0]) \in S
    BY <1>11, <2>1
  <2>3. at + end[0] = at
    BY <1>3
  <2> QED BY <2>2, <2>3 DEF ListFrom, Done
<1> HIDE DEF start
<1>17. PICK s \in S : T(s) = s /\ GroupsRun(buffer, collection, start) = s
  BY <1>15, <1>16, GroupsLoop DEF T
<1>18. PICK i \in 0..n, list \in Seq(M) :
         GotGroups(tags, asked, i, list) /\ s = Done(list, at + end[i])
  BY <1>12
<1>19. end[i] = Len(all) /\ GotGroups(tags, asked, n, list)
  <2>1. s.next = at + end[i] /\ at + end[i] \in Int
    BY <1>6, <1>18 DEF Done
  <2>2. ~ (T(s).next > s.next)
    BY <1>17, <2>1
  <2> QED BY <1>13, <1>18, <2>2
<1>20. readGroups(buffer, collection, at) = Done(list, at + Len(all))
  BY <1>17, <1>18, <1>19 DEF readGroups, GroupsRun, start
<1>21. list \in Seq(ToSet(list))
  <2>1. Len(list) \in Nat /\ list = [a \in 1..Len(list) |-> list[a]]
    OBVIOUS
  <2>2. \A a \in 1..Len(list) : list[a] \in ToSet(list)
    BY DEF ToSet
  <2> DEFINE L == ToSet(list)
  <2> HIDE DEF L
  <2>3. \A a \in 1..Len(list) : list[a] \in L
    BY <2>2 DEF L
  <2>4. list \in Seq(L)
    BY <2>1, <2>3
  <2> QED BY <2>4 DEF L
<1> QED BY <1>19, <1>20, <1>21 DEF n, all, GroupsReadBack

-----------------------------------------------------------------------------
(* The attributes that are written of a request *)

\* What is kept of a sequence is each of those elements once.
LEMMA OnlyOnce ==
  ASSUME NEW S, NEW s \in Seq(S), NamesApart(s), NEW places, places \subseteq DOMAIN s
  PROVE  /\ Only(s, places) \in Seq(S) /\ NamesApart(Only(s, places))
         /\ ToSet(Only(s, places)) = {s[a] : a \in places}
<1> DEFINE t == Only(s, places)
<1>1. t \in Seq(S) /\ DOMAIN t = 1..Len(t)
  BY OnlyKeeps
<1>2. PICK p : Keeps(s, places, t, p)
  BY OnlyKeeps
<1> HIDE DEF t
<1>3. \A k \in 1..Len(t) : \E a \in places : p[a] = k /\ t[k] = s[a]
  BY <1>2 DEF Keeps
<1>4. \A a \in places : p[a] \in 1..Len(t) /\ t[p[a]] = s[a]
  BY <1>2 DEF Keeps
<1>5. NamesApart(t)
  <2>1. ASSUME NEW i \in 1..Len(t), NEW j \in 1..Len(t), i # j PROVE t[i][1] # t[j][1]
    <3>1. PICK a \in places : p[a] = i /\ t[i] = s[a]
      BY <1>3
    <3>2. PICK b \in places : p[b] = j /\ t[j] = s[b]
      BY <1>3
    <3>3. a # b /\ a \in DOMAIN s /\ b \in DOMAIN s
      BY <2>1, <3>1, <3>2
    <3> QED BY <3>1, <3>2, <3>3 DEF NamesApart
  <2> QED BY <1>1, <2>1 DEF NamesApart
<1>6. ToSet(t) = {s[a] : a \in places}
  BY <1>1, <1>3, <1>4 DEF ToSet
<1> QED BY <1>1, <1>5, <1>6 DEF t

\* Two sequences without a name in common, one after the other.
LEMMA BothOnce ==
  ASSUME NEW S, NEW s \in Seq(S), NEW t \in Seq(S), NamesApart(s), NamesApart(t),
         \A a \in ToSet(s), b \in ToSet(t) : a[1] # b[1]
  PROVE  /\ s \o t \in Seq(S) /\ NamesApart(s \o t) /\ ToSet(s \o t) = ToSet(s) \cup ToSet(t)
         /\ \A i \in 1..Len(s) : (s \o t)[i] = s[i]
<1> DEFINE u == s \o t
           m == Len(s)
           n == Len(t)
<1>1. /\ u \in Seq(S) /\ DOMAIN u = 1..(m + n) /\ m \in Nat /\ n \in Nat
      /\ DOMAIN s = 1..m /\ DOMAIN t = 1..n
      /\ \A i \in 1..(m + n) : u[i] = IF i <= m THEN s[i] ELSE t[i - m]
  BY ConcatProperties
<1> HIDE DEF u, m, n
<1>2. \A i \in 1..m : i \in 1..(m + n) /\ i <= m
  BY <1>1
<1>3. \A i \in 1..n : m + i \in 1..(m + n) /\ ~ (m + i <= m) /\ (m + i) - m = i
  BY <1>1
<1>4. \A i \in 1..(m + n) : i \in 1..m \/ (~ (i <= m) /\ i - m \in 1..n)
  BY <1>1
<1>5. \A i \in 1..m : u[i] = s[i]
  BY <1>1, <1>2
<1>6. \A i \in 1..(m + n) : i \notin 1..m => i - m \in 1..n /\ u[i] = t[i - m]
  BY <1>1, <1>2, <1>4
<1>7. \A i \in 1..n : u[m + i] = t[i]
  BY <1>1, <1>3
<1>8. ToSet(u) = ToSet(s) \cup ToSet(t)
  <2>1. ASSUME NEW x \in ToSet(u) PROVE x \in ToSet(s) \cup ToSet(t)
    <3>1. PICK i \in 1..(m + n) : x = u[i]
      BY <1>1 DEF ToSet
    <3> QED BY <1>1, <1>5, <1>6, <3>1 DEF ToSet
  <2>2. ASSUME NEW x \in ToSet(s) PROVE x \in ToSet(u)
    <3>1. PICK i \in 1..m : x = s[i]
      BY <1>1 DEF ToSet
    <3> QED BY <1>1, <1>2, <1>5, <3>1 DEF ToSet
  <2>3. ASSUME NEW x \in ToSet(t) PROVE x \in ToSet(u)
    <3>1. PICK i \in 1..n : x = t[i]
      BY <1>1 DEF ToSet
    <3> QED BY <1>1, <1>3, <1>7, <3>1, ZenonT(60) DEF ToSet
  <2> QED BY <2>1, <2>2, <2>3
<1>9. ASSUME NEW i \in 1..(m + n), NEW j \in 1..(m + n), i # j PROVE u[i][1] # u[j][1]
  <2>a. ASSUME NEW k \in 1..m PROVE u[k] = s[k] /\ s[k] \in ToSet(s) /\ k \in DOMAIN s
    BY <1>1, <1>5 DEF ToSet
  <2>b. ASSUME NEW k \in 1..(m + n), k \notin 1..m
        PROVE  u[k] = t[k - m] /\ t[k - m] \in ToSet(t) /\ k - m \in DOMAIN t
    BY <1>1, <1>6, <2>b DEF ToSet
  <2>1. CASE i \in 1..m /\ j \in 1..m
    BY <1>9, <2>1, <2>a DEF NamesApart
  <2>2. CASE i \in 1..m /\ j \notin 1..m
    <3>1. u[i] \in ToSet(s) /\ u[j] \in ToSet(t)
      BY <2>2, <2>a, <2>b
    <3> QED BY <3>1
  <2>3. CASE i \notin 1..m /\ j \in 1..m
    <3>1. u[j] \in ToSet(s) /\ u[i] \in ToSet(t)
      BY <2>3, <2>a, <2>b
    <3>2. u[j][1] # u[i][1]
      BY <3>1
    <3> QED BY <3>2
  <2>4. CASE i \notin 1..m /\ j \notin 1..m
    <3>1. /\ u[i] = t[i - m] /\ i - m \in DOMAIN t
          /\ u[j] = t[j - m] /\ j - m \in DOMAIN t
      BY <2>4, <2>b
    <3>2. i - m # j - m
      BY <1>1, <1>9
    <3> QED BY <3>1, <3>2 DEF NamesApart
  <2> QED BY <2>1, <2>2, <2>3, <2>4
<1>10. NamesApart(u)
  BY <1>1, <1>9 DEF NamesApart
<1> QED BY <1>1, <1>5, <1>8, <1>10 DEF u, m

\* Any number of them.
Apart(seqs) ==
  \A i, j \in 1..Len(seqs) : i # j => \A a \in ToSet(seqs[i]), b \in ToSet(seqs[j]) : a[1] # b[1]

\* Sequences without a name in common, none with one twice, have none twice together.
LEMMA AllOnce ==
  ASSUME NEW S, NEW seqs \in Seq(Seq(S)), Len(seqs) # 0, Apart(seqs),
         \A i \in 1..Len(seqs) : NamesApart(seqs[i])
  PROVE  /\ FlattenSeq(seqs) \in Seq(S) /\ NamesApart(FlattenSeq(seqs))
         /\ ToSet(FlattenSeq(seqs)) = UNION {ToSet(seqs[i]) : i \in 1..Len(seqs)}
<1> DEFINE n == Len(seqs)
<1>1. n \in Nat \ {0} /\ \A i \in 1..n : seqs[i] \in Seq(S) /\ NamesApart(seqs[i])
  OBVIOUS
<1>2. PICK f : SoFar(seqs, f) /\ FlattenSeq(seqs) = f[n]
  BY <1>1, FlattenLast
<1>3. f[1] = seqs[1] /\ \A i \in 1..(n - 1) : f[i + 1] = f[i] \o seqs[i + 1]
  BY <1>1, <1>2, SoFarNext
<1>a. \A i, j \in 1..n : i # j => \A a \in ToSet(seqs[i]), b \in ToSet(seqs[j]) : a[1] # b[1]
  BY DEF Apart
<1> HIDE DEF n
<1> DEFINE So == {i \in 1..n : /\ f[i] \in Seq(S) /\ NamesApart(f[i])
                               /\ ToSet(f[i]) = UNION {ToSet(seqs[k]) : k \in 1..i}}
<1>4. 1 \in So
  <2>1. 1 \in 1..n /\ 1..1 = {1}
    BY <1>1
  <2>2. UNION {ToSet(seqs[k]) : k \in {1}} = ToSet(seqs[1])
    OBVIOUS
  <2>3. UNION {ToSet(seqs[k]) : k \in 1..1} = ToSet(seqs[1])
    BY <2>1, <2>2
  <2> QED BY <1>1, <1>3, <2>1, <2>3
<1>5. ASSUME NEW i \in 1..(n - 1), i \in So PROVE i + 1 \in So
  <2>1. i + 1 \in 1..n /\ i \in 1..n
    BY <1>1
  <2>2. /\ f[i] \in Seq(S) /\ NamesApart(f[i]) /\ seqs[i + 1] \in Seq(S) /\ NamesApart(seqs[i + 1])
        /\ ToSet(f[i]) = UNION {ToSet(seqs[k]) : k \in 1..i}
    BY <1>1, <1>5, <2>1
  <2>3. \A a \in ToSet(f[i]), b \in ToSet(seqs[i + 1]) : a[1] # b[1]
    <3>1. ASSUME NEW a \in ToSet(f[i]), NEW b \in ToSet(seqs[i + 1]) PROVE a[1] # b[1]
      <4>1. PICK k \in 1..i : a \in ToSet(seqs[k])
        BY <2>2
      <4>2. k \in 1..n /\ k # i + 1
        BY <1>1
      <4> QED BY <1>a, <2>1, <4>1, <4>2
    <3> QED BY <3>1
  <2>4. /\ f[i] \o seqs[i + 1] \in Seq(S) /\ NamesApart(f[i] \o seqs[i + 1])
        /\ ToSet(f[i] \o seqs[i + 1]) = ToSet(f[i]) \cup ToSet(seqs[i + 1])
    <3> DEFINE g == f[i]
               h == seqs[i + 1]
    <3>1. /\ g \in Seq(S) /\ h \in Seq(S) /\ NamesApart(g) /\ NamesApart(h)
          /\ \A a \in ToSet(g), b \in ToSet(h) : a[1] # b[1]
      BY <2>2, <2>3
    <3> HIDE DEF g, h
    <3>2. g \o h \in Seq(S) /\ NamesApart(g \o h) /\ ToSet(g \o h) = ToSet(g) \cup ToSet(h)
      BY <3>1, BothOnce
    <3> QED BY <3>2 DEF g, h
  <2>5. f[i + 1] = f[i] \o seqs[i + 1]
    BY <1>3
  <2>6. 1..(i + 1) = 1..i \cup {i + 1}
    BY <2>1
  <2>7. UNION {ToSet(seqs[k]) : k \in 1..i \cup {i + 1}} =
          (UNION {ToSet(seqs[k]) : k \in 1..i}) \cup ToSet(seqs[i + 1])
    OBVIOUS
  <2>8. ToSet(f[i + 1]) = UNION {ToSet(seqs[k]) : k \in 1..(i + 1)}
    BY <2>2, <2>4, <2>5, <2>6, <2>7
  <2>9. f[i + 1] \in Seq(S) /\ NamesApart(f[i + 1])
    BY <2>4, <2>5
  <2> QED BY <2>1, <2>8, <2>9
<1>6. \A i \in 1..n : i \in So
  <2> HIDE DEF So
  <2> QED BY <1>1, <1>4, <1>5, StepByStep
<1>7. n \in So
  <2> HIDE DEF So
  <2>1. n \in 1..n
    BY <1>1
  <2> QED BY <1>6, <2>1
<1> QED BY <1>2, <1>7 DEF n

\* The names with a place of their own.
Special(i) == W(specialOperationAttributesOrder[i])

\* The five attributes that come first (codec.ts).
LEMMA SpecialsKnown ==
  /\ DOMAIN specialOperationAttributesOrder = 1..5
  /\ Special(1) = W("attributes-charset") /\ Special(2) = W("attributes-natural-language")
  /\ Special(3) = W("printer-uri")
  /\ \A i, j \in 1..5 : i # j => Special(i) # Special(j)
<1>1. /\ DOMAIN specialOperationAttributesOrder = 1..5
      /\ specialOperationAttributesOrder[1] = "attributes-charset"
      /\ specialOperationAttributesOrder[2] = "attributes-natural-language"
      /\ specialOperationAttributesOrder[3] = "printer-uri"
      /\ specialOperationAttributesOrder[4] = "job-id"
      /\ specialOperationAttributesOrder[5] = "job-uri"
  BY DEF specialOperationAttributesOrder
<1>2. \A i, j \in 1..5 :
        i # j => specialOperationAttributesOrder[i] # specialOperationAttributesOrder[j]
  BY <1>1
<1>3. \A i \in 1..5 : specialOperationAttributesOrder[i] \in DOMAIN Spelling
  BY <1>1, AllSpelled
<1>4. ASSUME NEW i \in 1..5, NEW j \in 1..5, i # j PROVE Special(i) # Special(j)
  <2>1. ASSUME Special(i) = Special(j) PROVE FALSE
    <3> DEFINE a == specialOperationAttributesOrder[i]
               b == specialOperationAttributesOrder[j]
    <3>1. a \in DOMAIN Spelling /\ b \in DOMAIN Spelling /\ a # b /\ W(a) = W(b)
      BY <1>2, <1>3, <1>4, <2>1 DEF Special
    <3> HIDE DEF a, b
    <3> QED BY <3>1, SpelledApart
  <2> QED BY <2>1
<1> QED BY <1>1, <1>4 DEF Special

\* The attributes with one of these names, in their order.
NamedAs(attributes, names) ==
  Only(attributes, {i \in DOMAIN attributes : attributes[i][1] \in names})
SpecialPieces(attributes) == [i \in 1..5 |-> NamedAs(attributes, {Special(i)})]
OtherNames(attributes) ==
  {attributes[i][1] : i \in DOMAIN attributes} \ {Special(i) : i \in 1..5}

\* The operation attributes in their order: the special ones and the others.
LEMMA OrderedParts ==
  ASSUME NEW attributes
  PROVE  orderedOperationAttributes(attributes) =
           FlattenSeq(SpecialPieces(attributes)) \o NamedAs(attributes, OtherNames(attributes))
<1> DEFINE special == [i \in DOMAIN specialOperationAttributesOrder |->
                         W(specialOperationAttributesOrder[i])]
<1>1. special = [i \in 1..5 |-> Special(i)]
  BY SpecialsKnown DEF Special
<1>2. DOMAIN special = 1..5
  BY <1>1
<1> HIDE DEF special
<1>3. ToSet(special) = {Special(i) : i \in 1..5}
  BY <1>1 DEF ToSet
<1>4. [i \in DOMAIN special |-> NamedAs(attributes, {special[i]})] = SpecialPieces(attributes)
  BY <1>1 DEF SpecialPieces
<1>5. orderedOperationAttributes(attributes) =
        FlattenSeq([i \in DOMAIN special |-> NamedAs(attributes, {special[i]})])
        \o NamedAs(attributes, {attributes[i][1] : i \in DOMAIN attributes} \ ToSet(special))
  BY DEF orderedOperationAttributes, NamedAs, special
<1> QED BY <1>3, <1>4, <1>5 DEF OtherNames

\* The attributes with some names are those of the sequence, in their order.
LEMMA NamedOnce ==
  ASSUME NEW S, NEW attributes \in Seq(S), NamesApart(attributes), NEW names
  PROVE  /\ NamedAs(attributes, names) \in Seq(S) /\ NamesApart(NamedAs(attributes, names))
         /\ \A a : a \in ToSet(NamedAs(attributes, names)) <=>
                     a \in ToSet(attributes) /\ a[1] \in names
<1> DEFINE places == {i \in DOMAIN attributes : attributes[i][1] \in names}
<1>1. places \subseteq DOMAIN attributes
  OBVIOUS
<1>2. \A a : a \in {attributes[i] : i \in places} <=> a \in ToSet(attributes) /\ a[1] \in names
  BY DEF ToSet
<1> HIDE DEF places
<1>3. /\ Only(attributes, places) \in Seq(S) /\ NamesApart(Only(attributes, places))
      /\ ToSet(Only(attributes, places)) = {attributes[i] : i \in places}
  BY <1>1, OnlyOnce
<1> QED BY <1>2, <1>3 DEF NamedAs, places

\* The order of the operation attributes loses none and repeats none.
LEMMA OrderedOnce ==
  ASSUME NEW S, NEW attributes \in Seq(S), NamesApart(attributes)
  PROVE  /\ orderedOperationAttributes(attributes) \in Seq(S)
         /\ NamesApart(orderedOperationAttributes(attributes))
         /\ ToSet(orderedOperationAttributes(attributes)) = ToSet(attributes)
         /\ FlattenSeq(SpecialPieces(attributes)) \in Seq(S)
         /\ \A i \in 1..Len(FlattenSeq(SpecialPieces(attributes))) :
              orderedOperationAttributes(attributes)[i] = FlattenSeq(SpecialPieces(attributes))[i]
<1> DEFINE seqs == SpecialPieces(attributes)
           rest == NamedAs(attributes, OtherNames(attributes))
           first == FlattenSeq(seqs)
<1>1. ASSUME NEW i \in 1..5
      PROVE  /\ seqs[i] \in Seq(S) /\ NamesApart(seqs[i])
             /\ \A a : a \in ToSet(seqs[i]) <=> a \in ToSet(attributes) /\ a[1] = Special(i)
  <2>1. seqs[i] = NamedAs(attributes, {Special(i)})
    BY DEF SpecialPieces
  <2> DEFINE names == {Special(i)}
  <2>2. \A x : x \in names <=> x = Special(i)
    OBVIOUS
  <2> HIDE DEF names, seqs
  <2>3. /\ NamedAs(attributes, names) \in Seq(S) /\ NamesApart(NamedAs(attributes, names))
        /\ \A a : a \in ToSet(NamedAs(attributes, names)) <=>
                    a \in ToSet(attributes) /\ a[1] \in names
    BY NamedOnce
  <2>4. seqs[i] = NamedAs(attributes, names)
    BY <2>1 DEF names
  <2> QED BY <2>2, <2>3, <2>4
<1>2. seqs = [i \in 1..5 |-> seqs[i]]
  BY DEF SpecialPieces
<1> HIDE DEF seqs
<1>3. seqs \in Seq(Seq(S)) /\ Len(seqs) = 5
  BY <1>1, <1>2
<1>4. Apart(seqs)
  <2>1. ASSUME NEW i \in 1..5, NEW j \in 1..5, i # j,
               NEW a \in ToSet(seqs[i]), NEW b \in ToSet(seqs[j])
        PROVE  a[1] # b[1]
    <3>1. a[1] = Special(i) /\ b[1] = Special(j)
      BY <1>1
    <3> QED BY <2>1, <3>1, SpecialsKnown
  <2>2. 1..Len(seqs) = 1..5
    BY <1>3
  <2> QED BY <2>1, <2>2 DEF Apart
<1>5. /\ first \in Seq(S) /\ NamesApart(first)
      /\ ToSet(first) = UNION {ToSet(seqs[i]) : i \in 1..5}
  <2>1. /\ first \in Seq(S) /\ NamesApart(first)
        /\ ToSet(first) = UNION {ToSet(seqs[i]) : i \in 1..Len(seqs)}
    <3>1. Len(seqs) # 0 /\ \A i \in 1..Len(seqs) : NamesApart(seqs[i])
      BY <1>1, <1>3
    <3> QED BY <1>3, <1>4, <3>1, AllOnce
  <2> QED BY <1>3, <2>1
<1>6. /\ rest \in Seq(S) /\ NamesApart(rest)
      /\ \A a : a \in ToSet(rest) <=> a \in ToSet(attributes) /\ a[1] \in OtherNames(attributes)
  BY NamedOnce
<1>7. \A a \in ToSet(attributes) :
        a[1] \in OtherNames(attributes) <=> a[1] \notin {Special(i) : i \in 1..5}
  BY DEF OtherNames, ToSet
<1> HIDE DEF first, rest
<1>8. \A a : a \in ToSet(first) <=> a \in ToSet(attributes) /\ a[1] \in {Special(i) : i \in 1..5}
  <2>1. \A a : a \in ToSet(first) <=> \E i \in 1..5 : a \in ToSet(seqs[i])
    BY <1>5
  <2> QED BY <1>1, <2>1
<1>9. \A a \in ToSet(first), b \in ToSet(rest) : a[1] # b[1]
  BY <1>6, <1>7, <1>8
<1>10. /\ first \o rest \in Seq(S) /\ NamesApart(first \o rest)
       /\ ToSet(first \o rest) = ToSet(first) \cup ToSet(rest)
       /\ \A i \in 1..Len(first) : (first \o rest)[i] = first[i]
  BY <1>5, <1>6, <1>9, BothOnce
<1>11. ToSet(first) \cup ToSet(rest) = ToSet(attributes)
  BY <1>6, <1>7, <1>8
<1>12. orderedOperationAttributes(attributes) = first \o rest
  BY OrderedParts DEF first, rest, seqs
<1> QED BY <1>5, <1>10, <1>11, <1>12 DEF first, seqs

\* The charset, the language and the printer come first.
LEMMA OrderedFirst ==
  ASSUME NEW S, NEW attributes \in Seq(S), NamesApart(attributes),
         NEW place, place \in [1..3 -> DOMAIN attributes],
         \A i \in 1..3 : attributes[place[i]][1] = Special(i)
  PROVE  /\ Len(orderedOperationAttributes(attributes)) >= 3
         /\ \A i \in 1..3 : orderedOperationAttributes(attributes)[i] = attributes[place[i]]
<1> DEFINE seqs == SpecialPieces(attributes)
           all == FlattenSeq(seqs)
           ordered == orderedOperationAttributes(attributes)
<1>1. ASSUME NEW i \in 1..3 PROVE seqs[i] = <<attributes[place[i]]>>
  <2> DEFINE a == place[i]
             names == {Special(i)}
             places == {k \in DOMAIN attributes : attributes[k][1] \in names}
  <2>1. a \in DOMAIN attributes /\ attributes[a][1] = Special(i)
    OBVIOUS
  <2>2. places \cap DOMAIN attributes = {a}
    BY <2>1 DEF NamesApart
  <2>3. i \in 1..5
    OBVIOUS
  <2> HIDE DEF a, places
  <2>4. Only(attributes, places) = <<attributes[a]>>
    BY <2>1, <2>2, OnlyOne
  <2> QED BY <2>3, <2>4 DEF SpecialPieces, NamedAs, places, a
<1>2. /\ ordered \in Seq(S) /\ all \in Seq(S)
      /\ \A i \in 1..Len(all) : ordered[i] = all[i]
  BY OrderedOnce
<1>3. seqs \in Seq(Seq(S)) /\ Len(seqs) = 5
  <2>1. \A i \in 1..5 : NamedAs(attributes, {Special(i)}) \in Seq(S)
    <3>1. ASSUME NEW i \in 1..5 PROVE NamedAs(attributes, {Special(i)}) \in Seq(S)
      <4> DEFINE names == {Special(i)}
      <4> HIDE DEF names
      <4>1. NamedAs(attributes, names) \in Seq(S)
        BY NamedOnce
      <4> QED BY <4>1 DEF names
    <3> QED BY <3>1
  <2> QED BY <2>1 DEF SpecialPieces
<1> HIDE DEF seqs, all, ordered
<1>4. PICK end : Ends(seqs, all, end)
  BY <1>3, PiecesPlaced DEF all
<1>5. \A i \in 1..3 : Len(seqs[i]) = 1 /\ seqs[i][1] = attributes[place[i]]
  <2>1. \A x : Len(<<x>>) = 1 /\ <<x>>[1] = x
    OBVIOUS
  <2> QED BY <1>1, <2>1, Zenon
<1>6. /\ end[0] = 0
      /\ \A i \in 1..5 : /\ end[i] = end[i - 1] + Len(seqs[i]) /\ end[i] <= Len(all)
                         /\ \A k \in 1..Len(seqs[i]) : all[end[i - 1] + k] = seqs[i][k]
  <2>1. 1..Len(seqs) = 1..5
    BY <1>3
  <2> QED BY <1>4, <2>1 DEF Ends
<1>7. ASSUME NEW i \in 1..3, end[i - 1] = i - 1
      PROVE  end[i] = i /\ end[i] <= Len(all) /\ all[i] = attributes[place[i]]
  <2>1. i \in 1..5 /\ Len(seqs[i]) = 1 /\ 1 \in 1..1 /\ (i - 1) + 1 = i
    BY <1>5
  <2>2. end[i] = end[i - 1] + 1 /\ end[i] <= Len(all) /\ all[end[i - 1] + 1] = seqs[i][1]
    BY <1>6, <2>1
  <2> QED BY <1>5, <1>7, <2>1, <2>2
<1>8. end[1] = 1 /\ end[2] = 2 /\ end[3] = 3
  <2>1. 1 \in 1..3 /\ 2 \in 1..3 /\ 3 \in 1..3 /\ 1 - 1 = 0 /\ 2 - 1 = 1 /\ 3 - 1 = 2
    OBVIOUS
  <2>2. end[1] = 1
    BY <1>6, <1>7, <2>1
  <2>3. end[2] = 2
    BY <1>7, <2>1, <2>2
  <2>4. end[3] = 3
    BY <1>7, <2>1, <2>3
  <2> QED BY <2>2, <2>3, <2>4
<1>9. \A i \in 1..3 : all[i] = attributes[place[i]] /\ i <= Len(all)
  <2>1. \A i \in 1..3 : end[i - 1] = i - 1
    BY <1>6, <1>8, SMTT(40)
  <2> QED BY <1>7, <2>1
<1>10. \A i \in 1..3 : ordered[i] = attributes[place[i]]
  <2>1. Len(all) \in Nat
    BY <1>2
  <2>2. \A i \in 1..3 : i \in 1..Len(all)
    BY <1>9, <2>1
  <2> QED BY <1>2, <1>9, <2>2
<1>11. Len(ordered) >= 3
  <2>1. \A i \in 1..Len(all) : i \in 1..Len(all)
    OBVIOUS
  <2>2. Len(all) \in Nat /\ Len(all) >= 3
    BY <1>2, <1>9
  <2>3. Len(ordered) >= Len(all)
    <3>1. PICK rest \in Seq(S) : ordered = all \o rest
      <4>1. NamedAs(attributes, OtherNames(attributes)) \in Seq(S)
        BY NamedOnce
      <4> QED BY <4>1, OrderedParts DEF ordered, all, seqs
    <3>2. Len(all \o rest) = Len(all) + Len(rest) /\ Len(rest) \in Nat
      BY <1>2, Joined
    <3> QED BY <2>2, <3>1, <3>2
  <2>4. Len(ordered) \in Nat
    BY <1>2
  <2> QED BY <2>2, <2>3, <2>4
<1> QED BY <1>10, <1>11 DEF ordered

\* The names of the attributes of a sequence, and the value of one of them.
NamesIn(attributes) == {attributes[i][1] : i \in DOMAIN attributes}
ValueIn(attributes, name) ==
  attributes[CHOOSE i \in DOMAIN attributes : attributes[i][1] = name][2]

\* A spread of two objects: the first with the values of the second, and what the
\* second has besides.
LEMMA SpreadParts ==
  ASSUME NEW first, NEW second
  PROVE  Spread(first, second) =
           [i \in DOMAIN first |-> <<first[i][1], IF first[i][1] \in NamesIn(second)
                                       THEN ValueIn(second, first[i][1]) ELSE first[i][2]>>]
           \o Only(second, {i \in DOMAIN second : second[i][1] \notin NamesIn(first)})
  BY Zenon DEF Spread, NamesIn, ValueIn

\* What a spread has: all of the second, and what of the first has another name.
LEMMA SpreadOnce ==
  ASSUME NEW S, \A a \in S : a = <<a[1], a[2]>>,
         NEW first \in Seq(S), NEW second \in Seq(S), NamesApart(first), NamesApart(second)
  PROVE  /\ Spread(first, second) \in Seq(S) /\ NamesApart(Spread(first, second))
         /\ \A a : a \in ToSet(Spread(first, second)) <=>
                     \/ a \in ToSet(second)
                     \/ a \in ToSet(first) /\ \A b \in ToSet(second) : b[1] # a[1]
         /\ \A i \in DOMAIN first : /\ i \in DOMAIN Spread(first, second)
                                    /\ Spread(first, second)[i][1] = first[i][1]
<1> DEFINE m == Len(first)
           Mine(i) == IF first[i][1] \in NamesIn(second)
                      THEN ValueIn(second, first[i][1]) ELSE first[i][2]
           s == [i \in DOMAIN first |-> <<first[i][1], Mine(i)>>]
           places == {i \in DOMAIN second : second[i][1] \notin NamesIn(first)}
           t == Only(second, places)
<1>1. Spread(first, second) = s \o t
  BY SpreadParts
<1>2. ASSUME NEW i \in DOMAIN first
      PROVE  /\ s[i][1] = first[i][1] /\ s[i] \in S
             /\ \/ s[i] \in ToSet(second)
                \/ s[i] = first[i] /\ \A b \in ToSet(second) : b[1] # first[i][1]
  <2>0. s[i] = <<first[i][1], Mine(i)>> /\ s[i][1] = first[i][1]
    OBVIOUS
  <2>1. CASE first[i][1] \in NamesIn(second)
    <3> DEFINE k == CHOOSE k \in DOMAIN second : second[k][1] = first[i][1]
    <3>1. k \in DOMAIN second /\ second[k][1] = first[i][1]
      BY <2>1 DEF NamesIn
    <3>2. Mine(i) = second[k][2]
      BY <2>1 DEF ValueIn
    <3> HIDE DEF k, Mine
    <3>3. second[k] \in S /\ second[k] = <<second[k][1], second[k][2]>>
      BY <3>1
    <3>4. s[i] = second[k]
      BY <2>0, <3>1, <3>2, <3>3
    <3> QED BY <2>0, <3>1, <3>3, <3>4 DEF ToSet
  <2>2. CASE first[i][1] \notin NamesIn(second)
    <3>1. Mine(i) = first[i][2]
      BY <2>2
    <3>2. first[i] \in S /\ first[i] = <<first[i][1], first[i][2]>>
      OBVIOUS
    <3>3. \A b \in ToSet(second) : b[1] # first[i][1]
      BY <2>2 DEF NamesIn, ToSet
    <3> HIDE DEF Mine
    <3>4. s[i] = first[i]
      BY <2>0, <3>1, <3>2
    <3> QED BY <2>0, <3>2, <3>3, <3>4
  <2> QED BY <2>1, <2>2
<1>3. DOMAIN first = 1..m /\ m \in Nat /\ DOMAIN s = 1..m
  OBVIOUS
<1>3s. s = [i \in 1..m |-> s[i]]
  BY <1>3
<1> HIDE DEF s, m
<1>4. s \in Seq(S) /\ Len(s) = m
  <2>1. \A i \in 1..m : s[i] \in S
    BY <1>2, <1>3
  <2>2. m \in Nat
    BY <1>3
  <2> QED BY <1>3s, <2>1, <2>2
<1>5. NamesApart(s)
  BY <1>2, <1>3 DEF NamesApart
<1>6. places \subseteq DOMAIN second
  OBVIOUS
<1>7. \A a : a \in {second[i] : i \in places} <=> a \in ToSet(second) /\ a[1] \notin NamesIn(first)
  BY DEF ToSet
<1> HIDE DEF places, t
<1>8. /\ t \in Seq(S) /\ NamesApart(t)
      /\ \A a : a \in ToSet(t) <=> a \in ToSet(second) /\ a[1] \notin NamesIn(first)
  <2>1. t \in Seq(S) /\ NamesApart(t) /\ ToSet(t) = {second[i] : i \in places}
    BY <1>6, OnlyOnce DEF t
  <2> QED BY <1>7, <2>1
<1>9. \A a \in ToSet(s) : a[1] \in NamesIn(first)
  BY <1>2, <1>3 DEF ToSet, NamesIn
<1>10. \A a \in ToSet(s), b \in ToSet(t) : a[1] # b[1]
  BY <1>8, <1>9
<1>11. /\ s \o t \in Seq(S) /\ NamesApart(s \o t)
       /\ ToSet(s \o t) = ToSet(s) \cup ToSet(t)
       /\ \A i \in 1..Len(s) : (s \o t)[i] = s[i]
  BY <1>4, <1>5, <1>8, <1>10, BothOnce
<1>12. ASSUME NEW a, a \in ToSet(s)
       PROVE  a \in ToSet(second) \/ (a \in ToSet(first) /\ \A b \in ToSet(second) : b[1] # a[1])
  <2>1. PICK i \in DOMAIN first : a = s[i]
    BY <1>3, <1>12 DEF ToSet
  <2>2. CASE s[i] \in ToSet(second)
    BY <2>1, <2>2
  <2>3. CASE s[i] = first[i] /\ \A b \in ToSet(second) : b[1] # first[i][1]
    BY <2>1, <2>3 DEF ToSet
  <2> QED BY <1>2, <2>2, <2>3
<1>13. ASSUME NEW a, a \in ToSet(first), \A b \in ToSet(second) : b[1] # a[1]
       PROVE  a \in ToSet(s)
  <2>1. PICK i \in DOMAIN first : a = first[i]
    BY <1>13 DEF ToSet
  <2>2. s[i] = first[i]
    <3>1. ~ (s[i] \in ToSet(second))
      BY <1>2, <1>13, <2>1
    <3> QED BY <1>2, <3>1
  <2> QED BY <1>3, <2>1, <2>2 DEF ToSet
<1>14. ASSUME NEW a, a \in ToSet(second), a[1] \in NamesIn(first)
       PROVE  a \in ToSet(s)
  <2>1. PICK i \in DOMAIN first : first[i][1] = a[1]
    BY <1>14 DEF NamesIn
  <2>2. s[i] \in ToSet(second) /\ s[i][1] = a[1]
    BY <1>2, <1>14, <2>1
  <2>3. s[i] = a
    BY <1>14, <2>2 DEF NamesApart, ToSet
  <2> QED BY <1>3, <2>3 DEF ToSet
<1>15. \A a : a \in ToSet(s \o t) <=>
                \/ a \in ToSet(second)
                \/ a \in ToSet(first) /\ \A b \in ToSet(second) : b[1] # a[1]
  BY <1>8, <1>11, <1>12, <1>13, <1>14
<1>16. \A i \in DOMAIN first : i \in DOMAIN (s \o t) /\ (s \o t)[i][1] = first[i][1]
  <2>1. Len(s \o t) = m + Len(t) /\ Len(t) \in Nat
    <3>1. s \in Seq(S) /\ t \in Seq(S)
      BY <1>4, <1>8
    <3>2. Len(s \o t) = Len(s) + Len(t)
      BY <3>1, Joined
    <3> QED BY <1>4, <3>1, <3>2
  <2>2. DOMAIN (s \o t) = 1..(m + Len(t))
    BY <1>11, <2>1
  <2>3. \A i \in 1..m : i \in 1..(m + Len(t))
    BY <1>3, <2>1
  <2> QED BY <1>2, <1>3, <1>4, <1>11, <2>2, <2>3
<1> QED BY <1>1, <1>11, <1>15, <1>16

\* A word is a text of one ASCII character.
LEMMA WordIsText ==
  ASSUME NEW word \in DOMAIN Spelling
  PROVE  IsText(K(word), 0..127) /\ IsText(K(word), Characters \ {LanguageSeparator})
<1> DEFINE c == W(word)[1]
<1>1. c \in 33..126 /\ W(word) = <<c>>
  <2> DEFINE w == W(word)
             Printable == 33..126
  <2>1. w \in Seq(Printable) /\ Len(w) = 1
    BY SpelledInAscii, Zenon
  <2> HIDE DEF w, Printable
  <2>2. w[1] \in Printable
    BY <2>1
  <2>3. w = [k \in 1..Len(w) |-> w[k]] /\ 1..Len(w) = {1}
    BY <2>1
  <2>4. w = <<w[1]>>
    BY <2>3
  <2> QED BY <2>2, <2>4 DEF w, Printable
<1> HIDE DEF c
<1>2. Utf8(<<c>>) = <<c>>
  <2> DEFINE chars == <<c>>
  <2>1. [i \in DOMAIN chars |-> Utf8Char(chars[i])] = <<Utf8Char(c)>>
    OBVIOUS
  <2>2. Utf8Char(c) = <<c>>
    BY <1>1 DEF Utf8Char
  <2>3. <<c>> \in Seq(Int)
    BY <1>1
  <2>4. FlattenSeq(<<<<c>>>>) = <<c>>
    BY <2>3, FlattenAlone
  <2> QED BY <2>1, <2>2, <2>4 DEF Utf8
<1>3. Len(Utf8(<<c>>)) \in Lengths
  <2>1. 1 \in Lengths
    BY SMT DEF Lengths
  <2> QED BY <1>2, <2>1
<1>4. K(word) = Str(<<c>>) /\ K(word)[2] = <<c>>
  BY <1>1 DEF K, Str
<1>5. c \in 0..127 /\ c \in Characters \ {LanguageSeparator}
  BY <1>1 DEF Characters, LanguageSeparator
<1>6. <<c>> \in Seq(0..127)
  <2> DEFINE R == 0..127
  <2>1. c \in R
    BY <1>5
  <2> HIDE DEF R
  <2>2. <<c>> \in Seq(R)
    BY <2>1
  <2> QED BY <2>2 DEF R
<1>7. <<c>> \in Seq(Characters \ {LanguageSeparator})
  BY <1>5
<1> QED BY <1>3, <1>4, <1>6, <1>7, Zenon DEF IsText

\* A text of ASCII is readable.
LEMMA AsciiReadable ==
  ASSUME NEW word, NEW syntax \in AsciiTags, NEW value, IsText(value, 0..127)
  PROVE  Readable(word, syntax, value)
<1>1. Readable(word, syntax, value) = IsText(value, 0..127)
  BY DEF Readable, AsciiTags
<1> QED BY <1>1

\* The attributes that the codec adds have the first places, a value, and are readable.
LEMMA OwnKnown ==
  /\ DOMAIN OwnOperationAttributes = 1..3
  /\ OwnOperationAttributes \in Seq(ToSet(OwnOperationAttributes))
  /\ NamesApart(OwnOperationAttributes)
  /\ \A i \in 1..3 : /\ OwnOperationAttributes[i][1] = Special(i)
                     /\ OwnOperationAttributes[i][2] # Arr(<<>>)
                     /\ IsReadable("operation-attributes-tag", OwnOperationAttributes[i])
<1> DEFINE own == OwnOperationAttributes
           table == groupAttributeSyntax["operation-attributes-tag"]
<1>1. /\ own = <<own[1], own[2], own[3]>> /\ DOMAIN own = 1..3
      /\ own[1] = <<W("attributes-charset"), K("utf-8")>>
      /\ own[2] = <<W("attributes-natural-language"), K("en")>>
      /\ own[3] = <<W("printer-uri"), K("ipp://queue")>>
  BY DEF OwnOperationAttributes
<1> HIDE DEF own
<1>2. \A i \in 1..3 : own[i][1] = Special(i)
  <2>1. own[1][1] = W("attributes-charset") /\ own[2][1] = W("attributes-natural-language")
        /\ own[3][1] = W("printer-uri")
    BY <1>1
  <2> QED BY <2>1, SpecialsKnown
<1>3. NamesApart(own)
  <2>1. 1..3 \subseteq 1..5
    OBVIOUS
  <2> QED BY <1>1, <1>2, <2>1, SpecialsKnown DEF NamesApart
<1>4. own \in Seq(ToSet(own))
  <2> DEFINE S == ToSet(own)
  <2>1. \A i \in 1..3 : own[i] \in S
    BY <1>1 DEF ToSet
  <2> HIDE DEF S
  <2>2. <<own[1], own[2], own[3]>> \in Seq(S)
    BY <2>1
  <2> QED BY <1>1, <2>2 DEF S
<1>5. /\ "attributes-charset" \in DOMAIN table /\ table["attributes-charset"] = "charset"
      /\ "attributes-natural-language" \in DOMAIN table
      /\ table["attributes-natural-language"] = "naturalLanguage"
      /\ "printer-uri" \in DOMAIN table /\ table["printer-uri"] = "uri"
  BY OperationSyntax
<1>6. ASSUME NEW name \in DOMAIN table, NEW word \in DOMAIN Spelling, table[name] \in AsciiTags
      PROVE  /\ IsReadable("operation-attributes-tag", <<W(name), K(word)>>)
             /\ K(word) # Arr(<<>>)
  <2>1. IsText(K(word), 0..127)
    BY WordIsText
  <2>2. Readable(name, table[name], K(word))
    <3> DEFINE syntax == table[name]
    <3>1. syntax \in AsciiTags
      BY <1>6
    <3> HIDE DEF syntax
    <3>2. Readable(name, syntax, K(word))
      BY <2>1, <3>1, AsciiReadable
    <3> QED BY <3>2 DEF syntax
  <2>3. <<W(name), K(word)>>[2] = K(word)
    OBVIOUS
  <2>4. IsReadable("operation-attributes-tag", <<W(name), K(word)>>)
    BY <2>2, <2>3 DEF IsReadable
  <2>5. K(word)[1] = "string" /\ Arr(<<>>)[1] = "array"
    BY DEF K, Str, Arr
  <2> QED BY <2>4, <2>5
<1>7. "utf-8" \in DOMAIN Spelling /\ "en" \in DOMAIN Spelling /\ "ipp://queue" \in DOMAIN Spelling
  BY AllSpelled
<1>8. ASSUME NEW i \in 1..3
      PROVE  own[i][2] # Arr(<<>>) /\ IsReadable("operation-attributes-tag", own[i])
  <2>1. CASE i = 1
    <3>1. table["attributes-charset"] \in AsciiTags
      BY <1>5 DEF AsciiTags
    <3>2. own[1][2] = K("utf-8")
      BY <1>1
    <3> QED BY <1>1, <1>5, <1>6, <1>7, <2>1, <3>1, <3>2
  <2>2. CASE i = 2
    <3>1. table["attributes-natural-language"] \in AsciiTags
      BY <1>5 DEF AsciiTags
    <3>2. own[2][2] = K("en")
      BY <1>1
    <3> QED BY <1>1, <1>5, <1>6, <1>7, <2>2, <3>1, <3>2
  <2>3. CASE i = 3
    <3>1. table["printer-uri"] \in AsciiTags
      BY <1>5 DEF AsciiTags
    <3>2. own[3][2] = K("ipp://queue")
      BY <1>1
    <3> QED BY <1>1, <1>5, <1>6, <1>7, <2>3, <3>1, <3>2
  <2> QED BY <2>1, <2>2, <2>3
<1> QED BY <1>1, <1>2, <1>3, <1>4, <1>8 DEF own

\* The attributes that are written of each group, and the pieces they are written as.
AskedOf(request) ==
  [group \in DOMAIN request.groups |->
     IF group = "operation-attributes-tag"
     THEN orderedOperationAttributes(Spread(OwnOperationAttributes, request.groups[group]))
     ELSE request.groups[group]]
AttributePieces(group, attributes) ==
  [i \in DOMAIN attributes |-> writeAttribute(group, attributes[i][1], attributes[i][2])]
GroupPiece(request, group) ==
  IF group \in DOMAIN request.groups
  THEN <<ippTags[group]>> \o FlattenSeq(AttributePieces(group, AskedOf(request)[group]))
  ELSE <<>>
GroupPieces(request) == [k \in 1..4 |-> GroupPiece(request, orderedRequestGroups[k])]

\* A group whose attributes have names of their own and are readable.
ReadableGroup(group, attributes) ==
  /\ group \in DOMAIN groupAttributeSyntax /\ IsSequence(attributes) /\ NamesApart(attributes)
  /\ \A i \in DOMAIN attributes : IsReadable(group, attributes[i])

\* A readable attribute is a name and a value.
LEMMA ReadablePair ==
  ASSUME NEW group, NEW attribute, IsReadable(group, attribute)
  PROVE  attribute = <<attribute[1], attribute[2]>>
<1>1. PICK word : attribute = <<W(word), attribute[2]>>
  BY DEF IsReadable
<1>2. attribute[1] = W(word)
  BY <1>1
<1> QED BY <1>1, <1>2

\* The groups of a request, in the order they are written (tables.ts).
LEMMA GroupsOfARequest ==
  /\ orderedRequestGroups \in Seq(DOMAIN groupAttributeSyntax) /\ Len(orderedRequestGroups) = 4
  /\ \A a, b \in 1..4 : a # b => orderedRequestGroups[a] # orderedRequestGroups[b]
  /\ orderedRequestGroups[1] = "operation-attributes-tag"
  /\ ToSet(orderedRequestGroups) = DOMAIN groupAttributeSyntax
  /\ ToSet(orderedRequestGroups) = {orderedRequestGroups[k] : k \in 1..4}
<1> DEFINE D == DOMAIN groupAttributeSyntax
           o == orderedRequestGroups
<1>1. /\ o = <<o[1], o[2], o[3], o[4]>> /\ DOMAIN o = 1..4
      /\ o[1] = "operation-attributes-tag" /\ o[2] = "job-attributes-tag"
      /\ o[3] = "printer-attributes-tag" /\ o[4] = "subscription-attributes-tag"
  BY DEF orderedRequestGroups
<1>2. D = {"operation-attributes-tag", "job-attributes-tag", "printer-attributes-tag",
           "subscription-attributes-tag"}
  BY SyntaxTables
<1> HIDE DEF D, o
<1>3. o[1] \in D /\ o[2] \in D /\ o[3] \in D /\ o[4] \in D
  BY <1>1, <1>2
<1>4. <<o[1], o[2], o[3], o[4]>> \in Seq(D) /\ Len(<<o[1], o[2], o[3], o[4]>>) = 4
  BY <1>3
<1>5. \A a, b \in 1..4 : a # b => o[a] # o[b]
  BY <1>1
<1>6. ToSet(o) = {o[k] : k \in 1..4}
  BY <1>1 DEF ToSet
<1>7. {o[k] : k \in 1..4} = D
  BY <1>1, <1>2
<1>8. o \in Seq(D) /\ Len(o) = 4
  BY <1>1, <1>4
<1> QED BY <1>1, <1>5, <1>6, <1>7, <1>8 DEF o, D

\* What IsReadableRequest says of each group of a request.
LEMMA RequestGroup ==
  ASSUME NEW request, IsReadableRequest(request), NEW group \in DOMAIN request.groups
  PROVE  ReadableGroup(group, request.groups[group])
<1> DEFINE attributes == request.groups[group]
<1>1. /\ group \in ToSet(orderedRequestGroups) /\ IsSequence(attributes)
      /\ \A i \in DOMAIN attributes : IsReadable(group, attributes[i])
      /\ \A i, j \in DOMAIN attributes : i # j => attributes[i][1] # attributes[j][1]
  BY DEF IsReadableRequest
<1> HIDE DEF attributes
<1>2. group \in DOMAIN groupAttributeSyntax
  BY <1>1, GroupsOfARequest
<1>3. ReadableGroup(group, attributes)
  BY <1>1, <1>2 DEF ReadableGroup, NamesApart
<1> QED BY <1>3 DEF attributes

\* A sequence of a set is a sequence.
LEMMA SequenceOfSome ==
  ASSUME NEW S, NEW s \in Seq(S)
  PROVE  IsSequence(s)
<1> DEFINE L == ToSet(s)
<1>1. Len(s) \in Nat /\ s = [a \in 1..Len(s) |-> s[a]]
  OBVIOUS
<1>2. \A a \in 1..Len(s) : s[a] \in L
  BY DEF ToSet
<1> HIDE DEF L
<1>3. s \in Seq(L)
  BY <1>1, <1>2
<1> QED BY <1>3 DEF L, IsSequence

\* The operation attributes that are written: the codec's own, unless the request has
\* them, and the request's, with the charset, the language and the printer first.
LEMMA OperationAsked ==
  ASSUME NEW own, ReadableGroup("operation-attributes-tag", own),
         \A a \in ToSet(own) : \A b \in ToSet(OwnOperationAttributes) :
           a[1] = b[1] => a[2] # Arr(<<>>),
         NEW asked, asked = orderedOperationAttributes(Spread(OwnOperationAttributes, own))
  PROVE  /\ ReadableGroup("operation-attributes-tag", asked)
         /\ \A a : a \in ToSet(asked) <=>
                     \/ a \in ToSet(own)
                     \/ a \in ToSet(OwnOperationAttributes) /\ \A b \in ToSet(own) : b[1] # a[1]
         /\ Len(asked) >= 3
         /\ \A i \in 1..3 : asked[i][1] = Special(i) /\ Full(asked, i)
<1> DEFINE first == OwnOperationAttributes
           S == ToSet(first) \cup ToSet(own)
           spread == Spread(first, own)
<1>1. first \in Seq(ToSet(first)) /\ own \in Seq(ToSet(own))
  BY OwnKnown DEF ReadableGroup, IsSequence
<1>2. first \in Seq(S) /\ own \in Seq(S) /\ NamesApart(first) /\ NamesApart(own)
  <2> DEFINE A == ToSet(first)
             B == ToSet(own)
  <2>1. first \in Seq(A) /\ own \in Seq(B)
    BY <1>1
  <2> HIDE DEF A, B, first
  <2>2. first \in Seq(A \cup B) /\ own \in Seq(A \cup B)
    BY <2>1
  <2> QED BY <2>2, OwnKnown DEF A, B, ReadableGroup, first
<1>3. \A a \in S : IsReadable("operation-attributes-tag", a)
  <2>1. \A a \in ToSet(first) : IsReadable("operation-attributes-tag", a)
    BY OwnKnown DEF ToSet
  <2>2. \A a \in ToSet(own) : IsReadable("operation-attributes-tag", a)
    BY DEF ReadableGroup, ToSet
  <2> QED BY <2>1, <2>2
<1>4. \A a \in S : a = <<a[1], a[2]>>
  BY <1>3, ReadablePair
<1> HIDE DEF S, spread
<1>5. /\ spread \in Seq(S) /\ NamesApart(spread)
      /\ \A a : a \in ToSet(spread) <=>
                  \/ a \in ToSet(own)
                  \/ a \in ToSet(first) /\ \A b \in ToSet(own) : b[1] # a[1]
      /\ \A i \in DOMAIN first : i \in DOMAIN spread /\ spread[i][1] = first[i][1]
  BY <1>2, <1>4, SpreadOnce DEF spread
<1>6. /\ asked \in Seq(S) /\ NamesApart(asked) /\ ToSet(asked) = ToSet(spread)
  BY <1>5, OrderedOnce DEF spread
<1>7. ReadableGroup("operation-attributes-tag", asked)
  <2>1. IsSequence(asked)
    BY <1>6, SequenceOfSome
  <2>2. \A i \in DOMAIN asked : asked[i] \in S
    BY <1>6
  <2>3. "operation-attributes-tag" \in DOMAIN groupAttributeSyntax
    BY DEF ReadableGroup
  <2> QED BY <1>3, <1>6, <2>1, <2>2, <2>3 DEF ReadableGroup
<1>8. \A a : a \in ToSet(asked) <=>
               \/ a \in ToSet(own)
               \/ a \in ToSet(first) /\ \A b \in ToSet(own) : b[1] # a[1]
  BY <1>5, <1>6
<1>9. Len(asked) >= 3 /\ \A i \in 1..3 : asked[i] = spread[i]
  <2> DEFINE place == [i \in 1..3 |-> i]
  <2>1. \A i \in 1..3 : i \in DOMAIN spread /\ spread[i][1] = Special(i)
    BY <1>5, OwnKnown
  <2>2. place \in [1..3 -> DOMAIN spread] /\ \A i \in 1..3 : place[i] = i
    BY <2>1
  <2> HIDE DEF place
  <2>3. \A i \in 1..3 : spread[place[i]][1] = Special(i)
    BY <2>1, <2>2
  <2>4. /\ Len(orderedOperationAttributes(spread)) >= 3
        /\ \A i \in 1..3 : orderedOperationAttributes(spread)[i] = spread[place[i]]
    BY <1>5, <2>2, <2>3, OrderedFirst
  <2> QED BY <2>2, <2>4 DEF spread
<1>10. ASSUME NEW i \in 1..3 PROVE asked[i][1] = Special(i) /\ Full(asked, i)
  <2>1. i \in DOMAIN spread /\ spread[i][1] = Special(i) /\ first[i][1] = Special(i)
    BY <1>5, OwnKnown
  <2>2. spread[i] \in ToSet(spread)
    BY <2>1 DEF ToSet
  <2>3. first[i] \in ToSet(first) /\ first[i][2] # Arr(<<>>)
    BY OwnKnown DEF ToSet
  <2>4. CASE spread[i] \in ToSet(own)
    <3>1. spread[i][2] # Arr(<<>>)
      BY <2>1, <2>3, <2>4
    <3> QED BY <1>9, <2>1, <3>1 DEF Full
  <2>5. CASE spread[i] \in ToSet(first)
    <3>1. PICK k \in 1..3 : spread[i] = first[k]
      BY <2>5, OwnKnown DEF ToSet
    <3>2. first[k][2] # Arr(<<>>)
      BY OwnKnown
    <3> QED BY <1>9, <2>1, <3>1, <3>2 DEF Full
  <2> QED BY <1>5, <2>2, <2>4, <2>5
<1> QED BY <1>7, <1>8, <1>9, <1>10

\* A readable group is written attribute by attribute.
LEMMA GroupWritten ==
  ASSUME NEW group, NEW attributes, ReadableGroup(group, attributes)
  PROVE  AttributesWritten(AttributePieces(group, attributes), attributes)
<1> DEFINE seqs == AttributePieces(group, attributes)
           n == Len(attributes)
<1>1. /\ group \in DOMAIN groupAttributeSyntax /\ attributes \in Seq(ToSet(attributes))
      /\ NamesApart(attributes) /\ \A i \in DOMAIN attributes : IsReadable(group, attributes[i])
  BY DEF ReadableGroup, IsSequence
<1>2. DOMAIN attributes = 1..n /\ n \in Nat
  <2> DEFINE S == ToSet(attributes)
  <2>1. attributes \in Seq(S)
    BY <1>1
  <2> HIDE DEF S
  <2> QED BY <2>1
<1>3. ASSUME NEW k \in 1..n
      PROVE  IF Full(attributes, k) THEN AttributeBytes(seqs[k], Kept(attributes[k]))
             ELSE seqs[k] = <<>>
  <2> DEFINE attribute == attributes[k]
  <2>1. IsReadable(group, attribute)
    BY <1>1, <1>2
  <2>2. seqs[k] = writeAttribute(group, attribute[1], attribute[2])
    BY <1>2 DEF AttributePieces
  <2> HIDE DEF attribute
  <2>3. IF attribute[2] = Arr(<<>>)
        THEN writeAttribute(group, attribute[1], attribute[2]) = <<>>
        ELSE AttributeBytes(writeAttribute(group, attribute[1], attribute[2]), Kept(attribute))
    BY <1>1, <2>1, AttributeReadBack
  <2> QED BY <2>2, <2>3 DEF Full, attribute
<1>4. seqs = [k \in 1..n |-> seqs[k]]
  BY <1>2 DEF AttributePieces
<1> HIDE DEF seqs
<1>5. \A k \in 1..n : seqs[k] \in Seq(Byte)
  <2>1. <<>> \in Seq(Byte)
    OBVIOUS
  <2> QED BY <1>3, <2>1 DEF AttributeBytes
<1>6. seqs \in Seq(Seq(Byte)) /\ Len(seqs) = n
  BY <1>2, <1>4, <1>5
<1>7. AttributesWritten(seqs, attributes)
  BY <1>1, <1>3, <1>6 DEF AttributesWritten
<1> QED BY <1>7 DEF seqs

\* What is asked in a group of a readable request is readable, the defaults included.
LEMMA AskedReadable ==
  ASSUME NEW request, IsReadableRequest(request), NEW group \in DOMAIN request.groups
  PROVE  ReadableGroup(group, AskedOf(request)[group])
<1>1. ReadableGroup(group, request.groups[group])
  BY RequestGroup
<1>2. CASE group = "operation-attributes-tag"
  <2> DEFINE own == request.groups[group]
             asked == AskedOf(request)[group]
  <2>1. asked = orderedOperationAttributes(Spread(OwnOperationAttributes, own))
    BY <1>2 DEF AskedOf
  <2>2. ReadableGroup("operation-attributes-tag", own)
    BY <1>1, <1>2
  <2>3. \A a \in ToSet(own) : \A b \in ToSet(OwnOperationAttributes) :
           a[1] = b[1] => a[2] # Arr(<<>>)
    BY <1>2 DEF IsReadableRequest
  <2> HIDE DEF own, asked
  <2>4. ReadableGroup("operation-attributes-tag", asked)
    BY <2>1, <2>2, <2>3, OperationAsked
  <2> QED BY <1>2, <2>4 DEF asked
<1>3. CASE group # "operation-attributes-tag"
  BY <1>1, <1>3 DEF AskedOf
<1> QED BY <1>2, <1>3

\* The groups of a request, as what they are written as says of them.
LEMMA PiecesWrittenOf ==
  ASSUME NEW request, IsReadableRequest(request)
  PROVE  GroupsWritten(GroupPieces(request), orderedRequestGroups, AskedOf(request))
<1> DEFINE tags == orderedRequestGroups
           asked == AskedOf(request)
           seqs == GroupPieces(request)
<1>1. /\ tags \in Seq(DOMAIN groupAttributeSyntax) /\ Len(tags) = 4
      /\ \A a, b \in 1..4 : a # b => tags[a] # tags[b]
  BY GroupsOfARequest
<1>t. \A k \in 1..4 : tags[k] \in DOMAIN groupAttributeSyntax
  <2> DEFINE D == DOMAIN groupAttributeSyntax
             o == orderedRequestGroups
  <2>1. o \in Seq(D) /\ Len(o) = 4
    BY <1>1
  <2> HIDE DEF D, o
  <2>2. \A k \in 1..Len(o) : o[k] \in D
    BY <2>1, ElementOfSeq
  <2> QED BY <2>1, <2>2 DEF D, o
<1>2. DOMAIN asked = DOMAIN request.groups
  BY DEF AskedOf
<1>3. ASSUME NEW k \in 1..4
      PROVE  IF tags[k] \in DOMAIN asked THEN GroupBytes(seqs[k], tags[k], asked[tags[k]])
             ELSE seqs[k] = <<>>
  <2> DEFINE tag == tags[k]
  <2>1. seqs[k] = GroupPiece(request, tag)
    BY DEF GroupPieces
  <2>2. tag \in DOMAIN groupAttributeSyntax
    BY <1>t
  <2> HIDE DEF tag, seqs
  <2>3. CASE tag \in DOMAIN request.groups
    <3> DEFINE attributes == AskedOf(request)[tag]
    <3>1. ReadableGroup(tag, attributes)
      BY <2>3, AskedReadable
    <3>2. seqs[k] = <<ippTags[tag]>> \o FlattenSeq(AttributePieces(tag, attributes))
      BY <2>1, <2>3 DEF GroupPiece
    <3> HIDE DEF attributes
    <3>3. AttributesWritten(AttributePieces(tag, attributes), attributes)
      BY <3>1, GroupWritten
    <3>4. GroupBytes(<<ippTags[tag]>> \o FlattenSeq(AttributePieces(tag, attributes)), tag, attributes)
      BY <2>2, <3>3, GroupRead
    <3> QED BY <1>2, <2>3, <3>2, <3>4 DEF tag, attributes
  <2>4. CASE tag \notin DOMAIN request.groups
    <3>1. seqs[k] = <<>>
      BY <2>1, <2>4 DEF GroupPiece
    <3> QED BY <1>2, <2>4, <3>1 DEF tag
  <2> QED BY <2>3, <2>4
<1>4. seqs = [k \in 1..4 |-> seqs[k]]
  BY DEF GroupPieces
<1> HIDE DEF seqs, asked, tags
<1>5. \A k \in 1..4 : seqs[k] \in Seq(Byte)
  <2>1. <<>> \in Seq(Byte)
    OBVIOUS
  <2> QED BY <1>3, <2>1 DEF GroupBytes
<1>6. seqs \in Seq(Seq(Byte)) /\ Len(seqs) = 4
  BY <1>4, <1>5
<1>7. GroupsWritten(seqs, tags, asked)
  BY <1>1, <1>3, <1>6 DEF GroupsWritten
<1> QED BY <1>7 DEF seqs, asked, tags

\* What a request is written as, from end to end.
Header(request, id) ==
  UInt16(ippVersions["2.0"]) \o UInt16(ippOperations[request.operation]) \o Int32(id)

\* A request is its header, its groups, the end of the attributes and its data.
LEMMA RequestParts ==
  ASSUME NEW request, IsReadableRequest(request), NEW id
  PROVE  serializeIppRequest(request, id) =
           Header(request, id) \o FlattenSeq(GroupPieces(request))
           \o <<ippTags["end-of-attributes-tag"]>> \o request.data
<1> DEFINE op == "operation-attributes-tag"
           own == IF op \in DOMAIN request.groups THEN request.groups[op] ELSE <<>>
           message == [group \in {op} \cup DOMAIN request.groups |->
                         IF group = op THEN Spread(OwnOperationAttributes, own)
                         ELSE request.groups[group]]
<1>1. op \in DOMAIN request.groups /\ request.operation \in DOMAIN ippOperations
  BY DEF IsReadableRequest
<1>2. own = request.groups[op] /\ DOMAIN message = DOMAIN request.groups
  BY <1>1
<1>m. \A group \in DOMAIN request.groups :
        message[group] = IF group = op THEN Spread(OwnOperationAttributes, request.groups[op])
                         ELSE request.groups[group]
  BY <1>1
<1> HIDE DEF message
<1>3. ASSUME NEW group PROVE writeGroup(message, group) = GroupPiece(request, group)
  <2> DEFINE attributes == IF group = op THEN orderedOperationAttributes(message[group])
                           ELSE message[group]
  <2>1. writeGroup(message, group) =
          IF group \notin DOMAIN message THEN <<>>
          ELSE <<ippTags[group]>> \o FlattenSeq(AttributePieces(group, attributes))
    BY DEF writeGroup, AttributePieces
  <2>2. group \in DOMAIN request.groups => attributes = AskedOf(request)[group]
    BY <1>m DEF AskedOf
  <2> HIDE DEF attributes
  <2> QED BY <1>2, <2>1, <2>2 DEF GroupPiece
<1>4. DOMAIN orderedRequestGroups = 1..4
  BY DEF orderedRequestGroups
<1>5. [i \in DOMAIN orderedRequestGroups |-> writeGroup(message, orderedRequestGroups[i])] =
        GroupPieces(request)
  BY <1>3, <1>4 DEF GroupPieces
<1>6. serializeIppRequest(request, id) =
        UInt16(ippVersions["2.0"])
        \o (IF request.operation \in DOMAIN ippOperations
            THEN UInt16(ippOperations[request.operation]) ELSE Refused)
        \o Int32(id)
        \o FlattenSeq([i \in DOMAIN orderedRequestGroups |->
                         writeGroup(message, orderedRequestGroups[i])])
        \o <<ippTags["end-of-attributes-tag"]>> \o request.data
  BY DEF serializeIppRequest, message
<1> QED BY <1>1, <1>5, <1>6 DEF Header

-----------------------------------------------------------------------------
(* A message from end to end *)

\* The code of an operation stands for no other.
LEMMA OperationCodes ==
  ASSUME NEW operation \in DOMAIN ippOperations
  PROVE  /\ ippOperations[operation] \in Lengths
         /\ NamesOf(ippOperations, ippOperations[operation]) = {operation}
<1> DEFINE codes == ippOperations
<1>1. /\ DOMAIN codes = {"Print-Job", "Get-Jobs", "Create-Printer-Subscriptions",
                         "Cancel-Subscription", "Get-Notifications"}
      /\ codes["Print-Job"] = 2 /\ codes["Get-Jobs"] = 10
      /\ codes["Create-Printer-Subscriptions"] = 22 /\ codes["Cancel-Subscription"] = 27
      /\ codes["Get-Notifications"] = 28
  BY DEF ippOperations, Table
<1> HIDE DEF codes
<1>2. \A one, other \in DOMAIN codes : codes[one] = codes[other] => one = other
  BY <1>1
<1>3. NamesOf(codes, codes[operation]) = {operation}
  BY <1>2 DEF NamesOf, codes
<1>4. codes[operation] \in {2, 10, 22, 27, 28}
  BY <1>1 DEF codes
<1>5. {2, 10, 22, 27, 28} \subseteq Lengths
  BY DEF Lengths
<1> QED BY <1>3, <1>4, <1>5 DEF codes

\* A length is written in two bytes.
LEMMA TwoBytes ==
  ASSUME NEW n \in Lengths
  PROVE  UInt16(n) \in Seq(Byte) /\ Len(UInt16(n)) = 2
<1>1. n \in Nat /\ n < 65536
  BY OfLengths
<1>2. n \div 256 \in Int /\ 0 <= n \div 256 /\ n \div 256 < 256
      /\ n % 256 \in Int /\ 0 <= n % 256 /\ n % 256 < 256
  BY <1>1
<1>3. n \div 256 \in Byte /\ n % 256 \in Byte
  BY <1>2, AByte
<1> QED BY <1>3 DEF UInt16

\* A sequence is written at its own beginning.
LEMMA ItselfWritten ==
  ASSUME NEW S, NEW bytes \in Seq(S)
  PROVE  Written(bytes, 1, bytes)
<1>1. \A k \in DOMAIN bytes : 1 + k - 1 = k
  OBVIOUS
<1> QED BY <1>1 DEF Written

\* An id is written in four bytes.
LEMMA FourOfAnId ==
  ASSUME NEW id \in Integers32
  PROVE  Int32(id) \in Seq(Byte) /\ Len(Int32(id)) = 4
<1> DEFINE buffer == Int32(id)
<1>1. PICK a, b, c, d \in Byte : Int32(id) = <<a, b, c, d>>
  BY AnyFourBytes
<1> QED BY <1>1

\* A request reads back as its operation, its id, its data and its groups.
LEMMA MessageRead ==
  ASSUME NEW request, IsReadableRequest(request), NEW id \in Integers32,
         NEW bytes, bytes = serializeIppRequest(request, id)
  PROVE  \E list :
           /\ list \in Seq(ToSet(list))
           /\ GotGroups(orderedRequestGroups, AskedOf(request), 4, list)
           /\ parseIppMessage(bytes).ok /\ parseIppMessage(bytes).id = id
           /\ parseIppMessage(bytes).operation = {request.operation}
           /\ parseIppMessage(bytes).data = request.data
           /\ parseIppMessage(bytes).groups = list
<1> DEFINE version == UInt16(ippVersions["2.0"])
           code == ippOperations[request.operation]
           operation == UInt16(code)
           number == Int32(id)
           groups == FlattenSeq(GroupPieces(request))
           end == <<ippTags["end-of-attributes-tag"]>>
           data == request.data
           n == Len(groups)
           tags == orderedRequestGroups
           asked == AskedOf(request)
           collection == readCollection(bytes)
<1>1. code \in Lengths /\ NamesOf(ippOperations, code) = {request.operation}
  BY OperationCodes DEF IsReadableRequest
<1>2. ippVersions["2.0"] \in Lengths
  <2>1. ippVersions["2.0"] = 512
    BY DEF ippVersions, Table
  <2>2. 512 \in Lengths
    BY DEF Lengths
  <2> QED BY <2>1, <2>2
<1>3. /\ version \in Seq(Byte) /\ Len(version) = 2
      /\ operation \in Seq(Byte) /\ Len(operation) = 2
      /\ number \in Seq(Byte) /\ Len(number) = 4
  BY <1>1, <1>2, TwoBytes, FourOfAnId
<1>4. GroupsWritten(GroupPieces(request), tags, asked)
  BY PiecesWrittenOf
<1>5. groups \in Seq(Byte) /\ n \in Nat
  <2>1. GroupPieces(request) \in Seq(Seq(Byte))
    BY <1>4 DEF GroupsWritten
  <2>2. groups \in Seq(Byte)
    BY <2>1, PiecesPlaced
  <2> QED BY <2>2
<1>6. end = <<3>> /\ end \in Seq(Byte) /\ Len(end) = 1 /\ end[1] = 3
  BY EndTag DEF Byte
<1>7. data \in Seq(Byte)
  BY DEF IsReadableRequest, Byte
<1>8. bytes = version \o operation \o number \o groups \o end \o data
  BY RequestParts DEF Header
<1> HIDE DEF version, operation, code, number, groups, end, data, n
<1> DEFINE a == version \o operation
           b == a \o number
           c == b \o groups
           d == c \o end
<1>9. /\ a \in Seq(Byte) /\ Len(a) = 4
      /\ b \in Seq(Byte) /\ Len(b) = 8
      /\ c \in Seq(Byte) /\ Len(c) = 8 + n
      /\ d \in Seq(Byte) /\ Len(d) = 9 + n
      /\ bytes \in Seq(Byte) /\ Len(bytes) = 9 + n + Len(data) /\ Len(data) \in Nat
      /\ bytes = d \o data
  <2>1. a \in Seq(Byte) /\ Len(a) = 4
    <3>1. a \in Seq(Byte) /\ Len(a) = Len(version) + Len(operation)
      BY <1>3, Joined
    <3> QED BY <1>3, <3>1
  <2> HIDE DEF a
  <2>2. b \in Seq(Byte) /\ Len(b) = 8
    <3>1. b \in Seq(Byte) /\ Len(b) = Len(a) + Len(number)
      BY <1>3, <2>1, Joined
    <3> QED BY <1>3, <2>1, <3>1
  <2> HIDE DEF b
  <2>3. c \in Seq(Byte) /\ Len(c) = 8 + n
    BY <1>5, <2>2, Joined DEF n
  <2> HIDE DEF c
  <2>4. d \in Seq(Byte) /\ Len(d) = 9 + n
    BY <1>5, <1>6, <2>3, Joined
  <2>5. bytes = d \o data
    BY <1>8 DEF a, b, c
  <2> HIDE DEF d
  <2>6. bytes \in Seq(Byte) /\ Len(bytes) = Len(d) + Len(data) /\ Len(data) \in Nat
    BY <1>7, <2>4, <2>5, Joined
  <2>7. Len(bytes) = 9 + n + Len(data)
    BY <2>4, <2>6
  <2> QED BY <2>1, <2>2, <2>3, <2>4, <2>5, <2>6, <2>7
<1>10. Written(bytes, 1, d \o data)
  <2>1. Written(bytes, 1, bytes)
    BY <1>9, ItselfWritten
  <2> QED BY <1>9, <2>1
<1> HIDE DEF d
<1>11. Written(bytes, 1, d) /\ Written(bytes, 10 + n, data)
  <2>1. Written(bytes, 1, d) /\ Written(bytes, 1 + Len(d), data)
    BY <1>7, <1>9, <1>10, WrittenParts
  <2>2. 1 + Len(d) = 10 + n
    BY <1>5, <1>9
  <2> QED BY <2>1, <2>2
<1> HIDE DEF c
<1>12. Written(bytes, 1, c) /\ Written(bytes, 9 + n, end)
  <2>1. Written(bytes, 1, c) /\ Written(bytes, 1 + Len(c), end)
    BY <1>6, <1>9, <1>11, WrittenParts DEF d
  <2>2. 1 + Len(c) = 9 + n
    BY <1>5, <1>9
  <2> QED BY <2>1, <2>2
<1> HIDE DEF b
<1>13. Written(bytes, 1, b) /\ Written(bytes, 9, groups)
  <2>1. Written(bytes, 1, b) /\ Written(bytes, 1 + Len(b), groups)
    BY <1>5, <1>9, <1>12, WrittenParts DEF c
  <2> QED BY <1>9, <2>1
<1> HIDE DEF a
<1>14. Written(bytes, 1, a) /\ Written(bytes, 5, number)
  <2>1. Written(bytes, 1, a) /\ Written(bytes, 1 + Len(a), number)
    BY <1>3, <1>9, <1>13, WrittenParts DEF b
  <2> QED BY <1>9, <2>1
<1>15. Written(bytes, 3, operation)
  <2>1. Written(bytes, 1 + Len(version), operation)
    BY <1>3, <1>14, WrittenParts DEF a
  <2> QED BY <1>3, <2>1
<1>16. UInt16At(bytes, 3) = code
  BY <1>1, <1>15, LengthAt DEF operation
<1>17. Int32At(bytes, 5) = id
  BY <1>14, IntegersReadBack DEF number
<1>18. bytes[9 + n] = 3
  <2>1. 1 \in DOMAIN end /\ 9 + n + 1 - 1 = 9 + n
    BY <1>5, <1>6
  <2> QED BY <1>6, <1>12, <2>1 DEF Written
<1>19. PICK list : /\ list \in Seq(ToSet(list)) /\ GotGroups(tags, asked, Len(tags), list)
                   /\ readGroups(bytes, collection, 9) = Done(list, 9 + n)
  <2> DEFINE seqs == GroupPieces(request)
             at == 9
             anything == collection
  <2>1. /\ GroupsWritten(seqs, tags, asked) /\ bytes \in Seq(Byte) /\ at \in Nat \ {0}
        /\ Written(bytes, at, FlattenSeq(seqs)) /\ at + Len(FlattenSeq(seqs)) <= Len(bytes)
        /\ bytes[at + Len(FlattenSeq(seqs))] = ippTags["end-of-attributes-tag"]
    BY <1>4, <1>5, <1>9, <1>13, <1>18, EndTag DEF groups, n
  <2> HIDE DEF seqs, at, tags, asked, anything
  <2>2. GroupsReadBack(bytes, anything, at, Len(FlattenSeq(seqs)), tags, asked)
    BY <2>1, GroupsRead, Zenon
  <2>3. GroupsReadBack(bytes, collection, 9, n, tags, asked)
    BY <2>2 DEF seqs, at, anything, n, groups
  <2> QED BY <2>3 DEF GroupsReadBack
<1>20. GotGroups(tags, asked, 4, list)
  BY <1>19, GroupsOfARequest
<1>21. SubSeq(bytes, 9 + n + 1, Len(bytes)) = data
  <2> DEFINE at == 10 + n
  <2>1. at \in Nat /\ Len(bytes) = at + Len(data) - 1 /\ 9 + n + 1 = at
    BY <1>5, <1>9
  <2>2. Written(bytes, at, data)
    BY <1>11
  <2> HIDE DEF at
  <2>3. SubSeq(bytes, at, Len(bytes)) = data
    BY <1>7, <2>1, <2>2, WrittenToEnd, Zenon
  <2> QED BY <2>1, <2>3, Zenon
<1>22. Fits(bytes, 1, 8)
  BY <1>5, <1>9 DEF Fits
<1> DEFINE read == Done(list, 9 + n)
<1>23. read.ok /\ read.value = list /\ read.next = 9 + n
  BY DEF Done
<1>24. parseIppMessage(bytes) =
         [ok |-> TRUE, version |-> NamesOf(ippVersions, UInt16At(bytes, 1)),
          operation |-> NamesOf(ippOperations, UInt16At(bytes, 3)),
          statusCode |-> NamesOf(ippStatusCodes, UInt16At(bytes, 3)),
          id |-> Int32At(bytes, 5), groups |-> read.value,
          data |-> SubSeq(bytes, read.next + 1, Len(bytes))]
  BY <1>19, <1>22, <1>23 DEF parseIppMessage, readMessage
<1> HIDE DEF read
<1>25. /\ parseIppMessage(bytes).ok /\ parseIppMessage(bytes).id = id
       /\ parseIppMessage(bytes).operation = {request.operation}
       /\ parseIppMessage(bytes).data = data /\ parseIppMessage(bytes).groups = list
  BY <1>1, <1>16, <1>17, <1>21, <1>23, <1>24
<1> QED BY <1>19, <1>20, <1>25 DEF data

\* The numbers up to n are n.
LEMMA UpToCounted ==
  ASSUME NEW n \in Nat
  PROVE  IsFiniteSet(1..n) /\ Cardinality(1..n) = n
<1> DEFINE one == 1
<1>1. one \in Int /\ n \in Int /\ one = 1
  OBVIOUS
<1> HIDE DEF one
<1>2. IsFiniteSet(one..n) /\ Cardinality(one..n) = IF one > n THEN 0 ELSE n - one + 1
  BY <1>1, FS_Interval
<1> QED BY <1>1, <1>2

\* As many things as there are of them that are not the same.
LEMMA AsManyAs ==
  ASSUME NEW n \in Nat, NEW f, DOMAIN f = 1..n, f = [a \in 1..n |-> f[a]],
         \A a, b \in 1..n : a # b => f[a] # f[b]
  PROVE  Cardinality({f[a] : a \in 1..n}) = n
<1> DEFINE S == 1..n
           T == {f[a] : a \in S}
<1>1. f \in [S -> T]
  <2>1. \A a \in S : f[a] \in T
    OBVIOUS
  <2> HIDE DEF T
  <2> QED BY <2>1
<1>2. \A a, b \in S : f[a] = f[b] => a = b
  OBVIOUS
<1>3. \A t \in T : \E a \in S : f[a] = t
  OBVIOUS
<1>4. ExistsBijection(S, T)
  <2> HIDE DEF S, T
  <2>1. f \in Bijection(S, T)
    BY <1>1, <1>2, <1>3 DEF Bijection, Injection, Surjection, IsInjective
  <2> QED BY <2>1 DEF ExistsBijection
<1>5. IsFiniteSet(S) /\ Cardinality(S) = n
  BY UpToCounted
<1> HIDE DEF S, T
<1>6. Cardinality(T) = Cardinality(S)
  BY <1>4, <1>5, FS_Bijection, SMTT(40)
<1> QED BY <1>5, <1>6 DEF S, T

\* A list of things with names of their own has each once.
LEMMA AsManyNamed ==
  ASSUME NEW M, NEW list \in Seq(M), \A a, b \in 1..Len(list) : a # b => list[a].name # list[b].name
  PROVE  Cardinality(ToSet(list)) = Len(list)
<1> DEFINE n == Len(list)
<1>1. n \in Nat /\ DOMAIN list = 1..n /\ list = [a \in 1..n |-> list[a]]
  OBVIOUS
<1>2. \A a, b \in 1..n : a # b => list[a] # list[b]
  OBVIOUS
<1>3. ToSet(list) = {list[a] : a \in 1..n}
  BY <1>1 DEF ToSet
<1> HIDE DEF n
<1>4. Cardinality({list[a] : a \in 1..n}) = n
  BY <1>1, <1>2, AsManyAs
<1> QED BY <1>3, <1>4 DEF n

\* Groups with tags of their own are as many as their tags.
LEMMA AsManyTagged ==
  ASSUME NEW M, NEW list \in Seq(M), \A a, b \in 1..Len(list) : a # b => list[a].tag # list[b].tag
  PROVE  Cardinality(DOMAIN list) = Cardinality({list[a].tag : a \in DOMAIN list})
<1> DEFINE n == Len(list)
           f == [a \in 1..n |-> list[a].tag]
<1>1. n \in Nat /\ DOMAIN list = 1..n
  OBVIOUS
<1>2. /\ DOMAIN f = 1..n /\ f = [a \in 1..n |-> f[a]] /\ \A a, b \in 1..n : a # b => f[a] # f[b]
      /\ {f[a] : a \in 1..n} = {list[a].tag : a \in DOMAIN list}
  BY <1>1
<1> HIDE DEF n, f
<1>3. Cardinality({f[a] : a \in 1..n}) = n
  BY <1>1, <1>2, AsManyAs
<1>5. Cardinality(1..n) = n
  BY <1>1, UpToCounted
<1> QED BY <1>1, <1>2, <1>3, <1>5

\* The attributes of a group, by what is asked of it.
LEMMA AskedKept ==
  ASSUME NEW attributes, IsSequence(attributes), NEW list, Got(attributes, Len(attributes), list)
  PROVE  ToSet(list) = {Kept(a) : a \in {a \in ToSet(attributes) : a[2] # Arr(<<>>)}}
<1>1. DOMAIN attributes = 1..Len(attributes)
  BY DEF IsSequence
<1>2. ToSet(list) = {Kept(attributes[k]) : k \in {k \in 1..Len(attributes) : Full(attributes, k)}}
  BY DEF Got
<1>3. \A a : a \in ToSet(attributes) <=> \E k \in 1..Len(attributes) : a = attributes[k]
  BY <1>1 DEF ToSet
<1> QED BY <1>2, <1>3 DEF Full

\* The groups that are read of a request are those it has, the operation attributes first.
LEMMA GroupsOfItsOwn ==
  ASSUME NEW request, IsReadableRequest(request), NEW list, list \in Seq(ToSet(list)),
         GotGroups(orderedRequestGroups, AskedOf(request), 4, list)
  PROVE  /\ {list[g].tag : g \in DOMAIN list} = DOMAIN request.groups
         /\ Cardinality(DOMAIN list) = Cardinality(DOMAIN request.groups)
         /\ DOMAIN list = 1..Len(list) /\ Len(list) > 0
         /\ \A g \in DOMAIN list : list[g].tag = "operation-attributes-tag" <=> g = 1
<1> DEFINE tags == orderedRequestGroups
           asked == AskedOf(request)
<1>0. Len(list) \in Nat /\ DOMAIN list = 1..Len(list)
  OBVIOUS
<1>1. {list[g].tag : g \in 1..Len(list)} = {tags[k] : k \in {k \in 1..4 : tags[k] \in DOMAIN asked}}
  BY DEF GotGroups
<1>2. DOMAIN asked = DOMAIN request.groups
  BY DEF AskedOf
<1>3. \A group \in DOMAIN request.groups : \E k \in 1..4 : tags[k] = group
  <2>1. \A group \in DOMAIN request.groups : group \in ToSet(tags)
    BY DEF IsReadableRequest
  <2> HIDE DEF tags
  <2>2. ToSet(tags) = {tags[k] : k \in 1..4}
    BY GroupsOfARequest DEF tags
  <2> QED BY <2>1, <2>2
<1>4. {list[g].tag : g \in DOMAIN list} = DOMAIN request.groups
  <2> HIDE DEF tags, asked
  <2>1. \A g \in DOMAIN list : list[g].tag \in DOMAIN asked
    BY <1>0, <1>1
  <2>2. ASSUME NEW group \in DOMAIN asked PROVE \E g \in DOMAIN list : group = list[g].tag
    <3>1. group \in {tags[k] : k \in {k \in 1..4 : tags[k] \in DOMAIN asked}}
      BY <1>2, <1>3
    <3> QED BY <1>0, <1>1, <3>1
  <2> QED BY <1>2, <2>1, <2>2
<1>5. \A a, b \in 1..Len(list) : a # b => list[a].tag # list[b].tag
  BY DEF GotGroups
<1>6. Cardinality(DOMAIN list) = Cardinality({list[g].tag : g \in DOMAIN list})
  <2> DEFINE M == ToSet(list)
  <2>1. list \in Seq(M)
    OBVIOUS
  <2> HIDE DEF M
  <2> QED BY <1>5, <2>1, AsManyTagged
<1>7. tags[1] = "operation-attributes-tag" /\ tags[1] \in DOMAIN asked
  BY <1>2, GroupsOfARequest DEF IsReadableRequest
<1>8. Len(list) > 0 /\ list[1].tag = "operation-attributes-tag"
  BY <1>7 DEF GotGroups
<1>9. 1 \in 1..Len(list)
  BY <1>0, <1>8
<1>10. \A g \in 1..Len(list) : list[g].tag = "operation-attributes-tag" <=> g = 1
  BY <1>5, <1>8, <1>9
<1> QED BY <1>0, <1>4, <1>6, <1>8, <1>10

\* The codec's own attributes are all read.
LEMMA OwnKept ==
  ASSUME NEW own, NEW asked,
         \A a : a \in ToSet(asked) <=>
                  \/ a \in ToSet(own)
                  \/ a \in ToSet(OwnOperationAttributes) /\ \A b \in ToSet(own) : b[1] # a[1]
  PROVE  {Kept(a) : a \in {a \in ToSet(asked) : a[2] # Arr(<<>>)}} =
           {Kept(a) : a \in {a \in ToSet(own) : a[2] # Arr(<<>>)}}
           \cup {Kept(a) : a \in {a \in ToSet(OwnOperationAttributes) :
                                    \A b \in ToSet(own) : b[1] # a[1]}}
<1>1. \A a \in ToSet(OwnOperationAttributes) : a[2] # Arr(<<>>)
  <2>1. \A a \in ToSet(OwnOperationAttributes) :
          \E i \in DOMAIN OwnOperationAttributes : a = OwnOperationAttributes[i]
    BY DEF ToSet
  <2> QED BY <2>1, OwnKnown
<1> QED BY <1>1

\* The three that come first.
LEMMA FirstNames ==
  ASSUME NEW asked, Len(asked) >= 3, Len(asked) \in Nat,
         \A i \in 1..3 : asked[i][1] = Special(i) /\ Full(asked, i),
         NEW list, Got(asked, Len(asked), list)
  PROVE  \A i \in 1..3 : list[i].name = OwnOperationAttributes[i][1]
<1>1. ASSUME NEW i \in 1..3 PROVE list[i].name = OwnOperationAttributes[i][1]
  <2>1. i \in 1..Len(asked) /\ \A l \in 1..i : l \in 1..3
    OBVIOUS
  <2>2. list[i] = Kept(asked[i])
    BY <2>1 DEF Got
  <2> QED BY <2>2, OwnKnown DEF Kept
<1> QED BY <1>1

\* Every request of readable attributes reads back, with its id: as its operation, its data
\* and the groups and attributes it was made of, each once, with the charset, the
\* language and the printer before all others (serializeIppRequest, parseIppMessage).
THEOREM RequestsReadBack ==
  ASSUME NEW request, IsReadableRequest(request), NEW id \in Integers32
  PROVE  /\ ReadAs(request, parseIppMessage(serializeIppRequest(request, id)))
         /\ parseIppMessage(serializeIppRequest(request, id)).id = id
<1> DEFINE bytes == serializeIppRequest(request, id)
           op == "operation-attributes-tag"
           own == request.groups[op]
           asked == AskedOf(request)
<1>1. PICK list :
        /\ list \in Seq(ToSet(list))
        /\ GotGroups(orderedRequestGroups, AskedOf(request), 4, list)
        /\ parseIppMessage(bytes).ok /\ parseIppMessage(bytes).id = id
        /\ parseIppMessage(bytes).operation = {request.operation}
        /\ parseIppMessage(bytes).data = request.data
        /\ parseIppMessage(bytes).groups = list
  BY MessageRead
<1> DEFINE message == parseIppMessage(bytes)
<1>2. /\ {list[g].tag : g \in DOMAIN list} = DOMAIN request.groups
      /\ Cardinality(DOMAIN list) = Cardinality(DOMAIN request.groups)
      /\ DOMAIN list = 1..Len(list) /\ Len(list) > 0
      /\ \A g \in DOMAIN list : list[g].tag = op <=> g = 1
  BY <1>1, GroupsOfItsOwn
<1>3. ASSUME NEW g \in DOMAIN list
      PROVE  /\ list[g].tag \in DOMAIN request.groups
             /\ IsSequence(list[g].attributes)
             /\ Got(asked[list[g].tag], Len(asked[list[g].tag]), list[g].attributes)
             /\ ToSet(list[g].attributes) =
                  {Kept(a) : a \in {a \in ToSet(asked[list[g].tag]) : a[2] # Arr(<<>>)}}
             /\ Cardinality(ToSet(list[g].attributes)) = Len(list[g].attributes)
  <2> DEFINE tag == list[g].tag
             read == list[g].attributes
             these == asked[tag]
  <2>1. tag \in DOMAIN request.groups
    BY <1>2
  <2>2. IsSequence(read) /\ Got(these, Len(these), read)
    BY <1>1, <1>2 DEF GotGroups
  <2>3. ReadableGroup(tag, these)
    BY <2>1, AskedReadable
  <2> HIDE DEF tag, read, these
  <2>4. IsSequence(these)
    BY <2>3 DEF ReadableGroup
  <2>5. ToSet(read) = {Kept(a) : a \in {a \in ToSet(these) : a[2] # Arr(<<>>)}}
    BY <2>2, <2>4, AskedKept
  <2>6. \A a, b \in 1..Len(read) : a # b => read[a].name # read[b].name
    BY <2>2 DEF Got
  <2>7. read \in Seq(ToSet(read))
    BY <2>2 DEF IsSequence
  <2>8. Cardinality(ToSet(read)) = Len(read)
    BY <2>6, <2>7, AsManyNamed
  <2> QED BY <2>1, <2>2, <2>5, <2>8 DEF tag, read, these
<1>4. /\ asked[op] = orderedOperationAttributes(Spread(OwnOperationAttributes, own))
      /\ \A group \in DOMAIN request.groups : group # op => asked[group] = request.groups[group]
      /\ op \in DOMAIN request.groups
  BY DEF AskedOf, IsReadableRequest
<1>5. /\ IsSequence(asked[op])
      /\ \A a : a \in ToSet(asked[op]) <=>
                  \/ a \in ToSet(own)
                  \/ a \in ToSet(OwnOperationAttributes) /\ \A b \in ToSet(own) : b[1] # a[1]
      /\ Len(asked[op]) >= 3
      /\ \A i \in 1..3 : asked[op][i][1] = Special(i) /\ Full(asked[op], i)
  <2> DEFINE these == asked[op]
  <2>1. ReadableGroup(op, own)
    BY <1>4, RequestGroup
  <2>2. \A a \in ToSet(own) : \A b \in ToSet(OwnOperationAttributes) :
          a[1] = b[1] => a[2] # Arr(<<>>)
    BY DEF IsReadableRequest
  <2>3. these = orderedOperationAttributes(Spread(OwnOperationAttributes, own))
    BY <1>4
  <2> HIDE DEF these, own
  <2>4. /\ ReadableGroup(op, these)
        /\ \A a : a \in ToSet(these) <=>
                    \/ a \in ToSet(own)
                    \/ a \in ToSet(OwnOperationAttributes) /\ \A b \in ToSet(own) : b[1] # a[1]
        /\ Len(these) >= 3
        /\ \A i \in 1..3 : these[i][1] = Special(i) /\ Full(these, i)
    BY <2>1, <2>2, <2>3, OperationAsked
  <2> QED BY <2>4 DEF these, own, ReadableGroup
<1> HIDE DEF asked
<1> DEFINE Asked(tag) == {Kept(a) : a \in {a \in ToSet(request.groups[tag]) : a[2] # Arr(<<>>)}}
           Own == {Kept(a) : a \in {a \in ToSet(OwnOperationAttributes) :
                      \A b \in ToSet(own) : b[1] # a[1]}}
<1>6. {Kept(a) : a \in {a \in ToSet(asked[op]) : a[2] # Arr(<<>>)}} = Asked(op) \cup Own
  BY <1>5, OwnKept
<1>7. ASSUME NEW g \in DOMAIN list
      PROVE  ToSet(list[g].attributes) = Asked(list[g].tag) \cup (IF g = 1 THEN Own ELSE {})
  <2>1. CASE g = 1
    BY <1>2, <1>3, <1>6, <2>1
  <2>2. CASE g # 1
    <3>1. asked[list[g].tag] = request.groups[list[g].tag]
      BY <1>2, <1>3, <1>4, <2>2
    <3> QED BY <1>3, <2>2, <3>1
  <2> QED BY <2>1, <2>2
<1>8. \A i \in 1..3 : list[1].attributes[i].name = OwnOperationAttributes[i][1]
  <2> DEFINE read == list[1].attributes
             these == asked[op]
  <2>1. 1 \in DOMAIN list
    BY <1>2
  <2>2. Got(these, Len(these), read)
    BY <1>2, <1>3, <2>1
  <2>3. /\ Len(these) >= 3 /\ Len(these) \in Nat
        /\ \A i \in 1..3 : these[i][1] = Special(i) /\ Full(these, i)
    BY <1>5 DEF IsSequence
  <2> HIDE DEF read, these
  <2>4. \A i \in 1..3 : read[i].name = OwnOperationAttributes[i][1]
    BY <2>2, <2>3, FirstNames
  <2> QED BY <2>4 DEF read
<1> HIDE DEF Asked, Own
<1>9. /\ message.ok /\ message.operation = {request.operation} /\ message.data = request.data
      /\ message.groups = list /\ message.id = id
  BY <1>1
<1> HIDE DEF message
<1>10. ReadAs(request, message)
  <2>1. \A g \in DOMAIN message.groups :
          /\ ToSet(message.groups[g].attributes) =
               Asked(message.groups[g].tag) \cup (IF g = 1 THEN Own ELSE {})
          /\ Cardinality(ToSet(message.groups[g].attributes)) = Len(message.groups[g].attributes)
    BY <1>3, <1>7, <1>9
  <2>2. /\ {message.groups[g].tag : g \in DOMAIN message.groups} = DOMAIN request.groups
        /\ Cardinality(DOMAIN message.groups) = Cardinality(DOMAIN request.groups)
        /\ \A i \in 1..3 :
             message.groups[1].attributes[i].name = OwnOperationAttributes[i][1]
    BY <1>2, <1>8, <1>9
  <2> QED BY <1>9, <2>1, <2>2, Zenon DEF ReadAs, Asked, Own
<1> QED BY <1>9, <1>10 DEF message

-----------------------------------------------------------------------------
(* The requests of the agent *)

\* An integer of 32 bits is readable.
LEMMA IntegerReadable ==
  ASSUME NEW word, NEW n \in Integers32
  PROVE  Readable(word, "integer", Num(n))
<1>1. IsInteger(Num(n))
  BY DEF IsInteger, Num
<1>2. Readable(word, "integer", Num(n)) = IsInteger(Num(n))
  BY DEF Readable, AsciiTags
<1> QED BY <1>1, <1>2

\* A boolean is readable.
LEMMA BooleanReadable ==
  ASSUME NEW word
  PROVE  Readable(word, "boolean", Bool(TRUE))
<1>1. Readable(word, "boolean", Bool(TRUE)) = (Bool(TRUE) \in {Bool(TRUE), Bool(FALSE)})
  BY DEF Readable, AsciiTags
<1> QED BY <1>1

\* A word of the tables is readable.
LEMMA KeywordReadable ==
  ASSUME NEW word, NEW syntax \in {"keyword", "uri", "name"}, NEW one \in DOMAIN Spelling
  PROVE  Readable(word, syntax, K(one))
<1>1. CASE syntax \in {"keyword", "uri"}
  <2>1. syntax \in AsciiTags
    BY <1>1 DEF AsciiTags
  <2> QED BY <2>1, AsciiReadable, WordIsText
<1>2. CASE syntax = "name"
  <2>1. Readable(word, "name", K(one)) = IsText(K(one), Characters \ {LanguageSeparator})
    BY DEF Readable, AsciiTags
  <2> QED BY <1>2, <2>1, WordIsText
<1> QED BY <1>1, <1>2

\* An attribute of one value, and one of several.
LEMMA OneReadable ==
  ASSUME NEW group, NEW word \in DOMAIN groupAttributeSyntax[group], NEW value,
         Readable(word, groupAttributeSyntax[group][word], value)
  PROVE  IsReadable(group, <<W(word), value>>)
<1>1. <<W(word), value>>[2] = value
  OBVIOUS
<1> QED BY <1>1 DEF IsReadable

\* An attribute of several readable values is readable.
LEMMA ManyReadable ==
  ASSUME NEW group, NEW word \in DOMAIN groupAttributeSyntax[group], NEW values, IsSequence(values),
         groupAttributeSyntax[group][word] # "resolution",
         \A i \in DOMAIN values : Readable(word, groupAttributeSyntax[group][word], values[i])
  PROVE  IsReadable(group, <<W(word), Arr(values)>>)
<1> DEFINE value == Arr(values)
<1>1. <<W(word), value>>[2] = value /\ value[2] = values /\ value = Arr(value[2])
  BY DEF Arr
<1> HIDE DEF value
<1>2. IsReadable(group, <<W(word), value>>)
  BY <1>1 DEF IsReadable
<1> QED BY <1>2 DEF value

\* A group of readable attributes with words of their own.
LEMMA NamedGroup ==
  ASSUME NEW group \in DOMAIN groupAttributeSyntax, NEW n \in Nat, NEW attributes,
         attributes = [i \in 1..n |-> attributes[i]], NEW words,
         \A i \in 1..n : /\ words[i] \in DOMAIN groupAttributeSyntax[group]
                         /\ attributes[i][1] = W(words[i]) /\ IsReadable(group, attributes[i]),
         \A i, j \in 1..n : i # j => words[i] # words[j]
  PROVE  ReadableGroup(group, attributes)
<1>1. DOMAIN attributes = 1..n
  OBVIOUS
<1>2. IsSequence(attributes)
  <2> DEFINE S == ToSet(attributes)
  <2>1. \A i \in 1..n : attributes[i] \in S
    BY <1>1 DEF ToSet
  <2> HIDE DEF S
  <2>2. attributes \in Seq(S)
    BY <2>1
  <2> QED BY <2>2 DEF S, IsSequence
<1>3. \A i \in 1..n : words[i] \in DOMAIN Spelling
  BY SyntaxKnown
<1>4. ASSUME NEW i \in 1..n, NEW j \in 1..n, i # j PROVE attributes[i][1] # attributes[j][1]
  BY <1>3, <1>4, SpelledApart
<1> QED BY <1>1, <1>2, <1>4 DEF ReadableGroup, NamesApart

\* A request of readable groups is readable.
LEMMA ReadableRequest ==
  ASSUME NEW request, request.operation \in DOMAIN ippOperations, request.data = <<>>,
         "operation-attributes-tag" \in DOMAIN request.groups,
         \A group \in DOMAIN request.groups : ReadableGroup(group, request.groups[group]),
         \A a \in ToSet(request.groups["operation-attributes-tag"]) : a[2] # Arr(<<>>)
  PROVE  IsReadableRequest(request)
<1>1. <<>> \in Seq(0..255)
  OBVIOUS
<1>2. ASSUME NEW group \in DOMAIN request.groups
      PROVE  /\ group \in ToSet(orderedRequestGroups) /\ IsSequence(request.groups[group])
             /\ \A i \in DOMAIN request.groups[group] : IsReadable(group, request.groups[group][i])
             /\ \A i, j \in DOMAIN request.groups[group] :
                  i # j => request.groups[group][i][1] # request.groups[group][j][1]
  BY GroupsOfARequest, Zenon DEF ReadableGroup, NamesApart
<1> QED BY <1>1, <1>2 DEF IsReadableRequest

\* An attribute that is no empty array has a value.
LEMMA HasAValue ==
  ASSUME NEW value, value[1] # "array" \/ value[2] # <<>>
  PROVE  value # Arr(<<>>)
  BY DEF Arr

Printer == <<W("printer-uri"), K("ipp://queue")>>
User == <<W("requesting-user-name"), K("agent")>>

\* Who asks, and which printer (client.ts).
LEMMA IdentityKnown ==
  /\ Identity = <<Printer, User>>
  /\ Printer[1] = W("printer-uri") /\ User[1] = W("requesting-user-name")
  /\ Printer[2] # Arr(<<>>) /\ User[2] # Arr(<<>>)
  /\ IsReadable("operation-attributes-tag", Printer)
  /\ IsReadable("operation-attributes-tag", User)
<1> DEFINE group == "operation-attributes-tag"
           table == groupAttributeSyntax[group]
<1>1. /\ Identity = <<Printer, User>>
      /\ Printer[1] = W("printer-uri") /\ User[1] = W("requesting-user-name")
      /\ Printer[2] = K("ipp://queue") /\ User[2] = K("agent")
  BY DEF Identity, Printer, User
<1>2. Printer[2] # Arr(<<>>) /\ User[2] # Arr(<<>>)
  <2>1. Printer[2][1] = "string" /\ User[2][1] = "string"
    BY <1>1 DEF K, Str
  <2> QED BY <2>1, HasAValue
<1>3. /\ "printer-uri" \in DOMAIN table /\ table["printer-uri"] \in {"keyword", "uri", "name"}
      /\ "requesting-user-name" \in DOMAIN table
      /\ table["requesting-user-name"] \in {"keyword", "uri", "name"}
      /\ "ipp://queue" \in DOMAIN Spelling /\ "agent" \in DOMAIN Spelling
  BY OperationSyntax, AllSpelled
<1> HIDE DEF table
<1>4. /\ Readable("printer-uri", table["printer-uri"], K("ipp://queue"))
      /\ Readable("requesting-user-name", table["requesting-user-name"], K("agent"))
  BY <1>3, KeywordReadable
<1>5. IsReadable(group, Printer) /\ IsReadable(group, User)
  BY <1>3, <1>4, OneReadable DEF table, Printer, User
<1> QED BY <1>1, <1>2, <1>5

\* The words a list of words is made of are keywords.
LEMMA KeywordsReadable ==
  ASSUME NEW group, NEW word \in DOMAIN groupAttributeSyntax[group],
         groupAttributeSyntax[group][word] = "keyword",
         NEW values, IsSequence(values), values # <<>>,
         \A i \in DOMAIN values : \E one \in DOMAIN Spelling : values[i] = K(one)
  PROVE  IsReadable(group, <<W(word), Arr(values)>>)
<1>1. \A i \in DOMAIN values : Readable(word, groupAttributeSyntax[group][word], values[i])
  BY KeywordReadable
<1> QED BY <1>1, ManyReadable

\* One element is a sequence.
LEMMA SequenceOfOne ==
  ASSUME NEW x
  PROVE  IsSequence(<<x>>) /\ <<x>> # <<>>
<1>1. <<x>> \in Seq({x})
  OBVIOUS
<1> QED BY <1>1, SequenceOfSome

Method == <<W("notify-pull-method"), K("ippget")>>
Events == <<W("notify-events"), Arr(<<K("printer-state-changed"), K("job-state-changed")>>)>>
Lease == <<W("notify-lease-duration"), Num(0)>>

\* The attributes of the subscription are readable.
LEMMA SubscriptionKnown ==
  ReadableGroup("subscription-attributes-tag", <<Method, Events, Lease>>)
<1> DEFINE group == "subscription-attributes-tag"
           table == groupAttributeSyntax[group]
           attributes == <<Method, Events, Lease>>
           words == <<"notify-pull-method", "notify-events", "notify-lease-duration">>
           three == 3
<1>1. /\ "notify-pull-method" \in DOMAIN table /\ table["notify-pull-method"] = "keyword"
      /\ "notify-events" \in DOMAIN table /\ table["notify-events"] = "keyword"
      /\ "notify-lease-duration" \in DOMAIN table /\ table["notify-lease-duration"] = "integer"
      /\ group \in DOMAIN groupAttributeSyntax
  BY OtherSyntax, SyntaxTables
<1>2. /\ "ippget" \in DOMAIN Spelling /\ "printer-state-changed" \in DOMAIN Spelling
      /\ "job-state-changed" \in DOMAIN Spelling
  BY AllSpelled
<1>3. IsReadable(group, Method)
  <2>1. Readable("notify-pull-method", "keyword", K("ippget"))
    BY <1>2, KeywordReadable
  <2> QED BY <1>1, <2>1, OneReadable DEF Method
<1>4. IsReadable(group, Events)
  <2> DEFINE values == <<K("printer-state-changed"), K("job-state-changed")>>
  <2>1. values \in Seq({K("printer-state-changed"), K("job-state-changed")}) /\ values # <<>>
    OBVIOUS
  <2>2. IsSequence(values)
    BY <2>1, SequenceOfSome
  <2>3. \A i \in DOMAIN values : \E one \in DOMAIN Spelling : values[i] = K(one)
    BY <1>2
  <2> HIDE DEF values
  <2>4. IsReadable(group, <<W("notify-events"), Arr(values)>>)
    BY <1>1, <2>1, <2>2, <2>3, KeywordsReadable
  <2> QED BY <2>4 DEF Events, values
<1>5. IsReadable(group, Lease)
  <2>1. 0 \in Integers32
    BY LastIsNumber DEF Integers32
  <2>2. Readable("notify-lease-duration", "integer", Num(0))
    BY <2>1, IntegerReadable
  <2> QED BY <1>1, <2>2, OneReadable DEF Lease
<1>6. /\ Method[1] = W("notify-pull-method") /\ Events[1] = W("notify-events")
      /\ Lease[1] = W("notify-lease-duration")
  BY DEF Method, Events, Lease
<1>9. three \in Nat
  OBVIOUS
<1>7. \A i \in 1..three : /\ words[i] \in DOMAIN groupAttributeSyntax[group]
                      /\ attributes[i][1] = W(words[i]) /\ IsReadable(group, attributes[i])
  BY <1>1, <1>3, <1>4, <1>5, <1>6
<1>8. /\ attributes = [i \in 1..three |-> attributes[i]]
      /\ \A i, j \in 1..three : i # j => words[i] # words[j]
  OBVIOUS
<1> HIDE DEF attributes, words, group, three
<1>10. ReadableGroup(group, attributes)
  BY <1>1, <1>7, <1>8, <1>9, NamedGroup
<1> QED BY <1>10 DEF group, attributes

\* Who asks is readable.
LEMMA IdentityReadable ==
  /\ ReadableGroup("operation-attributes-tag", Identity)
  /\ \A a \in ToSet(Identity) : a[2] # Arr(<<>>)
<1> DEFINE group == "operation-attributes-tag"
           attributes == <<Printer, User>>
           words == <<"printer-uri", "requesting-user-name">>
           two == 2
<1>1. /\ "printer-uri" \in DOMAIN groupAttributeSyntax[group]
      /\ "requesting-user-name" \in DOMAIN groupAttributeSyntax[group]
      /\ group \in DOMAIN groupAttributeSyntax /\ two \in Nat
  BY OperationSyntax, SyntaxTables
<1>2. \A i \in 1..two : /\ words[i] \in DOMAIN groupAttributeSyntax[group]
                        /\ attributes[i][1] = W(words[i]) /\ IsReadable(group, attributes[i])
  BY <1>1, IdentityKnown
<1>3. /\ attributes = [i \in 1..two |-> attributes[i]]
      /\ \A i, j \in 1..two : i # j => words[i] # words[j]
  OBVIOUS
<1>4. \A a \in ToSet(attributes) : a[2] # Arr(<<>>)
  BY IdentityKnown DEF ToSet
<1> HIDE DEF attributes, words, group, two
<1>5. ReadableGroup(group, attributes)
  BY <1>1, <1>2, <1>3, NamedGroup, SMTT(40)
<1> QED BY <1>4, <1>5, IdentityKnown DEF group, attributes

\* The request for a subscription is readable.
LEMMA CreateReadable == IsReadableRequest(createPrinterSubscriptionRequest)
<1> DEFINE request == createPrinterSubscriptionRequest
           op == "operation-attributes-tag"
           sub == "subscription-attributes-tag"
<1>1. request = Message("Create-Printer-Subscriptions",
                        {<<op, Identity>>, <<sub, <<Method, Events, Lease>>>>})
  BY DEF createPrinterSubscriptionRequest, Method, Events, Lease
<1>2. /\ request.operation = "Create-Printer-Subscriptions" /\ request.data = <<>>
      /\ request.groups = Table({<<op, Identity>>, <<sub, <<Method, Events, Lease>>>>})
  BY <1>1 DEF Message
<1>3. /\ DOMAIN request.groups = {op, sub} /\ request.groups[op] = Identity
      /\ request.groups[sub] = <<Method, Events, Lease>>
  BY <1>2 DEF Table
<1> HIDE DEF request
<1>4. request.operation \in DOMAIN ippOperations
  BY <1>2 DEF ippOperations, Table
<1>5. \A group \in DOMAIN request.groups : ReadableGroup(group, request.groups[group])
  BY <1>3, IdentityReadable, SubscriptionKnown
<1>6. \A a \in ToSet(request.groups[op]) : a[2] # Arr(<<>>)
  BY <1>3, IdentityReadable
<1>7. IsReadableRequest(request)
  BY <1>2, <1>3, <1>4, <1>5, <1>6, ReadableRequest
<1> QED BY <1>7 DEF request

\* Two elements and two more.
LEMMA JoinedTwo ==
  ASSUME NEW a, NEW b, NEW c, NEW d
  PROVE  <<a, b>> \o <<c, d>> = <<a, b, c, d>>
<1> DEFINE S == {a, b, c, d}
           s == <<a, b>>
           t == <<c, d>>
           all == s \o t
<1>1. /\ s \in Seq(S) /\ Len(s) = 2 /\ s[1] = a /\ s[2] = b
      /\ t \in Seq(S) /\ Len(t) = 2 /\ t[1] = c /\ t[2] = d
  OBVIOUS
<1> HIDE DEF S, s, t
<1>2. /\ all \in Seq(S) /\ Len(all) = Len(s) + Len(t)
      /\ \A i \in 1..Len(s) + Len(t) : all[i] = IF i <= Len(s) THEN s[i] ELSE t[i - Len(s)]
  BY <1>1, ConcatProperties
<1> HIDE DEF all
<1>3. all = [i \in 1..4 |-> all[i]]
  BY <1>1, <1>2
<1>4. all[1] = a /\ all[2] = b /\ all[3] = c /\ all[4] = d
  BY <1>1, <1>2
<1>5. all = <<a, b, c, d>>
  BY <1>3, <1>4
<1> QED BY <1>5 DEF all, s, t

\* Two elements and three more.
LEMMA JoinedThree ==
  ASSUME NEW a, NEW b, NEW c, NEW d, NEW e
  PROVE  <<a, b>> \o <<c, d, e>> = <<a, b, c, d, e>>
<1> DEFINE S == {a, b, c, d, e}
           s == <<a, b>>
           t == <<c, d, e>>
           all == s \o t
<1>1. /\ s \in Seq(S) /\ Len(s) = 2 /\ s[1] = a /\ s[2] = b
      /\ t \in Seq(S) /\ Len(t) = 3 /\ t[1] = c /\ t[2] = d /\ t[3] = e
  OBVIOUS
<1> HIDE DEF S, s, t
<1>2. /\ all \in Seq(S) /\ Len(all) = Len(s) + Len(t)
      /\ \A i \in 1..Len(s) + Len(t) : all[i] = IF i <= Len(s) THEN s[i] ELSE t[i - Len(s)]
  BY <1>1, ConcatProperties
<1> HIDE DEF all
<1>3. all = [i \in 1..5 |-> all[i]]
  BY <1>1, <1>2
<1>4. all[1] = a /\ all[2] = b /\ all[3] = c /\ all[4] = d /\ all[5] = e
  BY <1>1, <1>2
<1>5. all = <<a, b, c, d, e>>
  BY <1>3, <1>4
<1> QED BY <1>5 DEF all, s, t

Which == <<W("which-jobs"), K("all")>>
JobWords == <<"job-id", "job-state", "job-state-reasons", "job-media-sheets-completed",
              "job-impressions-completed">>
Wanted == <<W("requested-attributes"), Arr([i \in 1..5 |-> K(JobWords[i])])>>

\* The attributes of the request for the jobs are readable.
LEMMA JobsAttributes ==
  /\ ReadableGroup("operation-attributes-tag", <<Printer, User, Which, Wanted>>)
  /\ \A a \in ToSet(<<Printer, User, Which, Wanted>>) : a[2] # Arr(<<>>)
<1> DEFINE group == "operation-attributes-tag"
           table == groupAttributeSyntax[group]
           attributes == <<Printer, User, Which, Wanted>>
           words == <<"printer-uri", "requesting-user-name", "which-jobs", "requested-attributes">>
           four == 4
           values == [i \in 1..5 |-> K(JobWords[i])]
<1>1. /\ "printer-uri" \in DOMAIN table /\ "requesting-user-name" \in DOMAIN table
      /\ "which-jobs" \in DOMAIN table /\ table["which-jobs"] = "keyword"
      /\ "requested-attributes" \in DOMAIN table /\ table["requested-attributes"] = "keyword"
      /\ group \in DOMAIN groupAttributeSyntax /\ four \in Nat
  BY OperationSyntax, SyntaxTables
<1>2. "all" \in DOMAIN Spelling /\ \A i \in 1..5 : JobWords[i] \in DOMAIN Spelling
  <2>1. "all" \in DOMAIN Spelling
    BY AllSpelled
  <2>2. \A i \in 1..5 : JobWords[i] \in {"job-id", "job-state", "job-state-reasons",
          "job-media-sheets-completed", "job-impressions-completed"}
    BY DEF JobWords
  <2>3. {"job-id", "job-state", "job-state-reasons", "job-media-sheets-completed",
         "job-impressions-completed"} \subseteq DOMAIN Spelling
    BY AllSpelled
  <2> QED BY <2>1, <2>2, <2>3
<1>3. IsReadable(group, Which) /\ Which[1] = W("which-jobs") /\ Which[2] # Arr(<<>>)
  <2>1. Readable("which-jobs", "keyword", K("all"))
    BY <1>2, KeywordReadable
  <2>2. IsReadable(group, Which)
    BY <1>1, <2>1, OneReadable DEF Which
  <2>3. Which[1] = W("which-jobs") /\ Which[2][1] = "string"
    BY DEF Which, K, Str
  <2> QED BY <2>2, <2>3, HasAValue
<1>4. IsReadable(group, Wanted) /\ Wanted[1] = W("requested-attributes") /\ Wanted[2] # Arr(<<>>)
  <2> DEFINE S == {K(word) : word \in DOMAIN Spelling}
  <2>1. \A i \in 1..5 : values[i] \in S
    BY <1>2
  <2>2. values # <<>> /\ DOMAIN values = 1..5
    <3>1. DOMAIN values = 1..5 /\ 1 \in 1..5 /\ DOMAIN <<>> = {}
      OBVIOUS
    <3> HIDE DEF values
    <3> QED BY <3>1
  <2>3. values = [i \in 1..5 |-> values[i]]
    OBVIOUS
  <2>4. \A i \in DOMAIN values : \E one \in DOMAIN Spelling : values[i] = K(one)
    BY <1>2
  <2> HIDE DEF S, values
  <2>5. values \in Seq(S)
    BY <2>1, <2>3
  <2>6. IsSequence(values)
    BY <2>5, SequenceOfSome
  <2>7. IsReadable(group, <<W("requested-attributes"), Arr(values)>>)
    BY <1>1, <2>2, <2>4, <2>6, KeywordsReadable
  <2>8. Wanted = <<W("requested-attributes"), Arr(values)>>
    BY DEF Wanted, values
  <2>9. Wanted[1] = W("requested-attributes") /\ Wanted[2][2] # <<>>
    BY <2>2, <2>8 DEF Arr
  <2> QED BY <2>7, <2>8, <2>9, HasAValue
<1>5. \A i \in 1..four : /\ words[i] \in DOMAIN groupAttributeSyntax[group]
                         /\ attributes[i][1] = W(words[i]) /\ IsReadable(group, attributes[i])
  BY <1>1, <1>3, <1>4, IdentityKnown
<1>6. /\ attributes = [i \in 1..four |-> attributes[i]]
      /\ \A i, j \in 1..four : i # j => words[i] # words[j]
  OBVIOUS
<1>7. \A a \in ToSet(attributes) : a[2] # Arr(<<>>)
  <2>1. ToSet(attributes) = {Printer, User, Which, Wanted}
    BY DEF ToSet
  <2> QED BY <1>3, <1>4, <2>1, IdentityKnown
<1> HIDE DEF attributes, words, group, four, table
<1>8. ReadableGroup(group, attributes)
  BY <1>1, <1>5, <1>6, NamedGroup, SMTT(40)
<1> QED BY <1>7, <1>8 DEF group, attributes

\* The request for the jobs is readable.
LEMMA JobsReadable == IsReadableRequest(retainedJobsRequest)
<1> DEFINE request == retainedJobsRequest
           op == "operation-attributes-tag"
           asked == <<K("job-id"), K("job-state"), K("job-state-reasons"),
                      K("job-media-sheets-completed"), K("job-impressions-completed")>>
           attributes == <<Printer, User, Which, Wanted>>
<1>1. asked = [i \in 1..5 |-> K(JobWords[i])]
  <2>1. /\ JobWords[1] = "job-id" /\ JobWords[2] = "job-state"
        /\ JobWords[3] = "job-state-reasons" /\ JobWords[4] = "job-media-sheets-completed"
        /\ JobWords[5] = "job-impressions-completed"
    BY DEF JobWords
  <2>2. /\ asked = [i \in 1..5 |-> asked[i]] /\ asked[1] = K("job-id") /\ asked[2] = K("job-state")
        /\ asked[3] = K("job-state-reasons") /\ asked[4] = K("job-media-sheets-completed")
        /\ asked[5] = K("job-impressions-completed")
    OBVIOUS
  <2> HIDE DEF asked
  <2>3. \A i \in 1..5 : asked[i] = K(JobWords[i])
    BY <2>1, <2>2
  <2> QED BY <2>2, <2>3
<1>2. <<Printer, User>> \o <<Which, Wanted>> = attributes
  BY JoinedTwo DEF attributes
<1> HIDE DEF asked, attributes
<1>3. request = Message("Get-Jobs", {<<op, attributes>>})
  <2>1. request = Message("Get-Jobs", {<<op, Identity \o <<Which, Wanted>>>>})
    BY <1>1 DEF retainedJobsRequest, Which, Wanted, asked
  <2> QED BY <1>2, <2>1, IdentityKnown
<1>4. /\ request.operation = "Get-Jobs" /\ request.data = <<>>
      /\ DOMAIN request.groups = {op} /\ request.groups[op] = attributes
  BY <1>3 DEF Message, Table
<1> HIDE DEF request
<1>5. request.operation \in DOMAIN ippOperations
  BY <1>4 DEF ippOperations, Table
<1>6. \A group \in DOMAIN request.groups : ReadableGroup(group, request.groups[group])
  BY <1>4, JobsAttributes DEF attributes
<1>7. \A a \in ToSet(request.groups[op]) : a[2] # Arr(<<>>)
  BY <1>4, JobsAttributes DEF attributes
<1>8. IsReadableRequest(request)
  BY <1>4, <1>5, <1>6, <1>7, ReadableRequest
<1> QED BY <1>8 DEF request

Ids(id) == <<W("notify-subscription-ids"), Arr(<<id>>)>>
Numbers(next) == <<W("notify-sequence-numbers"), Arr(<<next>>)>>
Wait == <<W("notify-wait"), Bool(TRUE)>>
PollAttributes(id, next) == <<Printer, User, Ids(id), Numbers(next), Wait>>
PollWords == <<"printer-uri", "requesting-user-name", "notify-subscription-ids",
               "notify-sequence-numbers", "notify-wait">>

\* A positive integer of 32 bits is one of 32 bits.
LEMMA PositiveIsInteger ==
  ASSUME NEW n \in 1..LastInteger
  PROVE  n \in Integers32
  BY LastIsNumber DEF Integers32

\* A number in a list of its own.
LEMMA NumberReadable ==
  ASSUME NEW word \in DOMAIN groupAttributeSyntax["operation-attributes-tag"],
         groupAttributeSyntax["operation-attributes-tag"][word] = "integer",
         NEW n \in 1..LastInteger
  PROVE  IsReadable("operation-attributes-tag", <<W(word), Arr(<<Num(n)>>)>>)
<1> DEFINE values == <<Num(n)>>
<1>1. IsSequence(values) /\ DOMAIN values = {1} /\ values[1] = Num(n)
  BY SequenceOfOne
<1>2. Readable(word, "integer", Num(n))
  BY PositiveIsInteger, IntegerReadable
<1> HIDE DEF values
<1>3. \A i \in DOMAIN values :
        Readable(word, groupAttributeSyntax["operation-attributes-tag"][word], values[i])
  BY <1>1, <1>2
<1>4. IsReadable("operation-attributes-tag", <<W(word), Arr(values)>>)
  BY <1>1, <1>3, ManyReadable
<1> QED BY <1>4 DEF values

\* The attributes of a poll: those that the number of the next event does not matter to.
LEMMA PollAttributesKnown ==
  ASSUME NEW n \in 1..LastInteger, NEW next
  PROVE  LET attributes == PollAttributes(Num(n), next)
         IN /\ DOMAIN attributes = 1..5 /\ attributes = [i \in 1..5 |-> attributes[i]]
            /\ \A i \in 1..5 :
                 /\ PollWords[i] \in DOMAIN groupAttributeSyntax["operation-attributes-tag"]
                 /\ attributes[i][1] = W(PollWords[i]) /\ attributes[i][2] # Arr(<<>>)
                 /\ i # 4 => IsReadable("operation-attributes-tag", attributes[i])
            /\ attributes[4] = Numbers(next)
            /\ \A i, j \in 1..5 : i # j => PollWords[i] # PollWords[j]
            /\ ToSet(attributes) = {attributes[i] : i \in 1..5}
<1> DEFINE group == "operation-attributes-tag"
           table == groupAttributeSyntax[group]
           id == Num(n)
           a == PollAttributes(id, next)
<1>1. /\ "printer-uri" \in DOMAIN table /\ "requesting-user-name" \in DOMAIN table
      /\ "notify-subscription-ids" \in DOMAIN table /\ table["notify-subscription-ids"] = "integer"
      /\ "notify-sequence-numbers" \in DOMAIN table
      /\ "notify-wait" \in DOMAIN table /\ table["notify-wait"] = "boolean"
  BY OperationSyntax
<1>2. /\ DOMAIN a = 1..5 /\ a = [i \in 1..5 |-> a[i]] /\ a[1] = Printer /\ a[2] = User
      /\ a[3] = Ids(id) /\ a[4] = Numbers(next) /\ a[5] = Wait
  BY DEF PollAttributes
<1> HIDE DEF a, id
<1>3. /\ Ids(id)[1] = W("notify-subscription-ids") /\ Numbers(next)[1] = W("notify-sequence-numbers")
      /\ Wait[1] = W("notify-wait")
      /\ Ids(id)[2][2] # <<>> /\ Numbers(next)[2][2] # <<>> /\ Wait[2][1] = "boolean"
  BY DEF Ids, Numbers, Wait, Arr, Bool
<1>4. Ids(id)[2] # Arr(<<>>) /\ Numbers(next)[2] # Arr(<<>>) /\ Wait[2] # Arr(<<>>)
  <2>1. Wait[2][1] # "array"
    BY <1>3
  <2> QED BY <1>3, <2>1, HasAValue
<1>5. IsReadable(group, Ids(id))
  BY <1>1, NumberReadable DEF Ids, id
<1>6. IsReadable(group, Wait)
  <2>1. Readable("notify-wait", "boolean", Bool(TRUE))
    BY BooleanReadable
  <2> QED BY <1>1, <2>1, OneReadable DEF Wait
<1>7. /\ PollWords[1] = "printer-uri" /\ PollWords[2] = "requesting-user-name"
      /\ PollWords[3] = "notify-subscription-ids" /\ PollWords[4] = "notify-sequence-numbers"
      /\ PollWords[5] = "notify-wait"
  BY DEF PollWords
<1>8. \A i \in 1..5 :
        /\ PollWords[i] \in DOMAIN table
        /\ a[i][1] = W(PollWords[i]) /\ a[i][2] # Arr(<<>>)
        /\ i # 4 => IsReadable(group, a[i])
  <2>1. \A i \in 1..5 : PollWords[i] \in DOMAIN table
    BY <1>1, <1>7
  <2>2. \A i \in 1..5 : a[i][1] = W(PollWords[i])
    BY <1>2, <1>3, <1>7, IdentityKnown
  <2>3. \A i \in 1..5 : a[i][2] # Arr(<<>>)
    BY <1>2, <1>4, IdentityKnown
  <2>4. \A i \in 1..5 : i # 4 => IsReadable(group, a[i])
    BY <1>2, <1>5, <1>6, IdentityKnown
  <2> QED BY <2>1, <2>2, <2>3, <2>4
<1>9. \A i, j \in 1..5 : i # j => PollWords[i] # PollWords[j]
  BY <1>7
<1>10. ToSet(a) = {a[i] : i \in 1..5}
  BY <1>2 DEF ToSet
<1> QED BY <1>2, <1>8, <1>9, <1>10 DEF a, id

\* The request for the notifications, part by part.
LEMMA PollKnown ==
  ASSUME NEW id, NEW next
  PROVE  LET request == getNotificationsRequest(id, next)
         IN /\ request.operation = "Get-Notifications" /\ request.data = <<>>
            /\ DOMAIN request.groups = {"operation-attributes-tag"}
            /\ request.groups["operation-attributes-tag"] = PollAttributes(id, next)
            /\ request.operation \in DOMAIN ippOperations
<1> DEFINE request == getNotificationsRequest(id, next)
           op == "operation-attributes-tag"
           attributes == PollAttributes(id, next)
<1>1. <<Printer, User>> \o <<Ids(id), Numbers(next), Wait>> = attributes
  BY JoinedThree DEF PollAttributes
<1> HIDE DEF attributes
<1>2. request = Message("Get-Notifications", {<<op, attributes>>})
  <2>1. request = Message("Get-Notifications",
                          {<<op, Identity \o <<Ids(id), Numbers(next), Wait>>>>})
    BY DEF getNotificationsRequest, Ids, Numbers, Wait
  <2> QED BY <1>1, <2>1, IdentityKnown
<1>3. /\ request.operation = "Get-Notifications" /\ request.data = <<>>
      /\ DOMAIN request.groups = {op} /\ request.groups[op] = attributes
  BY <1>2 DEF Message, Table
<1> HIDE DEF request
<1>4. request.operation \in DOMAIN ippOperations
  BY <1>3 DEF ippOperations, Table
<1> QED BY <1>3, <1>4 DEF request, attributes

\* The request for the notifications is readable, of any subscription and from any number.
LEMMA PollReadable ==
  ASSUME NEW n \in 1..LastInteger, NEW m \in 1..LastInteger
  PROVE  IsReadableRequest(getNotificationsRequest(Num(n), Num(m)))
<1> DEFINE request == getNotificationsRequest(Num(n), Num(m))
           group == "operation-attributes-tag"
           attributes == PollAttributes(Num(n), Num(m))
           five == 5
           words == PollWords
<1>1. /\ request.operation = "Get-Notifications" /\ request.data = <<>>
      /\ DOMAIN request.groups = {group} /\ request.groups[group] = attributes
      /\ request.operation \in DOMAIN ippOperations
  BY PollKnown
<1>2. /\ attributes = [i \in 1..five |-> attributes[i]]
      /\ \A i \in 1..five : /\ words[i] \in DOMAIN groupAttributeSyntax[group]
                            /\ attributes[i][1] = W(words[i]) /\ attributes[i][2] # Arr(<<>>)
                            /\ i # 4 => IsReadable(group, attributes[i])
      /\ attributes[4] = Numbers(Num(m)) /\ \A i, j \in 1..five : i # j => words[i] # words[j]
      /\ ToSet(attributes) = {attributes[i] : i \in 1..5}
  BY PollAttributesKnown
<1>3. IsReadable(group, attributes[4])
  <2>1. /\ "notify-sequence-numbers" \in DOMAIN groupAttributeSyntax[group]
        /\ groupAttributeSyntax[group]["notify-sequence-numbers"] = "integer"
    BY OperationSyntax
  <2> HIDE DEF attributes
  <2> QED BY <1>2, <2>1, NumberReadable DEF Numbers
<1>4. group \in DOMAIN groupAttributeSyntax /\ five \in Nat
  BY SyntaxTables
<1>5. \A a \in ToSet(attributes) : a[2] # Arr(<<>>)
  BY <1>2
<1> HIDE DEF request, attributes, words
<1>6. \A i \in 1..five : /\ words[i] \in DOMAIN groupAttributeSyntax[group]
                         /\ attributes[i][1] = W(words[i]) /\ IsReadable(group, attributes[i])
  BY <1>2, <1>3
<1> HIDE DEF five, group
<1>w. \A i, j \in 1..five : i # j => words[i] # words[j]
  BY <1>2
<1>v. attributes = [i \in 1..five |-> attributes[i]]
  BY <1>2
<1>7. ReadableGroup(group, attributes)
  BY <1>4, <1>6, <1>v, <1>w, NamedGroup, SMTT(40)
<1>8. \A g \in DOMAIN request.groups : ReadableGroup(g, request.groups[g])
  BY <1>1, <1>7
<1>9. IsReadableRequest(request)
  BY <1>1, <1>5, <1>8, ReadableRequest DEF group
<1> QED BY <1>9 DEF request

\* What is in one of the sequences is in all of them put together.
LEMMA InOneOfThem ==
  ASSUME NEW S, NEW seqs \in Seq(Seq(S)), NEW j \in 1..Len(seqs), NEW x \in ToSet(seqs[j])
  PROVE  FlattenSeq(seqs) \in Seq(S) /\ x \in ToSet(FlattenSeq(seqs))
<1> DEFINE all == FlattenSeq(seqs)
<1>1. all \in Seq(S) /\ \E end : Ends(seqs, all, end)
  BY PiecesPlaced
<1>2. PICK end : Ends(seqs, all, end)
  BY <1>1
<1>3. seqs[j] \in Seq(S)
  BY ElementOfSeq
<1>4. PICK k \in 1..Len(seqs[j]) : x = seqs[j][k]
  BY <1>3 DEF ToSet
<1> DEFINE before == end[j - 1]
           length == Len(seqs[j])
<1>5. /\ end \in [0..Len(seqs) -> Nat] /\ end[j] = before + length /\ end[j] <= Len(all)
      /\ all[before + k] = seqs[j][k]
  BY <1>2, <1>4 DEF Ends
<1>6. before \in Nat /\ length \in Nat /\ Len(all) \in Nat /\ DOMAIN all = 1..Len(all)
  <2>1. j - 1 \in 0..Len(seqs)
    OBVIOUS
  <2>2. before \in Nat
    BY <1>5, <2>1
  <2>3. length \in Nat
    BY <1>3
  <2> HIDE DEF all
  <2>4. Len(all) \in Nat /\ DOMAIN all = 1..Len(all)
    BY <1>1
  <2> QED BY <2>2, <2>3, <2>4
<1>7. before + k \in DOMAIN all
  <2> HIDE DEF all, before, length
  <2>1. k \in 1..length
    BY <1>4 DEF length
  <2> QED BY <1>5, <1>6, <2>1
<1>8. x \in ToSet(all)
  <2> HIDE DEF all
  <2> QED BY <1>4, <1>5, <1>7 DEF ToSet
<1> QED BY <1>1, <1>8

\* What is in one of two sequences is in both together.
LEMMA InBoth ==
  ASSUME NEW S, NEW s \in Seq(S), NEW t \in Seq(S)
  PROVE  /\ s \o t \in Seq(S)
         /\ \A x : x \in ToSet(s) \/ x \in ToSet(t) => x \in ToSet(s \o t)
<1> DEFINE all == s \o t
           m == Len(s)
           n == Len(t)
<1>1. /\ all \in Seq(S) /\ Len(all) = m + n
      /\ \A i \in 1..m + n : all[i] = IF i <= m THEN s[i] ELSE t[i - m]
  BY ConcatProperties
<1>2. m \in Nat /\ n \in Nat /\ DOMAIN s = 1..m /\ DOMAIN t = 1..n
  OBVIOUS
<1> HIDE DEF all, m, n
<1>3. DOMAIN all = 1..m + n
  BY <1>1
<1>4. ASSUME NEW k \in 1..m PROVE s[k] \in ToSet(all)
  <2>1. k \in 1..m + n /\ k <= m
    BY <1>2
  <2> QED BY <1>1, <1>3, <2>1 DEF ToSet
<1>5. ASSUME NEW k \in 1..n PROVE t[k] \in ToSet(all)
  <2> DEFINE i == m + k
  <2>1. i \in 1..m + n /\ ~ (i <= m) /\ i - m = k
    BY <1>2
  <2> HIDE DEF i
  <2>2. all[i] = t[i - m]
    BY <1>1, <2>1, Zenon
  <2> QED BY <1>3, <2>1, <2>2 DEF ToSet
<1>6. ASSUME NEW x, x \in ToSet(s) \/ x \in ToSet(t) PROVE x \in ToSet(all)
  <2>1. CASE x \in ToSet(s)
    <3>1. PICK k \in 1..m : x = s[k]
      BY <1>2, <2>1 DEF ToSet
    <3> QED BY <1>4, <3>1
  <2>2. CASE x \in ToSet(t)
    <3>1. PICK k \in 1..n : x = t[k]
      BY <1>2, <2>2 DEF ToSet
    <3> QED BY <1>5, <3>1
  <2> QED BY <1>6, <2>1, <2>2
<1> QED BY <1>1, <1>6 DEF all

\* A byte is an integer.
LEMMA BytesAreIntegers == Seq(Byte) \subseteq Seq(Int)
<1>1. ASSUME NEW s \in Seq(Byte) PROVE s \in Seq(Int)
  <2>1. \A b \in Byte : b \in Int
    BY OfAByte
  <2>2. \A k \in 1..Len(s) : s[k] \in Int
    BY <2>1, ElementOfSeq
  <2>3. s = [k \in 1..Len(s) |-> s[k]] /\ Len(s) \in Nat
    OBVIOUS
  <2> QED BY <2>2, <2>3
<1> QED BY <1>1

\* writeInteger throws on a number that is not a 32-bit integer.
LEMMA NumbersRefused ==
  LET bytes == writeAttribute("operation-attributes-tag", Numbers(Beyond)[1], Numbers(Beyond)[2])
  IN bytes \in Seq(Int) /\ -1 \in ToSet(bytes)
<1> DEFINE group == "operation-attributes-tag"
           word == "notify-sequence-numbers"
           name == W(word)
           value == Arr(<<Beyond>>)
           values == <<Beyond>>
           tag == <<ippTags["integer"]>>
           piece == tag \o Sized(name) \o Refused
<1>1. /\ group \in DOMAIN groupAttributeSyntax /\ word \in DOMAIN groupAttributeSyntax[group]
      /\ groupAttributeSyntax[group][word] = "integer"
  BY SyntaxTables, OperationSyntax
<1>2. values = IF IsA(value, "array") /\ "integer" # "resolution" THEN value[2] ELSE <<value>>
  BY DEF Arr, IsA
<1>3. writeAttribute(group, name, value) = FlattenSeq(ValuesBytes("integer", word, values))
  <2> DEFINE syntax == groupAttributeSyntax[group][word]
  <2>1. /\ syntax = groupAttributeSyntax[group][word]
        /\ values = IF IsA(value, "array") /\ syntax # "resolution" THEN value[2] ELSE <<value>>
    BY <1>1, <1>2
  <2> HIDE DEF syntax, value, values, word, group
  <2>2. writeAttribute(group, W(word), value) = FlattenSeq(ValuesBytes(syntax, word, values))
    BY <1>1, <2>1, WriteAttribute DEF syntax
  <2> QED BY <1>1, <2>2 DEF syntax
<1>4. ~ IsA(Beyond, "string") /\ ~ IsA(Beyond, "number")
  BY DEF IsA, Beyond
<1>5. writeValue(name, "integer", Beyond) = Refused
  BY <1>4 DEF writeValue, writeInteger
<1>6. resolveValueTag("integer", Beyond) = "integer"
  BY DEF resolveValueTag
<1>7. ValueBytes("integer", word, Beyond, name) = piece
  BY <1>5, <1>6 DEF ValueBytes
<1>8. ValuesBytes("integer", word, values) = <<piece>>
  <2>1. DOMAIN values = {1} /\ values[1] = Beyond
    OBVIOUS
  <2> HIDE DEF values, piece
  <2>2. ValuesBytes("integer", word, values) = [i \in {1} |-> piece]
    BY <1>7, <2>1 DEF ValuesBytes
  <2> QED BY <2>2
<1>9. tag \in Seq(Int) /\ Refused \in Seq(Int) /\ -1 \in ToSet(Refused)
  <2>1. ippTags["integer"] \in Int
    BY TagsKnown, ValueTagsKnown
  <2>2. -1 \in ToSet(<<-1>>)
    BY DEF ToSet
  <2> QED BY <2>1, <2>2 DEF Refused
<1>10. Sized(name) \in Seq(Int)
  <2>1. "notify-sequence-numbers" \in DOMAIN Spelling
    BY AllSpelled
  <2>2. PICK i \in 1..49 : name = <<32 + i>>
    BY <2>1, Spelled
  <2> HIDE DEF name
  <2>3. name \in Seq(Int) /\ Len(name) = 1
    BY <2>2
  <2>4. UInt16(1) \in Seq(Int)
    BY DEF UInt16
  <2> QED BY <2>3, <2>4, Joined DEF Sized
<1> HIDE DEF tag, name
<1>11. piece \in Seq(Int) /\ -1 \in ToSet(piece)
  <2>1. tag \o Sized(name) \in Seq(Int)
    BY <1>9, <1>10, Joined
  <2> QED BY <1>9, <2>1, InBoth
<1> HIDE DEF piece
<1>12. FlattenSeq(<<piece>>) = piece
  BY <1>11, FlattenAlone
<1>13. writeAttribute(group, name, value) = piece
  BY <1>3, <1>8, <1>12
<1>14. Numbers(Beyond)[1] = name /\ Numbers(Beyond)[2] = value
  BY DEF Numbers, name
<1> QED BY <1>11, <1>13, <1>14

\* What is written of a readable attribute is made of bytes.
LEMMA AttributeIsBytes ==
  ASSUME NEW group \in DOMAIN groupAttributeSyntax, NEW attribute, IsReadable(group, attribute)
  PROVE  writeAttribute(group, attribute[1], attribute[2]) \in Seq(Int)
<1> DEFINE bytes == writeAttribute(group, attribute[1], attribute[2])
<1>1. IF attribute[2] = Arr(<<>>) THEN bytes = <<>> ELSE AttributeBytes(bytes, Kept(attribute))
  BY AttributeReadBack
<1> HIDE DEF bytes
<1>2. <<>> \in Seq(Byte)
  OBVIOUS
<1>3. bytes \in Seq(Byte)
  BY <1>1, <1>2 DEF AttributeBytes
<1>4. bytes \in Seq(Int)
  BY <1>3, BytesAreIntegers
<1> QED BY <1>4 DEF bytes

\* The attributes of a poll with a number beyond the protocol's are not written.
LEMMA BeyondAttributes ==
  ASSUME NEW n \in 1..LastInteger,
         NEW asked, asked = orderedOperationAttributes(
                              Spread(OwnOperationAttributes, PollAttributes(Num(n), Beyond)))
  PROVE  LET bytes == FlattenSeq(AttributePieces("operation-attributes-tag", asked))
         IN bytes \in Seq(Int) /\ -1 \in ToSet(bytes)
<1> DEFINE group == "operation-attributes-tag"
           first == OwnOperationAttributes
           own == PollAttributes(Num(n), Beyond)
           S == ToSet(first) \cup ToSet(own)
           spread == Spread(first, own)
           seqs == AttributePieces(group, asked)
<1>1. /\ DOMAIN own = 1..5 /\ own = [i \in 1..5 |-> own[i]]
      /\ \A i \in 1..5 :
           /\ PollWords[i] \in DOMAIN groupAttributeSyntax[group]
           /\ own[i][1] = W(PollWords[i]) /\ own[i][2] # Arr(<<>>)
           /\ i # 4 => IsReadable(group, own[i])
      /\ own[4] = Numbers(Beyond)
      /\ \A i, j \in 1..5 : i # j => PollWords[i] # PollWords[j]
      /\ ToSet(own) = {own[i] : i \in 1..5}
  BY PollAttributesKnown
<1> HIDE DEF own
<1>2. group \in DOMAIN groupAttributeSyntax
  BY SyntaxTables
<1>3. NamesApart(own)
  <2>1. \A i \in 1..5 : PollWords[i] \in DOMAIN Spelling
    BY <1>1, <1>2, SyntaxKnown
  <2>2. ASSUME NEW i \in 1..5, NEW j \in 1..5, i # j PROVE own[i][1] # own[j][1]
    <3> DEFINE a == PollWords[i]
               b == PollWords[j]
    <3>1. /\ a \in DOMAIN Spelling /\ b \in DOMAIN Spelling /\ a # b
          /\ own[i][1] = W(a) /\ own[j][1] = W(b)
      BY <1>1, <2>1, <2>2
    <3> HIDE DEF a, b
    <3> QED BY <3>1, SpelledApart
  <2> QED BY <1>1, <2>2 DEF NamesApart
<1>4. \A a \in S : IsReadable(group, a) \/ a = Numbers(Beyond)
  <2>1. \A a \in ToSet(first) : IsReadable(group, a)
    BY OwnKnown DEF ToSet
  <2>2. \A a \in ToSet(own) : IsReadable(group, a) \/ a = Numbers(Beyond)
    BY <1>1
  <2> QED BY <2>1, <2>2
<1>5. \A a \in S : a = <<a[1], a[2]>>
  <2>1. Numbers(Beyond) = <<Numbers(Beyond)[1], Numbers(Beyond)[2]>>
    BY DEF Numbers
  <2> QED BY <1>4, <2>1, ReadablePair
<1>6. first \in Seq(S) /\ own \in Seq(S) /\ NamesApart(first)
  <2> DEFINE A == ToSet(first)
             B == ToSet(own)
             five == 5
  <2>1. first \in Seq(A) /\ NamesApart(first)
    BY OwnKnown
  <2>2. \A i \in 1..five : own[i] \in B
    BY <1>1
  <2>3. own = [i \in 1..five |-> own[i]] /\ five \in Nat
    BY <1>1
  <2> HIDE DEF A, B, first, five
  <2>4. own \in Seq(B)
    BY <2>2, <2>3
  <2>5. first \in Seq(A \cup B) /\ own \in Seq(A \cup B)
    BY <2>1, <2>4
  <2> QED BY <2>1, <2>5 DEF A, B, first
<1> HIDE DEF S, first
<1>7. /\ spread \in Seq(S) /\ NamesApart(spread)
      /\ \A a : a \in ToSet(own) => a \in ToSet(spread)
  BY <1>3, <1>5, <1>6, SpreadOnce
<1> HIDE DEF spread
<1>8. /\ asked \in Seq(S) /\ ToSet(asked) = ToSet(spread)
  BY <1>7, OrderedOnce DEF spread, first, own
<1>9. PICK j \in 1..Len(asked) : asked[j] = Numbers(Beyond)
  <2>1. Numbers(Beyond) \in ToSet(own)
    <3>1. 4 \in 1..5
      OBVIOUS
    <3> QED BY <1>1, <3>1
  <2>2. Numbers(Beyond) \in ToSet(asked)
    BY <1>7, <1>8, <2>1
  <2>3. DOMAIN asked = 1..Len(asked)
    BY <1>8
  <2> QED BY <2>2, <2>3 DEF ToSet
<1>10. /\ DOMAIN seqs = 1..Len(asked) /\ Len(asked) \in Nat
       /\ seqs = [i \in 1..Len(asked) |-> seqs[i]]
       /\ \A i \in 1..Len(asked) : seqs[i] = writeAttribute(group, asked[i][1], asked[i][2])
  BY <1>8 DEF AttributePieces
<1>11. seqs[j] \in Seq(Int) /\ -1 \in ToSet(seqs[j])
  BY <1>9, <1>10, NumbersRefused
<1> HIDE DEF seqs
<1>12. ASSUME NEW i \in 1..Len(asked) PROVE seqs[i] \in Seq(Int)
  <2>1. asked[i] \in S
    BY <1>8, ElementOfSeq
  <2>2. CASE IsReadable(group, asked[i])
    BY <1>2, <1>10, <2>2, AttributeIsBytes
  <2>3. CASE asked[i] = Numbers(Beyond)
    BY <1>10, <2>3, NumbersRefused
  <2> QED BY <1>4, <2>1, <2>2, <2>3
<1>13. seqs \in Seq(Seq(Int)) /\ j \in 1..Len(seqs)
  <2> DEFINE R == Seq(Int)
             m == Len(asked)
  <2>1. \A i \in 1..m : seqs[i] \in R
    BY <1>12
  <2>2. seqs = [i \in 1..m |-> seqs[i]] /\ m \in Nat /\ j \in 1..m
    BY <1>10
  <2> HIDE DEF R, m
  <2>3. seqs \in Seq(R) /\ Len(seqs) = m
    BY <2>1, <2>2
  <2> QED BY <2>2, <2>3 DEF R
<1>14. FlattenSeq(seqs) \in Seq(Int) /\ -1 \in ToSet(FlattenSeq(seqs))
  BY <1>11, <1>13, InOneOfThem
<1> QED BY <1>14 DEF seqs

\* A poll with a number beyond the protocol's is refused (writeInteger).
THEOREM BeyondIsRefused ==
  ASSUME NEW n \in 1..LastInteger, NEW id \in Integers32
  PROVE  Throws(serializeIppRequest(getNotificationsRequest(Num(n), Beyond), id))
<1> DEFINE request == getNotificationsRequest(Num(n), Beyond)
           op == "operation-attributes-tag"
           own == PollAttributes(Num(n), Beyond)
           message == [group \in {op} \cup DOMAIN request.groups |->
                         IF group = op THEN Spread(OwnOperationAttributes, own)
                         ELSE request.groups[group]]
           asked == orderedOperationAttributes(Spread(OwnOperationAttributes, own))
           piece == <<ippTags[op]>> \o FlattenSeq(AttributePieces(op, asked))
           seqs == [k \in 1..4 |-> IF k = 1 THEN piece ELSE <<>>]
           groups == FlattenSeq(seqs)
           header == Header(request, id)
           end == <<ippTags["end-of-attributes-tag"]>>
<1>1. /\ request.data = <<>> /\ DOMAIN request.groups = {op} /\ request.groups[op] = own
      /\ request.operation \in DOMAIN ippOperations
  BY PollKnown
<1>2. DOMAIN message = {op} /\ message[op] = Spread(OwnOperationAttributes, own)
  BY <1>1
<1>3. serializeIppRequest(request, id) =
        UInt16(ippVersions["2.0"])
        \o (IF request.operation \in DOMAIN ippOperations
            THEN UInt16(ippOperations[request.operation]) ELSE Refused)
        \o Int32(id)
        \o FlattenSeq([i \in DOMAIN orderedRequestGroups |->
                         writeGroup(message, orderedRequestGroups[i])])
        \o end \o request.data
  BY <1>1 DEF serializeIppRequest
<1> HIDE DEF request, message
<1>4. ASSUME NEW k \in 1..4
      PROVE  writeGroup(message, orderedRequestGroups[k]) = IF k = 1 THEN piece ELSE <<>>
  <2>1. CASE k = 1
    <3>1. orderedRequestGroups[1] = op
      BY GroupsOfARequest
    <3>2. writeGroup(message, op) = piece
      BY <1>2 DEF writeGroup, AttributePieces
    <3> QED BY <2>1, <3>1, <3>2
  <2>2. CASE k # 1
    <3>1. orderedRequestGroups[k] # op
      BY <2>2, GroupsOfARequest
    <3>2. orderedRequestGroups[k] \notin DOMAIN message
      BY <1>2, <3>1
    <3> QED BY <2>2, <3>2 DEF writeGroup
  <2> QED BY <2>1, <2>2
<1>5. [i \in DOMAIN orderedRequestGroups |-> writeGroup(message, orderedRequestGroups[i])] = seqs
  <2>1. DOMAIN orderedRequestGroups = 1..4
    BY DEF orderedRequestGroups
  <2> HIDE DEF piece
  <2> QED BY <1>4, <2>1
<1>6. serializeIppRequest(request, id) = header \o groups \o end \o <<>>
  BY <1>1, <1>3, <1>5 DEF Header
<1>7. piece \in Seq(Int) /\ -1 \in ToSet(piece)
  <2> DEFINE bytes == FlattenSeq(AttributePieces(op, asked))
             tag == <<ippTags[op]>>
  <2>1. bytes \in Seq(Int) /\ -1 \in ToSet(bytes)
    BY BeyondAttributes
  <2>2. tag \in Seq(Int)
    <3>1. op \in DOMAIN groupAttributeSyntax
      BY SyntaxTables
    <3>2. ippTags[op] \in Int
      BY <3>1, RequestGroupsKnown, OfAByte
    <3> QED BY <3>2
  <2> HIDE DEF bytes, tag, asked
  <2>3. tag \o bytes \in Seq(Int) /\ -1 \in ToSet(tag \o bytes)
    BY <2>1, <2>2, InBoth
  <2> QED BY <2>3 DEF bytes, tag
<1> HIDE DEF piece
<1>8. seqs \in Seq(Seq(Int)) /\ Len(seqs) = 4 /\ seqs[1] = piece
  BY <1>7
<1> HIDE DEF seqs
<1>9. groups \in Seq(Int) /\ -1 \in ToSet(groups)
  <2> DEFINE one == 1
  <2>1. one \in 1..Len(seqs) /\ -1 \in ToSet(seqs[one])
    BY <1>7, <1>8
  <2> HIDE DEF one
  <2> QED BY <1>8, <2>1, InOneOfThem
<1>10. header \in Seq(Int)
  <2>1. ippOperations[request.operation] \in Lengths
    BY <1>1, OperationCodes
  <2>2. ippVersions["2.0"] \in Lengths
    <3>1. ippVersions["2.0"] = 512
      BY DEF ippVersions, Table
    <3>2. 512 \in Lengths
      BY DEF Lengths
    <3> QED BY <3>1, <3>2
  <2>3. /\ UInt16(ippVersions["2.0"]) \in Seq(Byte)
        /\ UInt16(ippOperations[request.operation]) \in Seq(Byte) /\ Int32(id) \in Seq(Byte)
    BY <2>1, <2>2, TwoBytes, FourOfAnId
  <2>4. UInt16(ippVersions["2.0"]) \o UInt16(ippOperations[request.operation]) \in Seq(Byte)
    BY <2>3, Joined
  <2>5. header \in Seq(Byte)
    BY <2>3, <2>4, Joined DEF Header
  <2> QED BY <2>5, BytesAreIntegers
<1>11. end \in Seq(Int) /\ <<>> \in Seq(Int)
  BY EndTag
<1> HIDE DEF header, groups, end
<1>12. header \o groups \in Seq(Int) /\ -1 \in ToSet(header \o groups)
  BY <1>9, <1>10, InBoth
<1>13. header \o groups \o end \in Seq(Int) /\ -1 \in ToSet(header \o groups \o end)
  BY <1>11, <1>12, InBoth
<1>14. -1 \in ToSet(header \o groups \o end \o <<>>)
  BY <1>11, <1>13, InBoth
<1>15. -1 \in ToSet(serializeIppRequest(request, id))
  BY <1>6, <1>14
<1> QED BY <1>15 DEF Throws, request
=============================================================================
