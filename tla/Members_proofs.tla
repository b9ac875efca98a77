--------------------------- MODULE Members_proofs ----------------------------
(****************************************************************************)
(* The members of sequences: what Append, Tail, concatenation and           *)
(* FlattenSeq of the community modules do to them.  The models select from  *)
(* queues and frames with FlattenSeq.                                       *)
(*                                                                          *)
(* FlattenSeq is a recursive function.  What it computes is proved by a     *)
(* least counterexample: a set of numbers that is not empty has a smallest, *)
(* and the step from the number before it is the step of an induction.      *)
(****************************************************************************)
EXTENDS Integers, SequencesExt, SequenceTheorems, WellFoundedInduction, TLAPS

(* A set of natural numbers that is not empty has a smallest member. *)
LEMMA LeastNatural ==
    ASSUME NEW T \in SUBSET Nat, T # {}
    PROVE  \E m \in T : \A k \in T : m <= k
<1> DEFINE R == OpToRel(<, Nat)
<1>1. PICK m \in T : \A k \in T : <<k, m>> \notin R
    BY NatLessThanWellFounded, WFMin
<1>2. ASSUME NEW k \in T, ~(m <= k)
      PROVE  FALSE
  <2>1. <<k, m>> \in Nat \X Nat /\ k < m
    BY <1>2
  <2>2. <<k, m>>[1] < <<k, m>>[2]
    BY <2>1
  <2>3. <<k, m>> \in R
    BY <2>1, <2>2 DEF OpToRel
  <2> QED
    BY <1>1, <2>3
<1> QED
    BY <1>1, <1>2

-----------------------------------------------------------------------------
(* The members of a sequence. *)
Members(s) == {s[i] : i \in 1..Len(s)}

(* A sequence is one of its members, and of any set that has them. *)
LEMMA MembersSeq ==
    ASSUME NEW S, NEW s \in Seq(S)
    PROVE  /\ Members(s) \subseteq S
           /\ s = << >> <=> Members(s) = {}
           /\ \A T : Members(s) \subseteq T => s \in Seq(T)
<1>1. /\ Len(s) \in Nat /\ s \in [1..Len(s) -> S]
    BY LenProperties
<1>2. Members(s) \subseteq S
    BY <1>1 DEF Members
<1>3. s = << >> <=> Members(s) = {}
  <2>1. CASE Len(s) = 0
    BY <2>1, EmptySeq DEF Members
  <2>2. CASE Len(s) # 0
    <3>1. 1 \in 1..Len(s)
      BY <1>1, <2>2
    <3> QED
      BY <2>2, <3>1, EmptySeq DEF Members
  <2> QED
    BY <2>1, <2>2
<1>4. ASSUME NEW T, Members(s) \subseteq T
      PROVE  s \in Seq(T)
  <2>1. \A i \in 1..Len(s) : s[i] \in T
    BY <1>4 DEF Members
  <2>2. s \in [1..Len(s) -> T]
    BY <1>1, <2>1
  <2> QED
    BY <1>1, <2>2, IsASeq
<1> QED
    BY <1>2, <1>3, <1>4

LEMMA MembersAppend ==
    ASSUME NEW S, NEW s \in Seq(S), NEW e \in S
    PROVE  /\ Append(s, e) \in Seq(S) /\ Append(s, e) # << >>
           /\ Members(Append(s, e)) = Members(s) \cup {e}
<1>1. /\ Append(s, e) \in Seq(S) /\ Append(s, e) # << >> /\ Len(s) \in Nat
      /\ Len(Append(s, e)) = Len(s) + 1
      /\ \A i \in 1..Len(s) : Append(s, e)[i] = s[i]
      /\ Append(s, e)[Len(s) + 1] = e
    BY AppendProperties, LenProperties
<1>2. 1..(Len(s) + 1) = 1..Len(s) \cup {Len(s) + 1}
    BY <1>1
<1> QED
    BY <1>1, <1>2 DEF Members

LEMMA MembersTail ==
    ASSUME NEW S, NEW s \in Seq(S), s # << >>
    PROVE  /\ Tail(s) \in Seq(S) /\ Head(s) \in S
           /\ Members(s) = Members(Tail(s)) \cup {Head(s)}
<1>1. /\ Tail(s) \in Seq(S) /\ Head(s) \in S /\ Head(s) = s[1]
      /\ Len(s) \in Nat \ {0} /\ Len(Tail(s)) = Len(s) - 1
      /\ \A i \in 1..Len(Tail(s)) : Tail(s)[i] = s[i + 1]
    BY HeadTailProperties, LenProperties, EmptySeq
<1>2. ASSUME NEW i \in 1..Len(s), i # 1
      PROVE  s[i] \in Members(Tail(s))
  <2>1. i - 1 \in 1..Len(Tail(s)) /\ (i - 1) + 1 = i
    BY <1>1, <1>2
  <2>2. Tail(s)[i - 1] = s[i]
    BY <1>1, <2>1
  <2> QED
    BY <2>1, <2>2 DEF Members
<1>3. ASSUME NEW i \in 1..Len(Tail(s))
      PROVE  Tail(s)[i] \in Members(s)
  <2>1. i + 1 \in 1..Len(s) /\ Tail(s)[i] = s[i + 1]
    BY <1>1
  <2> QED
    BY <2>1 DEF Members
<1>4. 1 \in 1..Len(s)
    BY <1>1
<1>5. Members(s) \subseteq Members(Tail(s)) \cup {Head(s)}
    BY <1>1, <1>2 DEF Members
<1>6. Members(Tail(s)) \cup {Head(s)} \subseteq Members(s)
    BY <1>1, <1>3, <1>4 DEF Members
<1> QED
    BY <1>1, <1>5, <1>6

LEMMA MembersConcat ==
    ASSUME NEW S, NEW s \in Seq(S), NEW t \in Seq(S)
    PROVE  /\ s \o t \in Seq(S)
           /\ Members(s \o t) = Members(s) \cup Members(t)
<1>1. /\ s \o t \in Seq(S) /\ Len(s) \in Nat /\ Len(t) \in Nat
      /\ Len(s \o t) = Len(s) + Len(t)
      /\ \A i \in 1..(Len(s) + Len(t)) :
           (s \o t)[i] = IF i <= Len(s) THEN s[i] ELSE t[i - Len(s)]
    BY ConcatProperties, LenProperties
<1>2. ASSUME NEW x \in Members(s \o t)
      PROVE  x \in Members(s) \cup Members(t)
  <2>1. PICK i \in 1..(Len(s) + Len(t)) : x = (s \o t)[i]
    BY <1>1 DEF Members
  <2>2. i \in 1..Len(s) \/ (i - Len(s) \in 1..Len(t) /\ ~(i <= Len(s)))
    BY <1>1
  <2> QED
    BY <1>1, <2>1, <2>2 DEF Members
<1>3. ASSUME NEW x \in Members(s)
      PROVE  x \in Members(s \o t)
  <2>1. PICK i \in 1..Len(s) : x = s[i]
    BY DEF Members
  <2>2. i \in 1..(Len(s) + Len(t)) /\ (s \o t)[i] = s[i]
    BY <1>1
  <2> QED
    BY <1>1, <2>1, <2>2 DEF Members
<1>4. ASSUME NEW x \in Members(t)
      PROVE  x \in Members(s \o t)
  <2>1. PICK i \in 1..Len(t) : x = t[i]
    BY DEF Members
  <2>2. /\ i + Len(s) \in 1..(Len(s) + Len(t)) /\ (i + Len(s)) - Len(s) = i
        /\ ~(i + Len(s) <= Len(s))
    BY <1>1
  <2>3. (s \o t)[i + Len(s)] = t[i]
    BY <1>1, <2>2
  <2> QED
    BY <1>1, <2>1, <2>2, <2>3 DEF Members
<1> QED
    BY <1>1, <1>2, <1>3, <1>4

-----------------------------------------------------------------------------
(* The function FlattenSeq is defined by, for the first m sequences. *)
Flattens(g, seqs, m) ==
    g = [i \in 1..m |-> IF i = 1 THEN seqs[i] ELSE g[i - 1] \o seqs[i]]

LEMMA FlattenExists ==
    ASSUME NEW seqs, NEW n \in Nat \ {0}
    PROVE  \E g : Flattens(g, seqs, n)
<1> DEFINE T == {m \in Nat \ {0} : ~ \E g : Flattens(g, seqs, m)}
<1>1. SUFFICES ASSUME T # {} PROVE FALSE
    OBVIOUS
<1>2. PICK m \in T : \A k \in T : m <= k
    BY <1>1, LeastNatural
<1>3. CASE m = 1
  <2> DEFINE g == [i \in 1..1 |-> seqs[i]]
  <2>1. Flattens(g, seqs, 1)
    BY DEF Flattens
  <2> QED
    BY <1>3, <2>1
<1>4. CASE m # 1
  <2>1. m - 1 \in Nat \ {0} /\ m - 1 \notin T /\ m \in Nat
    BY <1>2, <1>4
  <2>2. PICK g : Flattens(g, seqs, m - 1)
    BY <2>1
  <2> DEFINE h == [i \in 1..m |-> IF i = m THEN g[m - 1] \o seqs[m] ELSE g[i]]
  <2>3. ASSUME NEW i \in 1..m
        PROVE  h[i] = IF i = 1 THEN seqs[i] ELSE h[i - 1] \o seqs[i]
    <3>1. CASE i = m
      <4>1. m \in 1..m /\ h[m] = g[m - 1] \o seqs[m]
        <5>1. m \in 1..m
          BY <2>1
        <5> QED
          BY <5>1
      <4>2. m - 1 \in 1..m /\ m - 1 # m
        BY <2>1
      <4>3. h[m - 1] = g[m - 1]
        BY <4>2
      <4> QED
        BY <1>4, <3>1, <4>1, <4>3
    <3>2. CASE i # m
      <4>1. h[i] = g[i] /\ i \in 1..(m - 1)
        BY <2>1, <3>2
      <4>2. g[i] = IF i = 1 THEN seqs[i] ELSE g[i - 1] \o seqs[i]
        BY <2>2, <4>1 DEF Flattens
      <4>3. i # 1 => h[i - 1] = g[i - 1]
        BY <2>1, <3>2
      <4> QED
        BY <4>1, <4>2, <4>3
    <3> QED
      BY <3>1, <3>2
  <2> HIDE DEF h
  <2>4. h = [i \in 1..m |-> h[i]]
    BY DEF h
  <2>5. Flattens(h, seqs, m)
    BY <2>3, <2>4 DEF Flattens
  <2> QED
    BY <2>5
<1> QED
    BY <1>3, <1>4

LEMMA FlattenUnfolds ==
    ASSUME NEW seqs, Len(seqs) \in Nat \ {0}
    PROVE  \E g : Flattens(g, seqs, Len(seqs)) /\ FlattenSeq(seqs) = g[Len(seqs)]
<1> DEFINE g == CHOOSE f : Flattens(f, seqs, Len(seqs))
<1>1. Flattens(g, seqs, Len(seqs))
    BY FlattenExists
<1>2. FlattenSeq(seqs) = g[Len(seqs)]
    BY DEF FlattenSeq, Flattens
<1> QED
    BY <1>1, <1>2

(* What FlattenSeq returns: the members of all its sequences. *)
LEMMA FlattenMembers ==
    ASSUME NEW S, NEW seqs \in Seq(Seq(S))
    PROVE  /\ FlattenSeq(seqs) \in Seq(S)
           /\ Members(FlattenSeq(seqs)) = UNION {Members(seqs[i]) : i \in 1..Len(seqs)}
<1>1. Len(seqs) \in Nat /\ \A i \in 1..Len(seqs) : seqs[i] \in Seq(S)
    BY ElementOfSeq, LenProperties
<1>2. CASE Len(seqs) = 0
  <2>1. FlattenSeq(seqs) = seqs /\ seqs = << >> /\ 1..0 = {}
    BY <1>2, EmptySeq, LenProperties DEF FlattenSeq
  <2> QED
    BY <1>2, <2>1, EmptySeq DEF Members
<1>3. CASE Len(seqs) # 0
  <2> DEFINE n == Len(seqs)
             Upto(i) == UNION {Members(seqs[j]) : j \in 1..i}
  <2>1. PICK g : Flattens(g, seqs, n) /\ FlattenSeq(seqs) = g[n]
    BY <1>1, <1>3, FlattenUnfolds
  <2> DEFINE T == {i \in 1..n : ~(g[i] \in Seq(S) /\ Members(g[i]) = Upto(i))}
  <2>2. SUFFICES ASSUME T # {} PROVE FALSE
    <3>1. n \in 1..n
      BY <1>1, <1>3
    <3> QED
      BY <2>1, <3>1
  <2>3. PICK m \in T : \A k \in T : m <= k
    <3>1. T \in SUBSET Nat
      BY <1>1
    <3> QED
      BY <2>2, <3>1, LeastNatural
  <2>4. m \in 1..n /\ g[m] = IF m = 1 THEN seqs[m] ELSE g[m - 1] \o seqs[m]
    BY <2>1 DEF Flattens
  <2>5. CASE m = 1
    <3>1. Upto(1) = Members(seqs[1])
      <4>1. 1..1 = {1}
        OBVIOUS
      <4> QED
        BY <4>1
    <3> QED
      BY <1>1, <2>4, <2>5, <3>1
  <2>6. CASE m # 1
    <3>1. m - 1 \in 1..n /\ m - 1 \notin T /\ 1..m = 1..(m - 1) \cup {m}
      <4>1. m \in 1..n /\ m - 1 \in 1..n /\ ~(m <= m - 1)
        BY <1>1, <2>4, <2>6
      <4>2. m - 1 \notin T
        BY <2>3, <4>1
      <4> QED
        BY <1>1, <4>1, <4>2
    <3>2. g[m - 1] \in Seq(S) /\ Members(g[m - 1]) = Upto(m - 1)
      BY <3>1
    <3>3. Upto(m) = Upto(m - 1) \cup Members(seqs[m])
      BY <3>1
    <3> HIDE DEF Upto
    <3>4. /\ g[m] \in Seq(S)
          /\ Members(g[m]) = Members(g[m - 1]) \cup Members(seqs[m])
      BY <1>1, <2>4, <2>6, <3>2, MembersConcat
    <3> QED
      BY <3>2, <3>3, <3>4
  <2> QED
    BY <2>5, <2>6
<1> QED
    BY <1>2, <1>3
=============================================================================
