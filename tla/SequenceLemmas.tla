--------------------------- MODULE SequenceLemmas ---------------------------
(***************************************************************************)
(* Sequences as statements are queued in them: what is in a sequence, in   *)
(* one that follows another, in one that is put together of many, and what *)
(* comes after what.                                                       *)
(***************************************************************************)
EXTENDS Integers, Sequences, FiniteSets, SequencesExt, FiniteSetTheorems,
        WellFoundedInduction, TLAPS

-----------------------------------------------------------------------------
(* Induction.  The provers cannot apply an induction theorem to a formula, *)
(* but they can apply the well-foundedness of < to a set.                  *)

\* A set of naturals has a least element.
LEMMA LeastElement ==
  ASSUME NEW S, S \subseteq Nat, S # {}
  PROVE  \E n \in S : \A m \in S : n <= m
<1> DEFINE R == OpToRel(<, Nat)
<1>1. IsWellFoundedOn(R, Nat)
  BY NatLessThanWellFounded
<1>2. \A ss : ss \in R <=> ss \in Nat \X Nat /\ ss[1] < ss[2]
  BY DEF OpToRel
<1> HIDE DEF R
<1>3. PICK n \in S : \A m \in S : ~(<<m, n>> \in R)
  BY <1>1, WFMin
<1>4. ASSUME NEW m \in S PROVE n <= m
  <2>1. n \in Nat /\ m \in Nat
    OBVIOUS
  <2>2. << m, n >> \in Nat \X Nat /\ << m, n >>[1] = m /\ << m, n >>[2] = n
    BY <2>1
  <2>3. ~(m < n)
    BY <1>2, <1>3, <2>2
  <2> QED
    BY <2>1, <2>3
<1> QED
  BY <1>4

\* A set with 0 and the successors of its elements has all naturals.
LEMMA SetInduction ==
  ASSUME NEW S, S \subseteq Nat, 0 \in S, \A n \in S : n + 1 \in S
  PROVE  \A n \in Nat : n \in S
<1> SUFFICES ASSUME Nat \ S # {} PROVE FALSE
  OBVIOUS
<1>1. Nat \ S \subseteq Nat
  OBVIOUS
<1>2. PICK n \in Nat \ S : \A m \in Nat \ S : n <= m
  BY <1>1, LeastElement
<1>3. n \in Nat /\ n # 0 /\ n - 1 \in Nat /\ ~(n <= n - 1) /\ n - 1 + 1 = n
  OBVIOUS
<1>4. n - 1 \in S
  BY <1>2, <1>3
<1> QED
  BY <1>2, <1>3, <1>4

-----------------------------------------------------------------------------
(* Sequences.                                                              *)

IsSeq(s) == s \in Seq(Range(s))

\* A function on 1..n is a sequence of its values.
LEMMA SeqIntro ==
  ASSUME NEW n \in Nat, NEW s, s = [i \in 1..n |-> s[i]]
  PROVE  IsSeq(s) /\ Len(s) = n /\ DOMAIN s = 1..n
<1>1. DOMAIN s = 1..n /\ \A i \in 1..n : s[i] \in Range(s)
  BY DEF Range
<1>2. [i \in 1..n |-> s[i]] \in Seq(Range(s)) /\ Len([i \in 1..n |-> s[i]]) = n
  BY <1>1
<1> QED
  BY <1>1, <1>2 DEF IsSeq

\* A sequence of its values is a function on 1..n.
LEMMA SeqElim ==
  ASSUME NEW s, IsSeq(s)
  PROVE  /\ Len(s) \in Nat /\ DOMAIN s = 1..Len(s) /\ s = [i \in 1..Len(s) |-> s[i]]
         /\ \A i \in 1..Len(s) : s[i] \in Range(s)
  BY DEF IsSeq, Range

\* A sequence over a set is one of its values, which are in the set.
LEMMA SeqWithin ==
  ASSUME NEW S, NEW s \in Seq(S)
  PROVE  IsSeq(s) /\ Range(s) \subseteq S
  BY DEF IsSeq, Range

\* A sequence is one over every set its values are in.
LEMMA SeqIn ==
  ASSUME NEW S, NEW s, IsSeq(s), Range(s) \subseteq S
  PROVE  s \in Seq(S)
<1>1. Len(s) \in Nat /\ DOMAIN s = 1..Len(s) /\ s = [i \in 1..Len(s) |-> s[i]]
  BY SeqElim
<1>2. \A i \in 1..Len(s) : s[i] \in S
  BY SeqElim
<1> QED
  BY <1>1, <1>2

\* The empty sequence.
LEMMA EmptyIsSeq ==
  ASSUME NEW s, s = << >>
  PROVE  IsSeq(s) /\ Range(s) = {} /\ Len(s) = 0 /\ DOMAIN s = {}
<1>1. Len(s) = 0 /\ DOMAIN s = 1..0
  OBVIOUS
<1>2. DOMAIN s = {}
  BY <1>1
<1>3. Range(s) = {}
  BY <1>2 DEF Range
<1>4. s \in Seq({})
  OBVIOUS
<1>5. IsSeq(s)
  BY <1>3, <1>4 DEF IsSeq
<1> QED
  BY <1>1, <1>2, <1>3, <1>5

\* A sequence of one value.
LEMMA UnitIsSeq == ASSUME NEW x PROVE IsSeq(<< x >>) /\ Range(<< x >>) = {x}
  BY DEF IsSeq, Range

\* One sequence after another.
LEMMA JoinIsSeq ==
  ASSUME NEW s, NEW t, IsSeq(s), IsSeq(t)
  PROVE  IsSeq(s \o t) /\ Range(s \o t) = Range(s) \cup Range(t)
<1> DEFINE S == Range(s) \cup Range(t)
<1>1. s \in Seq(S) /\ t \in Seq(S)
  BY SeqIn
<1>2. s \o t \in Seq(S) /\ Len(s \o t) = Len(s) + Len(t)
  BY <1>1
<1>3. \A i \in 1..Len(s) : (s \o t)[i] = s[i]
  BY <1>1
<1>4. \A i \in 1..Len(t) : (s \o t)[i + Len(s)] = t[i]
  BY <1>1
<1>5. IsSeq(s \o t) /\ Range(s \o t) \subseteq S
  BY <1>2, SeqWithin
<1>6. ASSUME NEW x \in S PROVE x \in Range(s \o t)
  <2>1. DOMAIN (s \o t) = 1..(Len(s) + Len(t)) /\ Len(s) \in Nat /\ Len(t) \in Nat
    BY <1>1, <1>2
  <2>2. CASE x \in Range(s)
    <3>1. PICK i \in 1..Len(s) : x = s[i]
      BY <2>2, SeqElim DEF Range
    <3>2. i \in DOMAIN (s \o t) /\ (s \o t)[i] = x
      BY <1>3, <2>1, <3>1
    <3> QED
      BY <3>2 DEF Range
  <2>3. CASE x \in Range(t)
    <3>1. PICK i \in 1..Len(t) : x = t[i]
      BY <2>3, SeqElim DEF Range
    <3>2. i + Len(s) \in DOMAIN (s \o t) /\ (s \o t)[i + Len(s)] = x
      BY <1>4, <2>1, <3>1
    <3> QED
      BY <3>2 DEF Range
  <2> QED
    BY <2>2, <2>3
<1> QED
  BY <1>5, <1>6

\* Where the values of two sequences are when one follows the other.
LEMMA JoinAt ==
  ASSUME NEW T, NEW a \in Seq(T), NEW b \in Seq(T)
  PROVE  /\ a \o b \in Seq(T) /\ Len(a \o b) = Len(a) + Len(b)
         /\ \A i \in 1..Len(a) : (a \o b)[i] = a[i]
         /\ \A i \in 1..Len(b) : (a \o b)[i + Len(a)] = b[i]
<1>1. a \o b \in Seq(T) /\ Len(a \o b) = Len(a) + Len(b)
  OBVIOUS
<1>2. \A i \in 1..Len(a) : (a \o b)[i] = a[i]
  OBVIOUS
<1>3. \A i \in 1..Len(b) : (a \o b)[i + Len(a)] = b[i]
  OBVIOUS
<1> QED
  BY <1>1, <1>2, <1>3

\* The first value and the others.
LEMMA HeadTail ==
  ASSUME NEW s, IsSeq(s), s # << >>
  PROVE  /\ Head(s) = s[1] /\ Head(s) \in Range(s)
         /\ IsSeq(Tail(s)) /\ Range(Tail(s)) \subseteq Range(s) /\ Len(Tail(s)) = Len(s) - 1
         /\ \A i \in 1..(Len(s) - 1) : Tail(s)[i] = s[i + 1]
<1>1. s \in Seq(Range(s))
  BY DEF IsSeq
<1>2. Tail(s) \in Seq(Range(s)) /\ Head(s) \in Range(s)
  BY <1>1
<1>3. IsSeq(Tail(s)) /\ Range(Tail(s)) \subseteq Range(s)
  BY <1>2, SeqWithin
<1>4. Head(s) = s[1] /\ Len(Tail(s)) = Len(s) - 1
  BY <1>1
<1>5. \A i \in 1..(Len(s) - 1) : Tail(s)[i] = s[i + 1]
  BY <1>1
<1> QED
  BY <1>2, <1>3, <1>4, <1>5

\* A sequence without values.
LEMMA EmptyByRange ==
  ASSUME NEW s, IsSeq(s)
  PROVE  s = << >> <=> \A x : x \notin Range(s)
<1>1. Len(s) \in Nat /\ DOMAIN s = 1..Len(s) /\ \A i \in 1..Len(s) : s[i] \in Range(s)
  BY SeqElim
<1>2. Len(s) = 0 => s = << >>
  BY DEF IsSeq
<1>3. (\A x : x \notin Range(s)) => Len(s) = 0
  <2> SUFFICES ASSUME Len(s) # 0 PROVE s[1] \in Range(s)
    OBVIOUS
  <2>1. 1 \in 1..Len(s)
    BY <1>1
  <2> QED
    BY <1>1, <2>1
<1> QED
  BY <1>2, <1>3, EmptyIsSeq

\* Two sequences with nothing in them.
LEMMA JoinIsEmpty ==
  ASSUME NEW p, NEW q, IsSeq(p), IsSeq(q)
  PROVE  IsSeq(p \o q) /\ (p \o q = << >> <=> p = << >> /\ q = << >>)
<1>1. IsSeq(p \o q) /\ \A x : x \in Range(p \o q) <=> x \in Range(p) \/ x \in Range(q)
  BY JoinIsSeq
<1> QED
  BY <1>1, EmptyByRange

\* The values of a sequence are the first one and those of the others.
LEMMA RangeOfTail ==
  ASSUME NEW s, IsSeq(s), s # << >>, NEW x \in Range(s)
  PROVE  x = Head(s) \/ x \in Range(Tail(s))
<1>1. PICK i \in 1..Len(s) : x = s[i]
  BY SeqElim DEF Range
<1>2. /\ Head(s) = s[1] /\ IsSeq(Tail(s)) /\ Len(Tail(s)) = Len(s) - 1 /\ Len(s) \in Nat
      /\ \A j \in 1..(Len(s) - 1) : Tail(s)[j] = s[j + 1]
  BY HeadTail, SeqElim
<1>3. CASE i = 1
  BY <1>1, <1>2, <1>3
<1>4. CASE i # 1
  <2>1. i - 1 \in 1..(Len(s) - 1) /\ i - 1 + 1 = i
    BY <1>1, <1>2, <1>4
  <2>2. Tail(s)[i - 1] = x
    BY <1>1, <1>2, <2>1
  <2>3. i - 1 \in DOMAIN Tail(s)
    BY <1>2, <2>1, SeqElim
  <2> QED
    BY <2>2, <2>3 DEF Range
<1> QED
  BY <1>3, <1>4

-----------------------------------------------------------------------------
(* FlattenSeq is a recursive function; this is what it computes.           *)

Unrolls(g, ss, n) == g = [i \in 1..n |-> IF i = 1 THEN ss[i] ELSE g[i-1] \o ss[i]]
Unrolled(ss) == {n \in Nat : \E g : Unrolls(g, ss, n)}

\* The function there has to be.
LEMMA UnrollsExist ==
  ASSUME NEW ss, NEW n \in Nat
  PROVE  \E g : Unrolls(g, ss, n)
<1>1. 0 \in Unrolled(ss)
  <2> DEFINE g == [i \in 1..0 |-> i]
  <2>1. g = [i \in 1..0 |-> IF i = 1 THEN ss[i] ELSE g[i-1] \o ss[i]]
    OBVIOUS
  <2>2. Unrolls(g, ss, 0)
    BY <2>1 DEF Unrolls
  <2> QED
    BY <2>2 DEF Unrolled
<1>2. ASSUME NEW m \in Unrolled(ss) PROVE m + 1 \in Unrolled(ss)
  <2>0. m \in Nat
    BY DEF Unrolled
  <2>1. PICK g : Unrolls(g, ss, m)
    BY DEF Unrolled
  <2> DEFINE last == IF m = 0 THEN ss[1] ELSE g[m] \o ss[m + 1]
             h == [i \in 1..(m + 1) |-> IF i = m + 1 THEN last ELSE g[i]]
  <2>2. ASSUME NEW i \in 1..(m + 1)
        PROVE  h[i] = IF i = 1 THEN ss[i] ELSE h[i-1] \o ss[i]
    <3>1. CASE i = m + 1 /\ m = 0
      BY <3>1
    <3>2. CASE i = m + 1 /\ m # 0
      <4>1. i # 1 /\ i - 1 = m /\ m \in 1..(m + 1) /\ m # m + 1
        BY <2>0, <3>2
      <4>2. h[m] = g[m] /\ h[i] = g[m] \o ss[m + 1]
        BY <3>2, <4>1
      <4> QED
        BY <3>2, <4>1, <4>2
    <3>3. CASE i # m + 1
      <4>1. i \in 1..m /\ h[i] = g[i]
        BY <2>0, <3>3
      <4>2. g[i] = IF i = 1 THEN ss[i] ELSE g[i-1] \o ss[i]
        BY <2>1, <4>1 DEF Unrolls
      <4>3. i # 1 => h[i-1] = g[i-1]
        BY <2>0, <4>1
      <4> QED
        BY <4>1, <4>2, <4>3
    <3> QED
      BY <3>1, <3>2, <3>3
  <2> HIDE DEF last
  <2>3. h = [i \in 1..(m + 1) |-> h[i]]
    OBVIOUS
  <2> HIDE DEF h
  <2>4. h = [i \in 1..(m + 1) |-> IF i = 1 THEN ss[i] ELSE h[i-1] \o ss[i]]
    BY <2>2, <2>3
  <2>5. Unrolls(h, ss, m + 1)
    BY <2>4 DEF Unrolls
  <2>6. m + 1 \in Nat
    BY <2>0
  <2> QED
    BY <2>5, <2>6 DEF Unrolled
<1>3. Unrolled(ss) \subseteq Nat
  BY DEF Unrolled
<1>4. n \in Unrolled(ss)
  BY <1>1, <1>2, <1>3, SetInduction
<1> QED
  BY <1>4 DEF Unrolled

\* The elements of a flattened sequence are those of its elements.
LEMMA FlattenIsSeq ==
  ASSUME NEW ss, IsSeq(ss), \A i \in DOMAIN ss : IsSeq(ss[i])
  PROVE  /\ IsSeq(FlattenSeq(ss))
         /\ \A x : x \in Range(FlattenSeq(ss)) <=> \E i \in DOMAIN ss : x \in Range(ss[i])
<1> DEFINE n == Len(ss)
           flat == CHOOSE g : Unrolls(g, ss, n)
<1>1. n \in Nat /\ DOMAIN ss = 1..n
  BY SeqElim
<1>2. CASE n = 0
  <2>1. ss = << >>
    BY <1>2 DEF IsSeq
  <2>2. FlattenSeq(ss) = << >>
    BY <1>2, <2>1 DEF FlattenSeq
  <2> QED
    BY <1>1, <1>2, <2>2, EmptyIsSeq
<1>3. CASE n # 0
  <2>1. FlattenSeq(ss) = flat[n]
    BY <1>3 DEF FlattenSeq, Unrolls
  <2>2. Unrolls(flat, ss, n)
    BY <1>1, UnrollsExist
  <2> HIDE DEF flat
  <2> DEFINE S == {i \in Nat : i \in 1..n =>
                     /\ IsSeq(flat[i])
                     /\ \A x : x \in Range(flat[i]) <=> \E j \in 1..i : x \in Range(ss[j])}
  <2>3. 0 \in S
    OBVIOUS
  <2>4. ASSUME NEW i \in S PROVE i + 1 \in S
    <3> SUFFICES ASSUME i + 1 \in 1..n
                 PROVE  /\ IsSeq(flat[i + 1])
                        /\ \A x : x \in Range(flat[i + 1]) <=> \E j \in 1..(i + 1) : x \in Range(ss[j])
      OBVIOUS
    <3>0. i \in Nat
      OBVIOUS
    <3>1. flat[i + 1] = IF i + 1 = 1 THEN ss[i + 1] ELSE flat[i] \o ss[i + 1]
      <4>1. flat[i + 1] = IF i + 1 = 1 THEN ss[i + 1] ELSE flat[(i + 1) - 1] \o ss[i + 1]
        BY <2>2 DEF Unrolls
      <4>2. (i + 1) - 1 = i
        OBVIOUS
      <4> QED
        BY <4>1, <4>2
    <3>2. i + 1 \in DOMAIN ss /\ IsSeq(ss[i + 1])
      BY <1>1
    <3>3. CASE i = 0
      <4>1. \A j \in 1..(i + 1) : j = i + 1
        BY <3>3
      <4>2. i + 1 \in 1..(i + 1)
        BY <3>0
      <4> QED
        BY <3>1, <3>2, <3>3, <4>1, <4>2
    <3>4. CASE i # 0
      <4>1. i \in 1..n
        BY <1>1, <3>4
      <4>2. /\ IsSeq(flat[i])
            /\ \A x : x \in Range(flat[i]) <=> \E j \in 1..i : x \in Range(ss[j])
        BY <4>1
      <4>3. flat[i + 1] = flat[i] \o ss[i + 1]
        <5>1. i + 1 # 1
          BY <3>0, <3>4
        <5> QED
          BY <3>1, <5>1
      <4>4. IsSeq(flat[i + 1]) /\ Range(flat[i + 1]) = Range(flat[i]) \cup Range(ss[i + 1])
        BY <3>2, <4>2, <4>3, JoinIsSeq
      <4>5. \A j : j \in 1..(i + 1) <=> j \in 1..i \/ j = i + 1
        BY <3>0
      <4> QED
        BY <4>2, <4>4, <4>5
    <3> QED
      BY <3>3, <3>4
  <2> HIDE DEF S
  <2>5. S \subseteq Nat
    BY DEF S
  <2>6. n \in S
    BY <1>1, <2>3, <2>4, <2>5, SetInduction
  <2>7. n \in 1..n
    BY <1>1, <1>3
  <2> QED
    BY <1>1, <2>1, <2>6, <2>7 DEF S
<1> QED
  BY <1>2, <1>3

\* The elements of a finite set in some order.
LEMMA SetToSeqIsSeq ==
  ASSUME NEW S, IsFiniteSet(S)
  PROVE  IsSeq(SetToSeq(S)) /\ Range(SetToSeq(S)) = S
<1> DEFINE n == Cardinality(S)
           f == SetToSeq(S)
<1>1. n \in Nat /\ Bijection(1..n, S) # {}
  BY FS_CardinalityType DEF ExistsBijection
<1>2. \E g \in [1..n -> S] : IsInjective(g)
  BY <1>1 DEF Bijection, Injection
<1>3. f \in [1..n -> S] /\ IsInjective(f)
  BY <1>2 DEF SetToSeq
<1> HIDE DEF f
<1>4. f \in Seq(S)
  BY <1>1, <1>3
<1>5. f \in Surjection(1..n, S)
  <2>1. f \in Injection(1..n, S)
    BY <1>3 DEF Injection
  <2>2. Cardinality(1..n) = n
    BY <1>1, FS_Interval
  <2> QED
    BY <2>1, <2>2, FS_Injection
<1>6. \A x \in S : x \in Range(f)
  BY <1>3, <1>5 DEF Surjection, Range
<1> QED
  BY <1>4, <1>6, SeqWithin DEF f

\* A flattened sequence is in every set of sequences that has the pieces, the
\* empty sequence, and with two sequences the one that joins them.
LEMMA FlattenIn ==
  ASSUME NEW P, << >> \in P, \A q, r \in P : q \o r \in P,
         NEW ss, IsSeq(ss), \A i \in DOMAIN ss : ss[i] \in P
  PROVE  FlattenSeq(ss) \in P
<1> DEFINE n == Len(ss)
           flat == CHOOSE g : Unrolls(g, ss, n)
<1>1. n \in Nat /\ DOMAIN ss = 1..n
  BY SeqElim
<1>2. CASE n = 0
  <2>1. ss = << >>
    BY <1>2 DEF IsSeq
  <2> QED
    BY <1>2, <2>1 DEF FlattenSeq
<1>3. CASE n # 0
  <2>1. FlattenSeq(ss) = flat[n]
    BY <1>3 DEF FlattenSeq, Unrolls
  <2>2. Unrolls(flat, ss, n)
    BY <1>1, UnrollsExist
  <2> HIDE DEF flat
  <2> DEFINE S == {i \in Nat : i \in 1..n => flat[i] \in P}
  <2>3. 0 \in S
    OBVIOUS
  <2>4. ASSUME NEW i \in S PROVE i + 1 \in S
    <3> SUFFICES ASSUME i + 1 \in 1..n PROVE flat[i + 1] \in P
      OBVIOUS
    <3>0. i \in Nat /\ (i + 1) - 1 = i
      OBVIOUS
    <3>1. flat[i + 1] = IF i + 1 = 1 THEN ss[i + 1] ELSE flat[(i + 1) - 1] \o ss[i + 1]
      BY <2>2 DEF Unrolls
    <3>2. ss[i + 1] \in P
      BY <1>1
    <3>3. CASE i = 0
      BY <3>1, <3>2, <3>3
    <3>4. CASE i # 0
      <4>1. i \in 1..n /\ i + 1 # 1
        BY <1>1, <3>0, <3>4
      <4>2. flat[i] \in P
        BY <4>1
      <4>3. flat[i + 1] = flat[i] \o ss[i + 1]
        BY <3>0, <3>1, <4>1
      <4> QED
        BY <3>2, <4>2, <4>3
    <3> QED
      BY <3>3, <3>4
  <2> HIDE DEF S
  <2>5. S \subseteq Nat
    BY DEF S
  <2>6. n \in S
    BY <1>1, <2>3, <2>4, <2>5, SetInduction
  <2>7. n \in 1..n
    BY <1>1, <1>3
  <2> QED
    BY <2>1, <2>6, <2>7 DEF S
<1> QED
  BY <1>2, <1>3

-----------------------------------------------------------------------------
(* What comes after what.                                                  *)

\* Whatever is of A is followed by something of B.
Follows(q, A, B) ==
  \A i \in DOMAIN q : q[i] \in A => \E j \in DOMAIN q : j > i /\ q[j] \in B

\* What follows the first value is in the rest, where all else follows too.
LEMMA FollowsTail ==
  ASSUME NEW q, IsSeq(q), q # << >>, NEW A, NEW B, Follows(q, A, B)
  PROVE  Follows(Tail(q), A, B) /\ (Head(q) \in A => Range(Tail(q)) \cap B # {})
<1> DEFINE n == Len(q)
<1>1. n \in Nat /\ DOMAIN q = 1..n /\ Head(q) = q[1]
  BY SeqElim, HeadTail
<1>2. /\ IsSeq(Tail(q)) /\ Len(Tail(q)) = n - 1
      /\ \A i \in 1..(n - 1) : Tail(q)[i] = q[i + 1]
  BY HeadTail
<1>3. DOMAIN Tail(q) = 1..(n - 1)
  BY <1>2, SeqElim
<1>4. n # 0
  BY DEF IsSeq
<1> HIDE DEF n
<1>5. ASSUME NEW i \in 1..n, q[i] \in A
      PROVE  \E j \in 1..(n - 1) : j > i - 1 /\ Tail(q)[j] \in B
  <2>1. PICK k \in 1..n : k > i /\ q[k] \in B
    BY <1>1, <1>5 DEF Follows
  <2>2. k - 1 \in 1..(n - 1) /\ k - 1 > i - 1 /\ (k - 1) + 1 = k
    BY <1>1, <2>1
  <2>3. Tail(q)[k - 1] = q[k]
    BY <1>2, <2>2
  <2> QED
    BY <2>1, <2>2, <2>3
<1>6. ASSUME NEW i \in DOMAIN Tail(q), Tail(q)[i] \in A
      PROVE  \E j \in DOMAIN Tail(q) : j > i /\ Tail(q)[j] \in B
  <2>1. i \in 1..(n - 1) /\ i + 1 \in 1..n /\ (i + 1) - 1 = i
    BY <1>1, <1>3
  <2>2. q[i + 1] \in A
    BY <1>2, <1>6, <2>1
  <2>3. \E j \in 1..(n - 1) : j > (i + 1) - 1 /\ Tail(q)[j] \in B
    BY <1>5, <2>1, <2>2
  <2> QED
    BY <1>3, <2>1, <2>3
<1>7. ASSUME Head(q) \in A PROVE Range(Tail(q)) \cap B # {}
  <2>1. 1 \in 1..n
    BY <1>1, <1>4
  <2>2. PICK j \in 1..(n - 1) : Tail(q)[j] \in B
    BY <1>1, <1>5, <1>7, <2>1
  <2>3. Tail(q)[j] \in Range(Tail(q))
    BY <1>3 DEF Range
  <2> QED
    BY <2>2, <2>3
<1> QED
  BY <1>6, <1>7 DEF Follows

\* Nothing has to follow what is not there.
LEMMA FollowsNone ==
  ASSUME NEW q, NEW A, NEW B, Range(q) \cap A = {}
  PROVE  Follows(q, A, B)
<1>1. \A i \in DOMAIN q : q[i] \in Range(q)
  BY DEF Range
<1> QED
  BY <1>1 DEF Follows

\* In what joins two sequences the second may have what follows in the first.
LEMMA FollowsJoin ==
  ASSUME NEW T, NEW q \in Seq(T), NEW r \in Seq(T), NEW A, NEW B,
         Follows(r, A, B), Follows(q, A, B) \/ Range(r) \cap B # {}
  PROVE  Follows(q \o r, A, B)
<1> DEFINE m == Len(q)
           n == Len(r)
           w == q \o r
<1>1. /\ w \in Seq(T) /\ Len(w) = m + n
      /\ \A i \in 1..m : w[i] = q[i]
      /\ \A i \in 1..n : w[i + m] = r[i]
  BY JoinAt
<1>2. m \in Nat /\ n \in Nat /\ DOMAIN q = 1..m /\ DOMAIN r = 1..n
  OBVIOUS
<1>3. DOMAIN w = 1..(m + n)
  BY <1>1, <1>2
<1> HIDE DEF m, n, w
<1>4. ASSUME NEW i \in 1..n, r[i] \in B PROVE i + m \in DOMAIN w /\ w[i + m] \in B /\ i + m > m
  BY <1>1, <1>2, <1>3, <1>4
<1>5. ASSUME NEW i \in DOMAIN w, w[i] \in A
      PROVE  \E j \in DOMAIN w : j > i /\ w[j] \in B
  <2>1. CASE i \in 1..m
    <3>1. CASE Follows(q, A, B)
      <4>1. q[i] \in A
        BY <1>1, <1>5, <2>1
      <4>2. PICK j \in 1..m : j > i /\ q[j] \in B
        BY <1>2, <2>1, <3>1, <4>1 DEF Follows
      <4>3. j \in DOMAIN w /\ w[j] = q[j]
        BY <1>1, <1>2, <1>3
      <4> QED
        BY <4>2, <4>3
    <3>2. CASE Range(r) \cap B # {}
      <4>1. PICK j \in 1..n : r[j] \in B
        BY <1>2, <3>2 DEF Range
      <4>2. j + m \in DOMAIN w /\ w[j + m] \in B /\ j + m > m
        BY <1>4, <4>1
      <4>3. j + m > i
        BY <1>2, <2>1, <4>1
      <4> QED
        BY <4>2, <4>3
    <3> QED
      BY <3>1, <3>2
  <2>2. CASE i \notin 1..m
    <3>1. i - m \in 1..n /\ (i - m) + m = i
      BY <1>2, <1>3, <2>2
    <3>2. r[i - m] \in A
      BY <1>1, <1>5, <3>1
    <3>3. PICK j \in 1..n : j > i - m /\ r[j] \in B
      BY <1>2, <3>1, <3>2 DEF Follows
    <3>4. j + m \in DOMAIN w /\ w[j + m] \in B
      BY <1>4, <3>3
    <3>5. j + m > i
      BY <1>2, <1>3, <3>3
    <3> QED
      BY <3>4, <3>5
  <2> QED
    BY <2>1, <2>2
<1> QED
  BY <1>5 DEF Follows, w

-----------------------------------------------------------------------------
(* In what order.                                                          *)

\* Whatever comes before something in q, the two of them are a pair of W.
Ordered(q, W) == \A i, j \in DOMAIN q : i < j => << q[i], q[j] >> \in W

\* The first one comes before all others, and they stay in order.
LEMMA OrderedTail ==
  ASSUME NEW q, IsSeq(q), q # << >>, NEW W, Ordered(q, W)
  PROVE  Ordered(Tail(q), W) /\ \A x \in Range(Tail(q)) : << Head(q), x >> \in W
<1> DEFINE n == Len(q)
<1>1. n \in Nat /\ DOMAIN q = 1..n /\ Head(q) = q[1]
  BY SeqElim, HeadTail
<1>2. /\ IsSeq(Tail(q)) /\ Len(Tail(q)) = n - 1
      /\ \A i \in 1..(n - 1) : Tail(q)[i] = q[i + 1]
  BY HeadTail
<1>3. DOMAIN Tail(q) = 1..(n - 1)
  BY <1>2, SeqElim
<1> HIDE DEF n
<1>4. ASSUME NEW i \in DOMAIN Tail(q), NEW j \in DOMAIN Tail(q), i < j
      PROVE  << Tail(q)[i], Tail(q)[j] >> \in W
  <2>1. i + 1 \in DOMAIN q /\ j + 1 \in DOMAIN q /\ i + 1 < j + 1
    BY <1>1, <1>3, <1>4
  <2>2. << q[i + 1], q[j + 1] >> \in W
    BY <2>1 DEF Ordered
  <2> QED
    BY <1>2, <1>3, <2>2
<1>5. ASSUME NEW x \in Range(Tail(q)) PROVE << Head(q), x >> \in W
  <2>1. PICK i \in 1..(n - 1) : x = Tail(q)[i]
    BY <1>3 DEF Range
  <2>2. 1 \in DOMAIN q /\ i + 1 \in DOMAIN q /\ 1 < i + 1
    BY <1>1, <2>1
  <2>3. << q[1], q[i + 1] >> \in W
    BY <2>2 DEF Ordered
  <2> QED
    BY <1>1, <1>2, <2>1, <2>3
<1> QED
  BY <1>4, <1>5 DEF Ordered

\* What joins two sequences in order is in order if the first one as a whole may
\* come before the second.
LEMMA OrderedJoin ==
  ASSUME NEW p, IsSeq(p), NEW q, IsSeq(q), NEW W, Ordered(p, W), Ordered(q, W),
         \A x \in Range(p), y \in Range(q) : << x, y >> \in W
  PROVE  Ordered(p \o q, W)
<1> DEFINE T == Range(p) \cup Range(q)
           m == Len(p)
           n == Len(q)
           r == p \o q
<1>1. p \in Seq(T) /\ q \in Seq(T)
  BY SeqIn
<1>2. /\ m \in Nat /\ n \in Nat /\ DOMAIN p = 1..m /\ DOMAIN q = 1..n
      /\ (\A i \in 1..m : p[i] \in Range(p)) /\ (\A i \in 1..n : q[i] \in Range(q))
  BY SeqElim
<1>3. /\ r \in Seq(T) /\ Len(r) = m + n
      /\ \A i \in 1..m : r[i] = p[i]
      /\ \A i \in 1..n : r[i + m] = q[i]
  BY <1>1, JoinAt
<1>4. DOMAIN r = 1..(m + n)
  BY <1>2, <1>3
<1> HIDE DEF m, n, r, T
<1>5. ASSUME NEW i \in DOMAIN r, NEW j \in DOMAIN r, i < j PROVE << r[i], r[j] >> \in W
  <2>1. CASE j <= m
    <3>1. i \in 1..m /\ j \in 1..m
      BY <1>2, <1>4, <1>5, <2>1
    <3>2. << p[i], p[j] >> \in W
      BY <1>2, <1>5, <3>1 DEF Ordered
    <3> QED
      BY <1>3, <3>1, <3>2
  <2>2. CASE i <= m /\ ~(j <= m)
    <3>1. i \in 1..m /\ j - m \in 1..n /\ (j - m) + m = j
      BY <1>2, <1>4, <1>5, <2>2
    <3>2. r[i] = p[i] /\ r[j] = q[j - m]
      BY <1>3, <3>1
    <3> QED
      BY <1>2, <3>1, <3>2
  <2>3. CASE ~(i <= m)
    <3>1. i - m \in 1..n /\ j - m \in 1..n /\ i - m < j - m /\ (i - m) + m = i /\ (j - m) + m = j
      BY <1>2, <1>4, <1>5, <2>3
    <3>2. << q[i - m], q[j - m] >> \in W
      BY <1>2, <3>1 DEF Ordered
    <3>3. r[i] = q[i - m] /\ r[j] = q[j - m]
      BY <1>3, <3>1
    <3> QED
      BY <3>2, <3>3
  <2> QED
    BY <1>2, <1>4, <2>1, <2>2, <2>3
<1> QED
  BY <1>5 DEF Ordered, r

\* One, or none, is in order.
LEMMA OrderedUnit ==
  ASSUME NEW x, NEW W
  PROVE  Ordered(<< x >>, W) /\ Ordered(<< >>, W)
  BY DEF Ordered

\* And so for what is flattened.
LEMMA OrderedFlatten ==
  ASSUME NEW ss, IsSeq(ss), \A i \in DOMAIN ss : IsSeq(ss[i]), NEW W,
         \A i \in DOMAIN ss : Ordered(ss[i], W),
         \A i, j \in DOMAIN ss : i < j => \A x \in Range(ss[i]), y \in Range(ss[j]) : << x, y >> \in W
  PROVE  Ordered(FlattenSeq(ss), W)
<1> DEFINE n == Len(ss)
           flat == CHOOSE g : Unrolls(g, ss, n)
<1>1. n \in Nat /\ DOMAIN ss = 1..n
  BY SeqElim
<1>2. CASE n = 0
  <2>1. ss = << >>
    BY <1>2 DEF IsSeq
  <2>2. FlattenSeq(ss) = << >>
    BY <1>2, <2>1 DEF FlattenSeq
  <2> QED
    BY <2>2, OrderedUnit
<1>3. CASE n # 0
  <2>1. FlattenSeq(ss) = flat[n]
    BY <1>3 DEF FlattenSeq, Unrolls
  <2>2. Unrolls(flat, ss, n)
    BY <1>1, UnrollsExist
  <2> HIDE DEF flat
  <2> DEFINE S == {i \in Nat : i \in 1..n =>
                     /\ IsSeq(flat[i]) /\ Ordered(flat[i], W)
                     /\ \A x \in Range(flat[i]) : \E j \in 1..i : x \in Range(ss[j])}
  <2>3. 0 \in S
    OBVIOUS
  <2>4. ASSUME NEW i \in S PROVE i + 1 \in S
    <3> SUFFICES ASSUME i + 1 \in 1..n
                 PROVE  /\ IsSeq(flat[i + 1]) /\ Ordered(flat[i + 1], W)
                        /\ \A x \in Range(flat[i + 1]) : \E j \in 1..(i + 1) : x \in Range(ss[j])
      OBVIOUS
    <3>0. i \in Nat
      OBVIOUS
    <3>1. flat[i + 1] = IF i + 1 = 1 THEN ss[i + 1] ELSE flat[i] \o ss[i + 1]
      <4>1. flat[i + 1] = IF i + 1 = 1 THEN ss[i + 1] ELSE flat[(i + 1) - 1] \o ss[i + 1]
        BY <2>2 DEF Unrolls
      <4>2. (i + 1) - 1 = i
        OBVIOUS
      <4> QED
        BY <4>1, <4>2
    <3>2. i + 1 \in DOMAIN ss /\ IsSeq(ss[i + 1]) /\ Ordered(ss[i + 1], W)
      BY <1>1
    <3>3. CASE i = 0
      <4>1. i + 1 \in 1..(i + 1) /\ flat[i + 1] = ss[i + 1]
        BY <3>0, <3>1, <3>3
      <4> QED
        BY <3>2, <4>1
    <3>4. CASE i # 0
      <4>1. i \in 1..n
        BY <1>1, <3>4
      <4>2. /\ IsSeq(flat[i]) /\ Ordered(flat[i], W)
            /\ \A x \in Range(flat[i]) : \E j \in 1..i : x \in Range(ss[j])
        BY <4>1
      <4>3. flat[i + 1] = flat[i] \o ss[i + 1]
        <5>1. i + 1 # 1
          BY <3>0, <3>4
        <5> QED
          BY <3>1, <5>1
      <4>4. IsSeq(flat[i + 1]) /\ Range(flat[i + 1]) = Range(flat[i]) \cup Range(ss[i + 1])
        BY <3>2, <4>2, <4>3, JoinIsSeq
      <4>5. \A j : j \in 1..(i + 1) <=> j \in 1..i \/ j = i + 1
        BY <3>0
      <4>6. ASSUME NEW x \in Range(flat[i]), NEW y \in Range(ss[i + 1]) PROVE << x, y >> \in W
        <5>1. PICK j \in 1..i : x \in Range(ss[j])
          BY <4>2
        <5>2. j \in DOMAIN ss /\ j < i + 1
          BY <1>1, <4>1, <5>1
        <5> QED
          BY <3>2, <5>1, <5>2
      <4>7. Ordered(flat[i] \o ss[i + 1], W)
        BY <3>2, <4>2, <4>6, OrderedJoin
      <4> QED
        BY <4>2, <4>3, <4>4, <4>5, <4>7
    <3> QED
      BY <3>3, <3>4
  <2> HIDE DEF S
  <2>5. S \subseteq Nat
    BY DEF S
  <2>6. n \in S
    BY <1>1, <2>3, <2>4, <2>5, SetInduction
  <2>7. n \in 1..n
    BY <1>1, <1>3
  <2> QED
    BY <1>1, <2>1, <2>6, <2>7 DEF S
<1> QED
  BY <1>2, <1>3

\* The elements of a finite set come in their order only once.
LEMMA SetToSeqIsApart ==
  ASSUME NEW S, IsFiniteSet(S), NEW i \in DOMAIN SetToSeq(S), NEW j \in DOMAIN SetToSeq(S),
         SetToSeq(S)[i] = SetToSeq(S)[j]
  PROVE  i = j
<1> DEFINE n == Cardinality(S)
<1>1. n \in Nat /\ Bijection(1..n, S) # {}
  BY FS_CardinalityType DEF ExistsBijection
<1>2. \E g \in [1..n -> S] : IsInjective(g)
  BY <1>1 DEF Bijection, Injection
<1>3. SetToSeq(S) \in [1..n -> S] /\ IsInjective(SetToSeq(S))
  BY <1>2 DEF SetToSeq
<1> QED
  BY <1>3 DEF IsInjective

-----------------------------------------------------------------------------
(* Positions in order.                                                     *)

\* What increases from position to position is never behind it.
LEMMA IncreasesFast ==
  ASSUME NEW n \in Nat, NEW f, \A i \in 1..n : f[i] \in Nat \ {0},
         \A i, j \in 1..n : i < j => f[i] < f[j]
  PROVE  \A i \in 1..n : i <= f[i]
<1> DEFINE S == {k \in Nat : k \in 1..n => k <= f[k]}
<1>1. 0 \in S
  OBVIOUS
<1>2. ASSUME NEW k \in S PROVE k + 1 \in S
  <2>1. ASSUME k + 1 \in 1..n PROVE k + 1 <= f[k + 1]
    <3>1. k \in Nat /\ f[k + 1] \in Nat \ {0}
      BY <2>1
    <3>2. CASE k = 0
      BY <3>1, <3>2
    <3>3. CASE k # 0
      <4>1. k \in 1..n /\ k < k + 1
        BY <2>1, <3>1, <3>3
      <4>2. k <= f[k] /\ f[k] < f[k + 1] /\ f[k] \in Nat
        BY <2>1, <4>1
      <4> QED
        BY <3>1, <4>2
    <3> QED
      BY <3>2, <3>3
  <2> QED
    BY <2>1
<1> HIDE DEF S
<1>3. \A k \in Nat : k \in S
  BY <1>1, <1>2, SetInduction DEF S
<1>4. ASSUME NEW i \in 1..n PROVE i <= f[i]
  <2>1. i \in Nat
    OBVIOUS
  <2>2. i \in S
    BY <1>3, <2>1
  <2> QED
    BY <2>2 DEF S
<1> QED
  BY <1>4

Increases(f, n) == \A i, j \in 1..n : i < j => f[i] < f[j]
Matches(f, g, n, m) ==
  (\A i \in 1..n : f[i] \in 1..m) /\ \A k \in 1..m : g[k] \in 1..n /\ f[g[k]] = k

\* Positions that increase and leave none out are the positions themselves.
LEMMA IncreasesOnto ==
  ASSUME NEW n \in Nat, NEW m \in Nat, NEW f, NEW g, Matches(f, g, n, m), Increases(f, n)
  PROVE  n = m /\ \A i \in 1..n : f[i] = i
<1>6. /\ \A i \in 1..n : f[i] \in 1..m
      /\ \A k \in 1..m : g[k] \in 1..n /\ f[g[k]] = k
      /\ \A i, j \in 1..n : i < j => f[i] < f[j]
  BY DEF Matches, Increases
<1>1. ASSUME NEW k \in 1..m, NEW l \in 1..m, k < l PROVE g[k] < g[l]
  <2>1. g[k] \in 1..n /\ g[l] \in 1..n /\ f[g[k]] = k /\ f[g[l]] = l
    BY <1>6
  <2>2. g[l] < g[k] => l < k
    BY <1>6, <2>1
  <2>3. g[l] = g[k] => l = k
    BY <2>1
  <2> QED
    BY <1>1, <2>1, <2>2, <2>3
<1>2. \A i \in 1..n : i <= f[i]
  <2>1. \A i \in 1..n : f[i] \in Nat \ {0}
    BY <1>6
  <2> QED
    BY <1>6, <2>1, IncreasesFast
<1>3. \A k \in 1..m : k <= g[k]
  <2>1. \A k \in 1..m : g[k] \in Nat \ {0}
    BY <1>6
  <2> QED
    BY <1>1, <2>1, IncreasesFast
<1>4. ASSUME NEW k \in 1..m PROVE g[k] = k /\ k \in 1..n /\ f[k] = k
  <2>1. g[k] \in 1..n /\ f[g[k]] = k /\ k <= g[k]
    BY <1>3, <1>6
  <2>2. g[k] <= f[g[k]]
    BY <1>2, <2>1
  <2>3. g[k] = k
    BY <2>1, <2>2
  <2> QED
    BY <2>1, <2>3
<1>5. n = m
  <2>1. n <= m
    <3>1. CASE n = 0
      BY <3>1
    <3>2. CASE n # 0
      <4>1. n \in 1..n
        BY <3>2
      <4>2. n <= f[n] /\ f[n] \in 1..m
        BY <1>2, <1>6, <4>1
      <4> QED
        BY <4>2
    <3> QED
      BY <3>1, <3>2
  <2>2. m <= n
    <3>1. CASE m = 0
      BY <3>1
    <3>2. CASE m # 0
      <4>1. m \in 1..m
        BY <3>2
      <4>2. m \in 1..n
        BY <1>4, <4>1
      <4> QED
        BY <4>2
    <3> QED
      BY <3>1, <3>2
  <2> QED
    BY <2>1, <2>2
<1> QED
  BY <1>4, <1>5

\* How many of a set there are up to each of them: the first one, the second one and
\* so on.
Rank(R, i) == Cardinality({j \in R : j <= i})

\* Ranks are the numbers up to the size of the set, one each, in the order of the set.
LEMMA RanksAre ==
  ASSUME NEW R, R \subseteq Nat, IsFiniteSet(R)
  PROVE  /\ Cardinality(R) \in Nat
         /\ \A i \in R : Rank(R, i) \in 1..Cardinality(R)
         /\ \A i, j \in R : i < j => Rank(R, i) < Rank(R, j)
         /\ \A m \in 1..Cardinality(R) : \E i \in R : Rank(R, i) = m
<1> DEFINE n == Cardinality(R)
           Upto(i) == {j \in R : j <= i}
           f == [i \in R |-> Rank(R, i)]
<1>1. n \in Nat
  BY FS_CardinalityType
<1>2. ASSUME NEW i \in R
      PROVE  IsFiniteSet(Upto(i)) /\ Cardinality(Upto(i)) \in 1..n
  <2>1. Upto(i) \in SUBSET R
    OBVIOUS
  <2>2. IsFiniteSet(Upto(i)) /\ Cardinality(Upto(i)) <= n
    BY <2>1, FS_Subset
  <2>3. i \in Nat
    OBVIOUS
  <2>4. i \in Upto(i)
    BY <2>3
  <2>5. Cardinality(Upto(i)) \in Nat /\ Cardinality(Upto(i)) # 0
    BY <2>2, <2>4, FS_CardinalityType, FS_EmptySet
  <2> HIDE DEF Upto, n
  <2> QED
    BY <1>1, <2>2, <2>5 DEF n
<1>3. ASSUME NEW i \in R, NEW j \in R, i < j PROVE Cardinality(Upto(i)) < Cardinality(Upto(j))
  <2>1. i \in Nat /\ j \in Nat
    OBVIOUS
  <2>2. Upto(i) \in SUBSET Upto(j)
    <3>1. ASSUME NEW k \in R, k <= i PROVE k <= j
      <4>1. k \in Nat
        OBVIOUS
      <4> QED
        BY <1>3, <2>1, <3>1, <4>1
    <3> QED
      BY <3>1
  <2>3. j \in Upto(j) /\ j \notin Upto(i)
    BY <1>3, <2>1
  <2> HIDE DEF Upto
  <2>4. /\ Cardinality(Upto(i)) <= Cardinality(Upto(j))
        /\ Cardinality(Upto(j)) = Cardinality(Upto(i)) => Upto(j) = Upto(i)
    BY <1>2, <2>2, FS_Subset
  <2>5. Cardinality(Upto(i)) \in Nat /\ Cardinality(Upto(j)) \in Nat
    BY <1>2, FS_CardinalityType
  <2> QED
    BY <2>3, <2>4, <2>5
<1>4. \A i \in R : Rank(R, i) = Cardinality(Upto(i))
  BY DEF Rank
<1> HIDE DEF Upto, n
<1>5. \A i \in R : Rank(R, i) \in 1..n
  BY <1>2, <1>4
<1>6. ASSUME NEW i \in R, NEW j \in R, i < j PROVE Rank(R, i) < Rank(R, j)
  BY <1>3, <1>4, <1>6
<1>7. \A i \in R : f[i] = Rank(R, i)
  OBVIOUS
<1>8. f \in [R -> 1..n]
  BY <1>5
<1> HIDE DEF f
<1>9. ASSUME NEW i \in R, NEW j \in R, f[i] = f[j] PROVE i = j
  <2>1. i \in Nat /\ j \in Nat /\ f[i] \in 1..n /\ f[j] \in 1..n
    BY <1>8
  <2>2. ~(i < j) /\ ~(j < i)
    BY <1>1, <1>6, <1>7, <1>9, <2>1
  <2> QED
    BY <2>1, <2>2
<1>10. f \in Injection(R, 1..n)
  BY <1>8, <1>9 DEF Injection, IsInjective
<1>11. IsFiniteSet(1..n) /\ Cardinality(1..n) = n
  <2>1. n >= 1 \/ n = 0
    BY <1>1
  <2> QED
    BY <1>1, <2>1, FS_Interval
<1>12. f \in Surjection(R, 1..n)
  BY <1>10, <1>11, FS_Injection DEF n
<1>13. \A m \in 1..n : \E i \in R : f[i] = m
  BY <1>12 DEF Surjection
<1> QED
  BY <1>1, <1>5, <1>6, <1>7, <1>13 DEF n

=============================================================================
