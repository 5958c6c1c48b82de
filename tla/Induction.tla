----------------------------- MODULE Induction ------------------------------
(***************************************************************************)
(* Induction over the natural numbers, and the existence of functions      *)
(* defined by it, in a form without operator parameters: what is to be     *)
(* shown of a number is given as the set of the numbers it holds of.       *)
(***************************************************************************)
EXTENDS Integers, FiniteSetTheorems, SequenceTheorems, WellFoundedInduction, TLAPS

\* A nonempty set of natural numbers has a least element.  The order of the numbers is
\* that of their initial segments, finite sets ordered by strict inclusion.
LEMMA LeastNat ==
  ASSUME NEW T \in SUBSET Nat, T # {}
  PROVE  \E m \in T : \A k \in T : m <= k
<1> DEFINE U == {0..m : m \in T}
<1>1. U \subseteq FiniteSubsetsOf(Nat) /\ U # {}
  <2>1. \A m \in T : 0..m \in SUBSET Nat /\ IsFiniteSet(0..m)  BY FS_Interval
  <2> QED  BY <2>1 DEF FiniteSubsetsOf
<1>2. IsWellFoundedOn(StrictSubsetOrdering(Nat), FiniteSubsetsOf(Nat))
  BY FS_StrictSubsetOrderingWellFounded
<1>3. \E x \in U : \A y \in U : ~(<<y, x>> \in StrictSubsetOrdering(Nat))
  <2> HIDE DEF U
  <2> QED  BY <1>1, <1>2, WFMin
<1>4. PICK m \in T : \A k \in T : ~(<<0..k, 0..m>> \in StrictSubsetOrdering(Nat))
  BY <1>3
<1>5. ASSUME NEW k \in T, k < m PROVE FALSE
  <2>1. m \in 0..m /\ m \notin 0..k  BY <1>5
  <2>2. <<0..k, 0..m>> \in StrictSubsetOrdering(Nat)
    BY <1>5, <2>1 DEF StrictSubsetOrdering
  <2> QED  BY <1>4, <2>2
<1> QED  BY <1>4, <1>5

\* Induction up to n.
LEMMA UpTo ==
  ASSUME NEW n \in Nat, NEW T, 0 \in T, \A i \in 0..n-1 : i \in T => i + 1 \in T
  PROVE  0..n \subseteq T
<1> SUFFICES ASSUME ~(0..n \subseteq T) PROVE FALSE  OBVIOUS
<1> DEFINE B == {i \in 0..n : i \notin T}
<1>1. B \in SUBSET Nat /\ B # {}  OBVIOUS
<1>2. PICK m \in B : \A k \in B : m <= k  BY <1>1, LeastNat
<1>3. m - 1 \in 0..n-1 /\ (m - 1) + 1 = m  BY <1>2
<1>4. m - 1 \in T  BY <1>2, <1>3
<1> QED  BY <1>2, <1>3, <1>4

\* f begins with c and goes on, from number to number, by step.
Iterates(f, V, c, step, n) ==
  f \in [0..n -> V] /\ f[0] = c /\ \A i \in 1..n : f[i] = step[<<f[i-1], i>>]

\* What is defined by recursion over the numbers up to n exists.
LEMMA Recursion ==
  ASSUME NEW V, NEW n \in Nat, NEW c \in V, NEW step \in [V \X (1..n) -> V]
  PROVE  \E f : Iterates(f, V, c, step, n)
<1> DEFINE T == {m \in 0..n : \E f : Iterates(f, V, c, step, m)}
<1>1. 0 \in T
  <2> DEFINE f == [i \in 0..0 |-> c]
  <2>1. Iterates(f, V, c, step, 0)  BY DEF Iterates
  <2>2. 0 \in 0..n  OBVIOUS
  <2> HIDE DEF f
  <2> QED  BY <2>1, <2>2
<1>2. ASSUME NEW m \in 0..n-1, m \in T PROVE m + 1 \in T
  <2>1. PICK f : Iterates(f, V, c, step, m)  BY <1>2
  <2> DEFINE v == step[<<f[m], m + 1>>]
             g == [i \in 0..m+1 |-> IF i <= m THEN f[i] ELSE v]
  <2>2. v \in V
    <3>1. <<f[m], m + 1>> \in V \X (1..n)  BY <2>1 DEF Iterates
    <3> QED  BY <3>1
  <2>3. g \in [0..m+1 -> V] /\ g[0] = c  BY <2>1, <2>2 DEF Iterates
  <2>4. ASSUME NEW i \in 1..m+1 PROVE g[i] = step[<<g[i-1], i>>]
    <3>1. CASE i <= m  BY <2>1, <3>1 DEF Iterates
    <3>2. CASE i = m + 1  BY <3>2, SMTT(30)
    <3> QED  BY <3>1, <3>2
  <2>5. Iterates(g, V, c, step, m + 1)  BY <2>3, <2>4 DEF Iterates
  <2> HIDE DEF g
  <2> QED  BY <2>5
<1>3. n \in T
  <2> HIDE DEF T
  <2>1. 0..n \subseteq T  BY <1>1, <1>2, UpTo
  <2> QED  BY <2>1
<1> QED  BY <1>3

\* Induction over sequences: what holds of the empty one and goes on to one more element.
LEMMA SeqInduction ==
  ASSUME NEW D, NEW T, << >> \in T,
         \A s \in Seq(D), d \in D : s \in T => Append(s, d) \in T
  PROVE  Seq(D) \subseteq T
<1> SUFFICES ASSUME NEW t \in Seq(D) PROVE t \in T  OBVIOUS
<1> DEFINE S == {i \in 0..Len(t) : SubSeq(t, 1, i) \in T}
<1>1. 0 \in S
  <2>1. SubSeq(t, 1, 0) = << >>  BY SubSeqEmpty
  <2>2. Len(t) \in Nat  BY LenProperties
  <2>3. SubSeq(t, 1, 0) \in T  BY <2>1
  <2> QED  BY <2>2, <2>3
<1>2. ASSUME NEW i \in 0..Len(t)-1, i \in S PROVE i + 1 \in S
  <2>1. Len(t) \in Nat /\ i + 1 \in 1..Len(t) /\ i \in 0..Len(t) /\ i \in Int  BY LenProperties
  <2>2. t[i+1] \in D  BY <2>1, ElementOfSeq
  <2>3. SubSeq(t, 1, i) \in Seq(D)
    <3>1. \A j \in 1..i : t[j] \in D  BY <2>1, ElementOfSeq
    <3> QED  BY <2>1, <3>1, SubSeqProperties
  <2>4. SubSeq(t, 1, i + 1) = SubSeq(t, 1, i) \o <<t[i+1]>>
    <3>1. SubSeq(t, 1, i+1) = SubSeq(t, 1, (i+1)-1) \o <<t[i+1]>>
      BY <2>1, SubSeqRecursiveSecond
    <3>2. (i+1)-1 = i  BY <2>1
    <3> QED  BY <3>1, <3>2
  <2>5. SubSeq(t, 1, i + 1) = Append(SubSeq(t, 1, i), t[i+1])  BY <2>2, <2>3, <2>4, AppendIsConcat
  <2>6. SubSeq(t, 1, i) \in T  BY <1>2
  <2>7. SubSeq(t, 1, i + 1) \in T  BY <2>2, <2>3, <2>5, <2>6, Zenon
  <2>8. i + 1 \in 0..Len(t)  BY <2>1
  <2> QED  BY <2>7, <2>8
<1>3. 0..Len(t) \subseteq S
  <2> HIDE DEF S
  <2> QED  BY <1>1, <1>2, UpTo, LenProperties
<1>4. SubSeq(t, 1, Len(t)) \in T
  <2>1. Len(t) \in 0..Len(t)  BY LenProperties
  <2> QED  BY <1>3, <2>1
<1> QED  BY <1>4, SubSeqFull
=============================================================================
