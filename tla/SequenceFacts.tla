--------------------------- MODULE SequenceFacts ---------------------------
(***************************************************************************)
(* What the operations of queues, sockets and call stacks do to the        *)
(* elements of a sequence: the lemmas that the proofs of the components    *)
(* share.                                                                  *)
(***************************************************************************)
EXTENDS Integers, Sequences, SequencesExt, FiniteSetTheorems, WellFoundedInduction, TLAPS

(* An empty sequence holds nothing. *)
LEMMA EmptyFact == ToSet(<<>>) = {} /\ IsInjective(<<>>)
BY DEF ToSet, IsInjective

(* A send puts one element behind the others. *)
LEMMA AppendFact ==
  ASSUME NEW S, NEW s \in Seq(S), NEW x \in S
  PROVE  /\ Append(s, x) \in Seq(S) /\ Len(Append(s, x)) = Len(s) + 1
         /\ ToSet(Append(s, x)) = ToSet(s) \cup {x}
         /\ IsInjective(s) /\ x \notin ToSet(s) => IsInjective(Append(s, x))
<1>1. /\ Append(s, x) \in Seq(S) /\ Len(Append(s, x)) = Len(s) + 1
      /\ DOMAIN Append(s, x) = 1 .. Len(s) + 1
      /\ \A i \in 1 .. Len(s) : Append(s, x)[i] = s[i]
      /\ Append(s, x)[Len(s) + 1] = x
      /\ DOMAIN s = 1 .. Len(s) /\ Len(s) \in Nat
  OBVIOUS
<1>2. \A i \in DOMAIN Append(s, x) : i \in DOMAIN s \/ i = Len(s) + 1
  BY <1>1
<1>3. \A i \in DOMAIN s : i \in DOMAIN Append(s, x) /\ i # Len(s) + 1
  BY <1>1
<1>4. Len(s) + 1 \in DOMAIN Append(s, x)
  BY <1>1
<1> HIDE <1>1
<1>5. /\ \A i \in DOMAIN s : Append(s, x)[i] = s[i]
      /\ Append(s, x)[Len(s) + 1] = x
  BY <1>1
<1>6. ToSet(Append(s, x)) = ToSet(s) \cup {x}
  BY <1>2, <1>3, <1>4, <1>5 DEF ToSet
<1>7. IsInjective(s) /\ x \notin ToSet(s) => IsInjective(Append(s, x))
  BY <1>2, <1>5 DEF ToSet, IsInjective
<1> QED BY <1>1, <1>6, <1>7

(* A receive takes the first element away. *)
LEMMA TailFact ==
  ASSUME NEW S, NEW s \in Seq(S), s # <<>>
  PROVE  /\ Head(s) \in S /\ Head(s) \in ToSet(s)
         /\ Tail(s) \in Seq(S) /\ Len(Tail(s)) < Len(s)
         /\ ToSet(s) = ToSet(Tail(s)) \cup {Head(s)}
         /\ IsInjective(s) => IsInjective(Tail(s)) /\ Head(s) \notin ToSet(Tail(s))
<1>1. /\ Len(s) \in Nat /\ Len(s) > 0 /\ DOMAIN s = 1 .. Len(s)
      /\ Head(s) = s[1] /\ Head(s) \in S
      /\ Tail(s) \in Seq(S) /\ Len(Tail(s)) = Len(s) - 1
      /\ DOMAIN Tail(s) = 1 .. Len(s) - 1
      /\ \A i \in 1 .. Len(s) - 1 : Tail(s)[i] = s[i + 1]
  OBVIOUS
<1>2. 1 \in DOMAIN s
  BY <1>1
<1>3. \A i \in DOMAIN Tail(s) : i + 1 \in DOMAIN s /\ i + 1 # 1 /\ Tail(s)[i] = s[i + 1]
  BY <1>1
<1>4. \A i \in DOMAIN s : i # 1 => i - 1 \in DOMAIN Tail(s) /\ Tail(s)[i - 1] = s[i]
  BY <1>1
<1>5. \A i, j \in DOMAIN Tail(s) : i + 1 = j + 1 => i = j
  BY <1>1
<1>6. ToSet(s) = ToSet(Tail(s)) \cup {s[1]}
  <2>1. ASSUME NEW i \in DOMAIN s PROVE s[i] \in ToSet(Tail(s)) \cup {s[1]}
    BY <1>4, <2>1 DEF ToSet
  <2>2. ASSUME NEW i \in DOMAIN Tail(s) PROVE Tail(s)[i] \in ToSet(s)
    BY <1>3, <2>2 DEF ToSet
  <2>3. s[1] \in ToSet(s)
    BY <1>2 DEF ToSet
  <2>4. ToSet(Tail(s)) \subseteq ToSet(s)
    BY <2>2 DEF ToSet
  <2>5. ToSet(s) \subseteq ToSet(Tail(s)) \cup {s[1]}
    BY <2>1 DEF ToSet
  <2> QED BY <2>3, <2>4, <2>5
<1>7. IsInjective(s) => IsInjective(Tail(s)) /\ s[1] \notin ToSet(Tail(s))
  BY <1>2, <1>3, <1>5 DEF ToSet, IsInjective
<1> QED BY <1>1, <1>6, <1>7

(* What a sequence holds is of the type of its elements. *)
LEMMA ElementFact ==
  ASSUME NEW S, NEW s \in Seq(S)
  PROVE  ToSet(s) \subseteq S
BY DEF ToSet

(* A stack that is popped keeps all but its last element. *)
LEMMA FrontFact ==
  ASSUME NEW S, NEW s \in Seq(S), s # <<>>
  PROVE  /\ Last(s) \in S /\ Last(s) \in ToSet(s)
         /\ Front(s) \in Seq(S)
         /\ ToSet(s) = ToSet(Front(s)) \cup {Last(s)}
         /\ IsInjective(s) => IsInjective(Front(s)) /\ Last(s) \notin ToSet(Front(s))
<1>1. /\ Len(s) \in Nat /\ Len(s) > 0 /\ DOMAIN s = 1 .. Len(s)
      /\ Last(s) = s[Len(s)] /\ Last(s) \in S
      /\ Front(s) \in Seq(S) /\ DOMAIN Front(s) = 1 .. Len(s) - 1
      /\ \A i \in 1 .. Len(s) - 1 : Front(s)[i] = s[i]
  BY DEF Last, Front
<1>2. Len(s) \in DOMAIN s
  BY <1>1
<1>3. \A i \in DOMAIN Front(s) : i \in DOMAIN s /\ i # Len(s) /\ Front(s)[i] = s[i]
  BY <1>1
<1>4. \A i \in DOMAIN s : i # Len(s) => i \in DOMAIN Front(s) /\ Front(s)[i] = s[i]
  BY <1>1
<1>5. ToSet(s) = ToSet(Front(s)) \cup {s[Len(s)]}
  BY <1>2, <1>3, <1>4 DEF ToSet
<1>6. IsInjective(s) => IsInjective(Front(s)) /\ s[Len(s)] \notin ToSet(Front(s))
  BY <1>2, <1>3 DEF ToSet, IsInjective
<1> QED BY <1>1, <1>5, <1>6

-----------------------------------------------------------------------------
(* Induction, on sets instead of predicates *)

(* A set of numbers that is not empty has a least one. *)
LEMMA LeastFact ==
  ASSUME NEW T \in SUBSET Nat, T # {}
  PROVE  \E m \in T : \A k \in T : m <= k
<1>1. \E m \in T : \A k \in T : ~(<<k, m>> \in OpToRel(<, Nat))
  BY NatLessThanWellFounded, WFMin
<1>2. \A k, m \in Nat : k < m => <<k, m>> \in OpToRel(<, Nat)
  BY DEF OpToRel
<1>3. \A k, m \in Nat : ~(k < m) => m <= k
  OBVIOUS
<1> QED BY <1>1, <1>2, <1>3

(* What holds of 0, and of n + 1 if it holds of n, holds of every number. *)
LEMMA NatSetInduction ==
  ASSUME NEW P, 0 \in P, \A n \in Nat : n \in P => n + 1 \in P
  PROVE  Nat \subseteq P
<1> SUFFICES ASSUME Nat \ P # {} PROVE FALSE
  OBVIOUS
<1>1. PICK m \in Nat \ P : \A k \in Nat \ P : m <= k
  BY LeastFact
<1>2. m - 1 \in Nat /\ m - 1 < m /\ (m - 1) + 1 = m
  BY <1>1
<1>3. m - 1 \in P
  BY <1>1, <1>2
<1> QED BY <1>1, <1>2, <1>3

(* The same for the subsets of a finite set, one element less at a time. *)
LEMMA SubsetInduction ==
  ASSUME NEW S, IsFiniteSet(S), NEW P, {} \in P,
         \A T \in SUBSET S : T # {} /\ (\A x \in T : T \ {x} \in P) => T \in P
  PROVE  SUBSET S \subseteq P
<1> DEFINE Small == {n \in Nat : \A T \in SUBSET S : Cardinality(T) <= n => T \in P}
<1>1. \A T \in SUBSET S : /\ IsFiniteSet(T) /\ Cardinality(T) \in Nat
                          /\ Cardinality(T) = 0 => T = {}
  BY FS_Subset, FS_CardinalityType, FS_EmptySet
<1>2. 0 \in Small
  <2>1. \A k \in Nat : k <= 0 => k = 0
    OBVIOUS
  <2> QED BY <1>1, <2>1
<1>3. ASSUME NEW n \in Nat, n \in Small PROVE n + 1 \in Small
  <2> SUFFICES ASSUME NEW T \in SUBSET S, Cardinality(T) <= n + 1, T # {} PROVE T \in P
    <3>1. n + 1 \in Nat
      OBVIOUS
    <3> QED BY <3>1
  <2>1. ASSUME NEW x \in T PROVE T \ {x} \in P
    <3>1. IsFiniteSet(T) /\ Cardinality(T) \in Nat
      BY <1>1
    <3>2. Cardinality(T \ {x}) = Cardinality(T) - 1
      BY <3>1, FS_RemoveElement
    <3>3. Cardinality(T \ {x}) <= n
      BY <3>1, <3>2
    <3>4. T \ {x} \in SUBSET S
      OBVIOUS
    <3> QED BY <1>3, <3>3, <3>4
  <2> QED BY <2>1
<1>4. Nat \subseteq Small
  <2> HIDE DEF Small
  <2> QED BY <1>2, <1>3, NatSetInduction
<1>5. ASSUME NEW T \in SUBSET S PROVE T \in P
  <2>1. Cardinality(T) \in Nat
    BY <1>1
  <2>2. Cardinality(T) <= Cardinality(T)
    BY <2>1
  <2> QED BY <1>4, <2>1, <2>2
<1> QED BY <1>5

-----------------------------------------------------------------------------
(* Sequences of sequences, one behind the other *)

(* Two sequences, one behind the other. *)
LEMMA ConcatFact ==
  ASSUME NEW T, NEW s \in Seq(T), NEW t \in Seq(T)
  PROVE  /\ s \o t \in Seq(T) /\ Len(s \o t) = Len(s) + Len(t)
         /\ \A p \in 1 .. Len(s) : (s \o t)[p] = s[p]
         /\ \A p \in 1 .. Len(t) : (s \o t)[Len(s) + p] = t[p]
<1>1. /\ s \o t \in Seq(T) /\ Len(s \o t) = Len(s) + Len(t) /\ Len(s) \in Nat /\ Len(t) \in Nat
      /\ \A p \in 1 .. Len(s) + Len(t) :
           (s \o t)[p] = IF p <= Len(s) THEN s[p] ELSE t[p - Len(s)]
  OBVIOUS
<1>2. ASSUME NEW p \in 1 .. Len(s) PROVE (s \o t)[p] = s[p]
  BY <1>1
<1>3. ASSUME NEW p \in 1 .. Len(t) PROVE (s \o t)[Len(s) + p] = t[p]
  <2>1. Len(s) + p \in 1 .. Len(s) + Len(t) /\ ~(Len(s) + p <= Len(s)) /\ (Len(s) + p) - Len(s) = p
    BY <1>1
  <2> QED BY <1>1, <2>1
<1> QED BY <1>1, <1>2, <1>3

(* The recursion of FlattenSeq has a solution. *)
LEMMA FlattenExists ==
  ASSUME NEW ss, NEW n \in Nat
  PROVE  \E f : f = [i \in 1 .. n |-> IF i = 1 THEN ss[i] ELSE f[i - 1] \o ss[i]]
<1> DEFINE Step(f, m) == [i \in 1 .. m |-> IF i = 1 THEN ss[i] ELSE f[i - 1] \o ss[i]]
           P == {m \in Nat : \E f : f = Step(f, m)}
<1>1. 0 \in P
  <2>1. [i \in 1 .. 0 |-> 0] = Step([i \in 1 .. 0 |-> 0], 0)
    OBVIOUS
  <2> QED BY <2>1
<1>2. ASSUME NEW m \in Nat, m \in P PROVE m + 1 \in P
  <2>1. PICK f : f = Step(f, m)
    BY <1>2
  <2> DEFINE g == Step(f, m + 1)
  <2>2. \A i \in 1 .. m : i \in 1 .. m + 1
    OBVIOUS
  <2>3. \A i \in 1 .. m : g[i] = f[i]
    BY <2>1, <2>2
  <2>4. \A i \in 1 .. m + 1 : i # 1 => i - 1 \in 1 .. m
    OBVIOUS
  <2>5. g = Step(g, m + 1)
    BY <2>3, <2>4
  <2>6. m + 1 \in Nat
    OBVIOUS
  <2> QED BY <2>5, <2>6
<1>3. Nat \subseteq P
  <2> HIDE DEF P
  <2> QED BY <1>1, <1>2, NatSetInduction
<1> QED BY <1>3

(* Where the elements of each sequence are in the one they are joined to. *)
LEMMA FlattenFact ==
  ASSUME NEW T, NEW ss \in Seq(Seq(T))
  PROVE  /\ FlattenSeq(ss) \in Seq(T)
         /\ \E at \in [1 .. Len(ss) + 1 -> Nat] :
              /\ at[1] = 0 /\ at[Len(ss) + 1] = Len(FlattenSeq(ss))
              /\ \A i \in 1 .. Len(ss) :
                   /\ at[i + 1] = at[i] + Len(ss[i]) /\ at[i + 1] <= Len(FlattenSeq(ss))
                   /\ \A p \in 1 .. Len(ss[i]) : FlattenSeq(ss)[at[i] + p] = ss[i][p]
<1> DEFINE n == Len(ss)
<1>0. n \in Nat /\ \A i \in 1 .. n : ss[i] \in Seq(T) /\ Len(ss[i]) \in Nat
  OBVIOUS
<1>a. CASE n = 0
  <2>1. FlattenSeq(ss) = <<>>
    BY <1>a DEF FlattenSeq
  <2> DEFINE at == [i \in 1 .. n + 1 |-> 0]
  <2>2. at \in [1 .. n + 1 -> Nat] /\ at[1] = 0 /\ at[n + 1] = 0
    BY <1>a
  <2>3. ss = <<>> /\ <<>> \in Seq(T) /\ Len(<<>>) = 0
    BY <1>a
  <2>4. \A i \in 1 .. n : FALSE
    BY <1>a
  <2> HIDE DEF at, n
  <2>5. n = Len(ss)
    BY DEF n
  <2> QED BY <2>1, <2>2, <2>3, <2>4, <2>5
<1>b. CASE n # 0
  <2> DEFINE Step(g) == [i \in 1 .. n |-> IF i = 1 THEN ss[i] ELSE g[i - 1] \o ss[i]]
             f == CHOOSE g : g = Step(g)
  <2>1. f = Step(f)
    BY <1>0, FlattenExists
  <2>2. FlattenSeq(ss) = f[n]
    BY <1>b DEF FlattenSeq
  <2> HIDE DEF f
  <2>3. \A i \in 1 .. n : f[i] = IF i = 1 THEN ss[i] ELSE f[i - 1] \o ss[i]
    BY <2>1
  <2>4. \A i \in 1 .. n : f[i] \in Seq(T)
    <3> DEFINE P == {m \in Nat : m + 1 \in 1 .. n => f[m + 1] \in Seq(T)}
    <3>1. 0 \in P
      BY <1>0, <2>3
    <3>2. ASSUME NEW m \in Nat, m \in P PROVE m + 1 \in P
      <4> SUFFICES ASSUME (m + 1) + 1 \in 1 .. n PROVE f[(m + 1) + 1] \in Seq(T)
        OBVIOUS
      <4>1. m + 1 \in 1 .. n /\ (m + 1) + 1 # 1 /\ ((m + 1) + 1) - 1 = m + 1
        BY <1>0
      <4>2. f[(m + 1) + 1] = f[m + 1] \o ss[(m + 1) + 1]
        BY <2>3, <4>1
      <4> QED BY <1>0, <3>2, <4>1, <4>2
    <3>3. Nat \subseteq P
      <4> HIDE DEF P
      <4> QED BY <3>1, <3>2, NatSetInduction
    <3>4. \A i \in 1 .. n : i - 1 \in Nat /\ (i - 1) + 1 = i
      OBVIOUS
    <3> QED BY <3>3, <3>4
  <2>5. \A i \in 1 .. n - 1 : f[i + 1] = f[i] \o ss[i + 1]
    <3>1. \A i \in 1 .. n - 1 : i + 1 \in 1 .. n /\ i + 1 # 1 /\ (i + 1) - 1 = i
      BY <1>0
    <3> QED BY <2>3, <3>1
  <2>6. \A i \in 1 .. n : /\ Len(f[i]) <= Len(f[n])
                          /\ \A p \in 1 .. Len(f[i]) : f[n][p] = f[i][p]
    <3> SUFFICES ASSUME NEW i \in 1 .. n
                 PROVE  /\ Len(f[i]) <= Len(f[n])
                        /\ \A p \in 1 .. Len(f[i]) : f[n][p] = f[i][p]
      OBVIOUS
    <3> DEFINE P == {m \in Nat : i + m \in 1 .. n =>
                       /\ Len(f[i]) <= Len(f[i + m])
                       /\ \A p \in 1 .. Len(f[i]) : f[i + m][p] = f[i][p]}
    <3>1. 0 \in P
      BY <2>4
    <3>2. ASSUME NEW m \in Nat, m \in P PROVE m + 1 \in P
      <4> SUFFICES ASSUME i + (m + 1) \in 1 .. n
                   PROVE  /\ Len(f[i]) <= Len(f[i + (m + 1)])
                          /\ \A p \in 1 .. Len(f[i]) : f[i + (m + 1)][p] = f[i][p]
        OBVIOUS
      <4>1. i + m \in 1 .. n - 1 /\ i + m \in 1 .. n /\ i + (m + 1) = (i + m) + 1
        BY <1>0
      <4>2. f[i + (m + 1)] = f[i + m] \o ss[i + (m + 1)]
        BY <2>5, <4>1
      <4>3. f[i + m] \in Seq(T) /\ ss[i + (m + 1)] \in Seq(T) /\ f[i] \in Seq(T)
        BY <1>0, <2>4, <4>1
      <4>4. Len(f[i]) <= Len(f[i + m]) /\ \A p \in 1 .. Len(f[i]) : f[i + m][p] = f[i][p]
        BY <3>2, <4>1
      <4>5. /\ Len(f[i + (m + 1)]) >= Len(f[i + m])
            /\ \A p \in 1 .. Len(f[i + m]) : f[i + (m + 1)][p] = f[i + m][p]
        <5> DEFINE a == f[i + m]
                   b == ss[i + (m + 1)]
                   d == f[i + (m + 1)]
        <5>1. a \in Seq(T) /\ b \in Seq(T) /\ d = a \o b
          BY <4>2, <4>3
        <5> HIDE DEF a, b, d
        <5>2. Len(d) = Len(a) + Len(b) /\ \A p \in 1 .. Len(a) : d[p] = a[p]
          BY <5>1, ConcatFact
        <5>3. Len(a) \in Nat /\ Len(b) \in Nat
          BY <5>1
        <5>4. Len(d) >= Len(a)
          BY <5>2, <5>3
        <5> QED BY <5>2, <5>4 DEF a, d
      <4> QED BY <4>3, <4>4, <4>5
    <3>3. Nat \subseteq P
      <4> HIDE DEF P
      <4> QED BY <3>1, <3>2, NatSetInduction
    <3>4. n - i \in Nat /\ i + (n - i) = n /\ n \in 1 .. n
      BY <1>0
    <3> QED BY <3>3, <3>4
  <2> DEFINE at == [i \in 1 .. n + 1 |-> IF i = 1 THEN 0 ELSE Len(f[i - 1])]
  <2>7. /\ at \in [1 .. n + 1 -> Nat] /\ at[1] = 0 /\ at[n + 1] = Len(f[n])
        /\ \A i \in 1 .. n : at[i + 1] = Len(f[i])
        /\ \A i \in 2 .. n : at[i] = Len(f[i - 1])
    <3>1. \A i \in 1 .. n + 1 : i # 1 => i - 1 \in 1 .. n
      BY <1>0
    <3>2. \A i \in 1 .. n : Len(f[i]) \in Nat
      BY <2>4
    <3>3. \A i \in 1 .. n : i + 1 \in 1 .. n + 1 /\ i + 1 # 1 /\ (i + 1) - 1 = i
      BY <1>0
    <3>4. \A i \in 2 .. n : i \in 1 .. n + 1 /\ i # 1
      BY <1>0
    <3>5. 1 \in 1 .. n + 1 /\ n \in 1 .. n
      BY <1>0, <1>b
    <3>6. at \in [1 .. n + 1 -> Nat]
      BY <3>1, <3>2
    <3> QED BY <3>3, <3>4, <3>5, <3>6
  <2> HIDE DEF at
  <2>8. ASSUME NEW i \in 1 .. n
        PROVE  /\ at[i + 1] = at[i] + Len(ss[i]) /\ at[i + 1] <= Len(f[n])
               /\ \A p \in 1 .. Len(ss[i]) : f[n][at[i] + p] = ss[i][p]
    <3>1. CASE i = 1
      <4>1. f[i] = ss[i]
        BY <2>3, <3>1
      <4> QED BY <1>0, <2>6, <2>7, <3>1, <4>1
    <3>2. CASE i # 1
      <4>1. i - 1 \in 1 .. n /\ i \in 2 .. n
        BY <1>0, <3>2
      <4>2. f[i] = f[i - 1] \o ss[i] /\ at[i] = Len(f[i - 1]) /\ at[i + 1] = Len(f[i])
        BY <2>3, <2>7, <3>2, <4>1
      <4>3. f[i - 1] \in Seq(T) /\ ss[i] \in Seq(T) /\ f[i] \in Seq(T)
        BY <1>0, <2>4, <4>1
      <4>4. /\ Len(f[i]) = Len(f[i - 1]) + Len(ss[i])
            /\ \A p \in 1 .. Len(ss[i]) : /\ f[i][Len(f[i - 1]) + p] = ss[i][p]
                                          /\ Len(f[i - 1]) + p \in 1 .. Len(f[i])
        <5> DEFINE a == f[i - 1]
                   b == ss[i]
                   d == f[i]
        <5>1. a \in Seq(T) /\ b \in Seq(T) /\ d = a \o b
          BY <4>2, <4>3
        <5> HIDE DEF a, b, d
        <5>2. Len(d) = Len(a) + Len(b) /\ \A p \in 1 .. Len(b) : d[Len(a) + p] = b[p]
          BY <5>1, ConcatFact
        <5>3. Len(a) \in Nat /\ Len(b) \in Nat
          BY <5>1
        <5>4. \A p \in 1 .. Len(b) : Len(a) + p \in 1 .. Len(d)
          BY <5>2, <5>3
        <5> QED BY <5>2, <5>4 DEF a, b, d
      <4> QED BY <2>6, <4>2, <4>4
    <3> QED BY <3>1, <3>2
  <2>9. n \in 1 .. n
    BY <1>0, <1>b
  <2> QED BY <2>2, <2>4, <2>7, <2>8, <2>9
<1> QED BY <1>a, <1>b
=============================================================================
