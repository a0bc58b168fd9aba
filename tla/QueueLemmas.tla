------------------------------ MODULE QueueLemmas ------------------------------
(***************************************************************************)
(* What the proofs of several modules need to count the members of a set   *)
(* and to follow a queue in which nobody stands twice.                     *)
(***************************************************************************)
EXTENDS Integers, Sequences, Functions, FiniteSetTheorems, WellFoundedInduction, TLAPS

-----------------------------------------------------------------------------
(* Counting.                                                               *)

LEMMA SubsetCounted ==
    ASSUME NEW S, IsFiniteSet(S), NEW T \in SUBSET S
    PROVE  /\ IsFiniteSet(T) /\ Cardinality(T) \in Nat
           /\ Cardinality(T) <= Cardinality(S)
BY FS_Subset, FS_CardinalityType

LEMMA OneMore ==
    ASSUME NEW S, IsFiniteSet(S), NEW x
    PROVE  /\ x \notin S => Cardinality(S \cup {x}) = Cardinality(S) + 1
           /\ x \in S => Cardinality(S \ {x}) = Cardinality(S) - 1
           /\ Cardinality(S \cup {x}) <= Cardinality(S) + 1
<1>1. Cardinality(S) \in Nat
  BY FS_CardinalityType
<1>2. x \notin S => Cardinality(S \cup {x}) = Cardinality(S) + 1
  BY FS_AddElement
<1>3. x \in S => Cardinality(S \ {x}) = Cardinality(S) - 1
  BY FS_RemoveElement
<1>4. x \in S => S \cup {x} = S
  OBVIOUS
<1> QED
  BY <1>1, <1>2, <1>3, <1>4

LEMMA LeastOf ==
    ASSUME NEW T \in SUBSET Nat, T # {}
    PROVE  \E x \in T : \A y \in T : x <= y
<1> DEFINE R == OpToRel(<, Nat)
<1>1. IsWellFoundedOn(R, Nat)
  BY NatLessThanWellFounded
<1>2. \A x, y \in Nat : ~(<<y, x>> \in R) => x <= y
  BY DEF OpToRel
<1> HIDE DEF R
<1>3. PICK x \in T : \A y \in T : ~(<<y, x>> \in R)
  BY <1>1, WFMin
<1> QED
  BY <1>2, <1>3

LEMMA OneJoinsOrLeaves ==
    ASSUME NEW S, IsFiniteSet(S), NEW x
    PROVE  /\ Cardinality(S) \in Nat
           /\ x \notin S => Cardinality(S \cup {x}) = Cardinality(S) + 1
           /\ x \in S => Cardinality(S \ {x}) = Cardinality(S) - 1
           /\ x \in S => Cardinality(S) > 0
<1>1. Cardinality(S) \in Nat
  BY FS_CardinalityType
<1>2. x \notin S => Cardinality(S \cup {x}) = Cardinality(S) + 1
  BY OneMore
<1>3. x \in S => Cardinality(S \ {x}) = Cardinality(S) - 1
  BY OneMore
<1>4. x \in S => Cardinality(S) > 0
  <2>1. IsFiniteSet(S \ {x}) /\ Cardinality(S \ {x}) \in Nat
    BY SubsetCounted
  <2> QED
    BY <1>1, <1>3, <2>1
<1> QED
  BY <1>1, <1>2, <1>3, <1>4

LEMMA SwapKeepsCount ==
    ASSUME NEW S, IsFiniteSet(S), NEW x \in S, NEW y, y \notin S
    PROVE  Cardinality((S \ {x}) \cup {y}) = Cardinality(S)
<1>1. IsFiniteSet(S \ {x}) /\ y \notin S \ {x}
  BY SubsetCounted
<1> QED
  BY <1>1, OneJoinsOrLeaves

-----------------------------------------------------------------------------
(* Queues in which nobody stands twice.                                    *)

\* A queue without the entry at i.
Without(s, i) == SubSeq(s, 1, i - 1) \o SubSeq(s, i + 1, Len(s))

LEMMA WithoutIs ==
    ASSUME NEW S, NEW s \in Seq(S), NEW i \in 1..Len(s)
    PROVE  /\ Without(s, i) \in Seq(S) /\ Len(Without(s, i)) = Len(s) - 1
           /\ \A j \in 1..(Len(s) - 1) :
                Without(s, i)[j] = IF j < i THEN s[j] ELSE s[j + 1]
<1> DEFINE a == SubSeq(s, 1, i - 1)
           b == SubSeq(s, i + 1, Len(s))
<1>0. Len(s) \in Nat
  OBVIOUS
<1>1. a \in Seq(S) /\ Len(a) = i - 1 /\ \A j \in 1..(i - 1) : a[j] = s[j]
  BY <1>0
<1>2. b \in Seq(S) /\ Len(b) = Len(s) - i /\ \A j \in 1..(Len(s) - i) : b[j] = s[i + j]
  BY <1>0
<1>3. Without(s, i) = a \o b
  BY DEF Without
<1> HIDE DEF a, b
<1>4. a \o b \in Seq(S) /\ Len(a \o b) = Len(s) - 1
  <2>1. a \in Seq(S) /\ b \in Seq(S) /\ Len(a) = i - 1 /\ Len(b) = Len(s) - i
    BY <1>1, <1>2
  <2>2. a \o b \in Seq(S) /\ Len(a \o b) = Len(a) + Len(b)
    BY <2>1
  <2>3. i \in Int
    BY <1>0
  <2>4. (i - 1) + (Len(s) - i) = Len(s) - 1
    BY <1>0, <2>3
  <2> QED
    BY <2>1, <2>2, <2>4
<1>5. ASSUME NEW j \in 1..(Len(s) - 1)
      PROVE  (a \o b)[j] = IF j < i THEN s[j] ELSE s[j + 1]
  <2>1. CASE j < i
    <3>1. j \in 1..Len(a) /\ j \in 1..(i - 1)
      BY <1>0, <1>1, <2>1
    <3> QED
      BY <1>1, <1>2, <2>1, <3>1
  <2>2. CASE ~(j < i)
    <3>1. j - Len(a) \in 1..(Len(s) - i) /\ i + (j - Len(a)) = j + 1 /\ j > Len(a)
      BY <1>0, <1>1, <2>2
    <3>2. (a \o b)[j] = b[j - Len(a)]
      BY <1>0, <1>1, <1>2, <1>4, <3>1
    <3> QED
      BY <1>2, <2>2, <3>1, <3>2
  <2> QED
    BY <2>1, <2>2
<1> QED
  BY <1>3, <1>4, <1>5

LEMMA WithoutElement ==
    ASSUME NEW S, NEW s \in Seq(S), NEW i \in 1..Len(s), IsInjective(s)
    PROVE  IsInjective(Without(s, i)) /\ Range(Without(s, i)) = Range(s) \ {s[i]}
<1> DEFINE t == Without(s, i)
           Was(j) == IF j < i THEN j ELSE j + 1
<1>1. t \in Seq(S) /\ Len(t) = Len(s) - 1 /\ Len(s) \in Nat
      /\ DOMAIN t = 1..(Len(s) - 1) /\ DOMAIN s = 1..Len(s)
  BY WithoutIs
<1>2. \A j \in 1..(Len(s) - 1) : t[j] = s[Was(j)]
  BY WithoutIs
<1> HIDE DEF t
<1>3. \A j \in 1..(Len(s) - 1) : Was(j) \in 1..Len(s) /\ Was(j) # i
  BY <1>1
<1>4. \A j, k \in 1..(Len(s) - 1) : Was(j) = Was(k) => j = k
  BY <1>1
<1>5. \A k \in 1..Len(s) : k # i => \E j \in 1..(Len(s) - 1) : Was(j) = k
  <2> SUFFICES ASSUME NEW k \in 1..Len(s), k # i
               PROVE  \E j \in 1..(Len(s) - 1) : Was(j) = k
    OBVIOUS
  <2>1. CASE k < i
    <3>1. k \in 1..(Len(s) - 1) /\ Was(k) = k
      BY <1>1, <2>1
    <3> QED
      BY <3>1
  <2>2. CASE ~(k < i)
    <3>1. k - 1 \in 1..(Len(s) - 1) /\ Was(k - 1) = k
      BY <1>1, <2>2
    <3> QED
      BY <3>1
  <2> QED
    BY <2>1, <2>2
<1> HIDE DEF Was
<1>6. IsInjective(t)
  BY <1>1, <1>2, <1>3, <1>4 DEF IsInjective
<1>7. Range(t) \subseteq Range(s) \ {s[i]}
  BY <1>1, <1>2, <1>3 DEF Range, IsInjective
<1>8. Range(s) \ {s[i]} \subseteq Range(t)
  <2> SUFFICES ASSUME NEW x \in Range(s), x # s[i] PROVE x \in Range(t)
    OBVIOUS
  <2>1. PICK k \in 1..Len(s) : x = s[k] /\ k # i
    BY <1>1 DEF Range
  <2>2. PICK j \in 1..(Len(s) - 1) : Was(j) = k
    BY <1>5, <2>1
  <2>3. t[j] = x /\ j \in DOMAIN t
    BY <1>1, <1>2, <2>1, <2>2
  <2> QED
    BY <2>3 DEF Range
<1> QED
  BY <1>6, <1>7, <1>8 DEF t

LEMMA AppendElement ==
    ASSUME NEW S, NEW s \in Seq(S), NEW x \in S
    PROVE  /\ Append(s, x) \in Seq(S) /\ Len(Append(s, x)) = Len(s) + 1
           /\ Append(s, x) # <<>> /\ s # <<>> => Head(Append(s, x)) = Head(s)
           /\ Range(Append(s, x)) = Range(s) \cup {x}
           /\ IsInjective(s) /\ x \notin Range(s) => IsInjective(Append(s, x))
<1> DEFINE t == Append(s, x)
<1>1. /\ t \in Seq(S) /\ Len(t) = Len(s) + 1 /\ Len(s) \in Nat
      /\ \A j \in 1..Len(s) : t[j] = s[j]
      /\ t[Len(s) + 1] = x
  OBVIOUS
<1>2. DOMAIN t = 1..(Len(s) + 1) /\ DOMAIN s = 1..Len(s)
  BY <1>1
<1> HIDE DEF t
<1>3. t # <<>> /\ (s # <<>> => Head(t) = Head(s))
  <2>1. s # <<>> => 1 \in 1..Len(s)
    BY <1>1
  <2> QED
    BY <1>1, <2>1
<1>4. Range(t) = Range(s) \cup {x}
  <2>1. Range(t) \subseteq Range(s) \cup {x}
    <3>1. \A j \in 1..(Len(s) + 1) : j \in 1..Len(s) \/ j = Len(s) + 1
      BY <1>1
    <3> QED
      BY <1>1, <1>2, <3>1 DEF Range
  <2>2. Range(s) \cup {x} \subseteq Range(t)
    <3>1. Len(s) + 1 \in 1..(Len(s) + 1) /\ 1..Len(s) \subseteq 1..(Len(s) + 1)
      BY <1>1
    <3> QED
      BY <1>1, <1>2, <3>1 DEF Range
  <2> QED
    BY <2>1, <2>2
<1>5. ASSUME IsInjective(s), x \notin Range(s) PROVE IsInjective(t)
  <2> SUFFICES ASSUME NEW a \in 1..(Len(s) + 1), NEW b \in 1..(Len(s) + 1), t[a] = t[b]
               PROVE  a = b
    BY <1>2 DEF IsInjective
  <2>1. \A j \in 1..Len(s) : s[j] # x
    BY <1>2, <1>5 DEF Range
  <2>2. CASE a \in 1..Len(s) /\ b \in 1..Len(s)
    BY <1>1, <1>2, <1>5, <2>2 DEF IsInjective
  <2>3. CASE a \notin 1..Len(s) /\ b \notin 1..Len(s)
    BY <1>1, <2>3
  <2>4. CASE a \in 1..Len(s) /\ b \notin 1..Len(s)
    <3>1. b = Len(s) + 1
      BY <1>1, <2>4
    <3> QED
      BY <1>1, <2>1, <2>4, <3>1
  <2>5. CASE a \notin 1..Len(s) /\ b \in 1..Len(s)
    <3>1. a = Len(s) + 1
      BY <1>1, <2>5
    <3> QED
      BY <1>1, <2>1, <2>5, <3>1
  <2> QED
    BY <2>2, <2>3, <2>4, <2>5
<1> QED
  BY <1>1, <1>3, <1>4, <1>5 DEF t

\* What is behind the entry at i.
LEMMA RestElements ==
    ASSUME NEW S, NEW s \in Seq(S), NEW i \in 1..Len(s), IsInjective(s)
    PROVE  LET t == SubSeq(s, i + 1, Len(s)) IN
             /\ t \in Seq(S) /\ Len(t) <= Len(s) /\ IsInjective(t)
             /\ Range(t) = {s[j] : j \in (i + 1)..Len(s)}
<1> DEFINE t == SubSeq(s, i + 1, Len(s))
<1>a. Len(s) \in Nat
  OBVIOUS
<1>b. DOMAIN s = 1..Len(s)
  OBVIOUS
<1>0. Len(s) \in Nat /\ DOMAIN s = 1..Len(s)
  BY <1>a, <1>b
<1>c. t \in Seq(S) /\ Len(t) = Len(s) - i
  BY <1>a
<1>d. \A j \in 1..(Len(s) - i) : t[j] = s[i + j]
  BY <1>a
<1> HIDE DEF t
<1>1. t \in Seq(S) /\ Len(t) = Len(s) - i /\ \A j \in 1..(Len(s) - i) : t[j] = s[i + j]
  BY <1>c, <1>d
<1>2. DOMAIN t = 1..(Len(s) - i)
  BY <1>c
<1>3. IsInjective(t)
  <2> SUFFICES ASSUME NEW a \in 1..(Len(s) - i), NEW b \in 1..(Len(s) - i), t[a] = t[b]
               PROVE  a = b
    BY <1>2 DEF IsInjective
  <2>1. i + a \in 1..Len(s) /\ i + b \in 1..Len(s)
    BY <1>0
  <2>2. i + a = i + b
    BY <1>0, <1>1, <2>1 DEF IsInjective
  <2> QED
    BY <1>0, <2>2
<1>4. Range(t) \subseteq {s[j] : j \in (i + 1)..Len(s)}
  <2>1. \A j \in 1..(Len(s) - i) : i + j \in (i + 1)..Len(s)
    BY <1>0
  <2> QED
    BY <1>1, <1>2, <2>1 DEF Range
<1>5. {s[j] : j \in (i + 1)..Len(s)} \subseteq Range(t)
  <2> SUFFICES ASSUME NEW j \in (i + 1)..Len(s) PROVE s[j] \in Range(t)
    OBVIOUS
  <2>1. j - i \in 1..(Len(s) - i) /\ i + (j - i) = j
    BY <1>0
  <2> QED
    BY <1>1, <1>2, <2>1 DEF Range
<1>6. /\ t \in Seq(S) /\ Len(t) <= Len(s) /\ IsInjective(t)
      /\ Range(t) = {s[j] : j \in (i + 1)..Len(s)}
  BY <1>0, <1>1, <1>3, <1>4, <1>5
<1> QED
  BY <1>6 DEF t

LEMMA TailElements ==
    ASSUME NEW S, NEW s \in Seq(S), s # <<>>, IsInjective(s)
    PROVE  /\ Head(s) \in Range(s) /\ Tail(s) \in Seq(S) /\ Len(Tail(s)) <= Len(s)
           /\ IsInjective(Tail(s)) /\ Range(Tail(s)) = Range(s) \ {Head(s)}
           /\ Tail(s) = Without(s, 1)
<1>1. Len(s) \in Nat /\ 1 \in 1..Len(s) /\ DOMAIN s = 1..Len(s) /\ Head(s) = s[1]
  OBVIOUS
<1>2. Tail(s) = Without(s, 1)
  <2>1. Tail(s) \in Seq(S) /\ Len(Tail(s)) = Len(s) - 1
        /\ \A j \in 1..(Len(s) - 1) : Tail(s)[j] = s[j + 1]
    BY <1>1
  <2>2. /\ Without(s, 1) \in Seq(S) /\ Len(Without(s, 1)) = Len(s) - 1
        /\ \A j \in 1..(Len(s) - 1) : Without(s, 1)[j] = s[j + 1]
    <3>1. \A j \in 1..(Len(s) - 1) : ~(j < 1)
      BY <1>1
    <3> QED
      BY <1>1, <3>1, WithoutIs
  <2> DEFINE t == Tail(s)
             w == Without(s, 1)
  <2> HIDE DEF t, w
  <2>3. t \in Seq(S) /\ w \in Seq(S) /\ Len(t) = Len(w) /\ \A j \in 1..Len(t) : t[j] = w[j]
    BY <1>1, <2>1, <2>2 DEF t, w
  <2>4. t = w
    BY <2>3
  <2> QED
    BY <2>4 DEF t, w
<1>3. IsInjective(Without(s, 1)) /\ Range(Without(s, 1)) = Range(s) \ {s[1]}
      /\ Without(s, 1) \in Seq(S) /\ Len(Without(s, 1)) = Len(s) - 1
  BY <1>1, WithoutElement, WithoutIs
<1>4. Head(s) \in Range(s)
  BY <1>1 DEF Range
<1> DEFINE t == Tail(s)
           h == Head(s)
<1>5. t = Without(s, 1) /\ h = s[1] /\ h \in Range(s)
  BY <1>1, <1>2, <1>4
<1> HIDE DEF t, h
<1>6. /\ h \in Range(s) /\ t \in Seq(S) /\ Len(t) <= Len(s)
      /\ IsInjective(t) /\ Range(t) = Range(s) \ {h} /\ t = Without(s, 1)
  BY <1>1, <1>3, <1>5
<1> QED
  BY <1>6 DEF t, h

\* What is left of a queue when e is taken out of it.
Left(s, e, t) ==
    /\ Len(t) <= Len(s) /\ IsInjective(t) /\ Range(t) = Range(s) \ {e}
    /\ s # <<>> /\ Head(s) = e => t = Tail(s)

LEMMA TakenOut ==
    ASSUME NEW S, NEW s \in Seq(S), IsInjective(s), NEW e, NEW t,
           \/ e \notin Range(s) /\ t = s
           \/ \E i \in 1..Len(s) : s[i] = e /\ t = Without(s, i)
    PROVE  t \in Seq(S) /\ Left(s, e, t)
<1>0. Len(s) \in Nat /\ DOMAIN s = 1..Len(s)
  OBVIOUS
<1>1. CASE e \notin Range(s) /\ t = s
  <2>1. ~(s # <<>> /\ Head(s) = e)
    BY <1>1, TailElements
  <2>2. Range(s) = Range(s) \ {e}
    BY <1>1
  <2>3. Len(s) <= Len(s)
    BY <1>0
  <2>4. Left(s, e, s)
    BY <2>1, <2>2, <2>3, Zenon DEF Left
  <2> QED
    BY <1>1, <2>4
<1>2. CASE \E i \in 1..Len(s) : s[i] = e /\ t = Without(s, i)
  <2>1. PICK i \in 1..Len(s) : s[i] = e /\ t = Without(s, i)
    BY <1>2
  <2>2. /\ t \in Seq(S) /\ Len(t) = Len(s) - 1 /\ IsInjective(t)
        /\ Range(t) = Range(s) \ {e}
    BY <2>1, WithoutIs, WithoutElement
  <2>3. ASSUME s # <<>>, Head(s) = e PROVE t = Tail(s)
    <3>1. Head(s) = s[1] /\ 1 \in 1..Len(s)
      BY <1>0, <2>3
    <3>2. i = 1
      BY <1>0, <2>1, <2>3, <3>1 DEF IsInjective
    <3> QED
      BY <2>1, <2>3, <3>2, TailElements
  <2> QED
    BY <1>0, <2>2, <2>3 DEF Left
<1> QED
  BY <1>1, <1>2

\* Where x stands in s, when it stands there once.
LEMMA OnePlace ==
    ASSUME NEW S, NEW s \in Seq(S), IsInjective(s), NEW e, NEW i \in 1..Len(s), s[i] = e
    PROVE  {j \in 1..Len(s) : s[j] = e} = {i}
BY DEF IsInjective

-----------------------------------------------------------------------------
(* Some of a queue in the order of the queue.                              *)

\* a stands ahead of b in w.
Ahead(w, a, b) == \E i, j \in 1..Len(w) : i < j /\ w[i] = a /\ w[j] = b

\* s is the members of S, each once, in the order of w.
InOrder(s, w, S) ==
    /\ s \in Seq(S) /\ IsInjective(s) /\ Range(s) = S
    /\ \A i, j \in 1..Len(s) : i < j => Ahead(w, s[i], s[j])

LEMMA NobodyBothWays ==
    ASSUME NEW W, NEW w \in Seq(W), IsInjective(w), NEW a, NEW b, Ahead(w, a, b)
    PROVE  ~Ahead(w, b, a)
<1>1. DOMAIN w = 1..Len(w) /\ Len(w) \in Nat
  OBVIOUS
<1>2. \A i, j \in 1..Len(w) : w[i] = w[j] => i = j
  BY <1>1 DEF IsInjective
<1>3. PICK i \in 1..Len(w), j \in 1..Len(w) : i < j /\ w[i] = a /\ w[j] = b
  BY DEF Ahead
<1>4. ASSUME NEW m \in 1..Len(w), NEW n \in 1..Len(w), m < n, w[m] = b, w[n] = a
      PROVE  FALSE
  <2>1. m = j /\ n = i
    BY <1>2, <1>3, <1>4
  <2> QED
    BY <1>1, <1>3, <1>4, <2>1
<1> QED
  BY <1>4 DEF Ahead

\* Two queues in the same order agree as far as the first of them goes.
LEMMA OrdersAgree ==
    ASSUME NEW W, NEW w \in Seq(W), IsInjective(w), NEW S, NEW s, NEW t,
           InOrder(s, w, S), InOrder(t, w, S)
    PROVE  \A k \in 1..Len(s) : k \in 1..Len(t) /\ s[k] = t[k]
<1>1. /\ s \in Seq(S) /\ Len(s) \in Nat /\ DOMAIN s = 1..Len(s)
      /\ t \in Seq(S) /\ Len(t) \in Nat /\ DOMAIN t = 1..Len(t)
  BY DEF InOrder
<1>2. /\ \A i, j \in 1..Len(s) : s[i] = s[j] => i = j
      /\ \A i, j \in 1..Len(t) : t[i] = t[j] => i = j
  BY <1>1 DEF InOrder, IsInjective
<1>3. /\ \A i, j \in 1..Len(s) : i < j => Ahead(w, s[i], s[j])
      /\ \A i, j \in 1..Len(t) : i < j => Ahead(w, t[i], t[j])
  BY DEF InOrder
<1>4. /\ \A i \in 1..Len(s) : \E j \in 1..Len(t) : s[i] = t[j]
      /\ \A i \in 1..Len(t) : \E j \in 1..Len(s) : t[i] = s[j]
  BY <1>1 DEF InOrder, Range
<1> DEFINE Differ == {k \in 1..Len(s) : ~(k \in 1..Len(t) /\ s[k] = t[k])}
<1>5. SUFFICES ASSUME Differ # {} PROVE FALSE
  OBVIOUS
<1>6. PICK k \in Differ : \A y \in Differ : k <= y
  <2>1. Differ \in SUBSET Nat
    BY <1>1
  <2> QED
    BY <1>5, <2>1, LeastOf
<1>7. k \in 1..Len(s) /\ ~(k \in 1..Len(t) /\ s[k] = t[k])
  BY <1>6
<1>8. \A i \in 1..Len(s) : i < k => i \in 1..Len(t) /\ s[i] = t[i]
  BY <1>1, <1>6
<1> HIDE DEF Differ
<1>9. PICK m \in 1..Len(t) : s[k] = t[m]
  BY <1>4, <1>7
<1>10. m > k
  <2>1. CASE m < k
    <3>1. m \in 1..Len(s) /\ s[m] = t[m]
      BY <1>1, <1>7, <1>8, <2>1
    <3> QED
      BY <1>1, <1>2, <1>7, <1>9, <2>1, <3>1
  <2>2. CASE m = k
    BY <1>7, <1>9, <2>2
  <2> QED
    BY <1>1, <1>7, <2>1, <2>2
<1>11. k \in 1..Len(t) /\ t[k] # s[k]
  BY <1>1, <1>7, <1>10
<1>12. Ahead(w, t[k], s[k])
  BY <1>3, <1>9, <1>10, <1>11
<1>13. PICK n \in 1..Len(s) : t[k] = s[n]
  BY <1>4, <1>11
<1>14. n > k
  <2>1. CASE n < k
    <3>1. n \in 1..Len(t) /\ s[n] = t[n]
      BY <1>8, <2>1
    <3> QED
      BY <1>1, <1>2, <1>11, <1>13, <2>1, <3>1
  <2>2. CASE n = k
    BY <1>11, <1>13, <2>2
  <2> QED
    BY <1>1, <1>7, <2>1, <2>2
<1>15. Ahead(w, s[k], t[k])
  BY <1>3, <1>7, <1>13, <1>14
<1> QED
  BY <1>12, <1>15, NobodyBothWays

LEMMA OneOrder ==
    ASSUME NEW W, NEW w \in Seq(W), IsInjective(w), NEW S, NEW s, NEW t,
           InOrder(s, w, S), InOrder(t, w, S)
    PROVE  s = t
<1>1. s \in Seq(S) /\ Len(s) \in Nat /\ t \in Seq(S) /\ Len(t) \in Nat
  BY DEF InOrder
<1>2. \A k \in 1..Len(s) : k \in 1..Len(t) /\ s[k] = t[k]
  BY OrdersAgree
<1>3. \A k \in 1..Len(t) : k \in 1..Len(s) /\ t[k] = s[k]
  BY OrdersAgree
<1>4. Len(s) = Len(t)
  <2>1. Len(s) <= Len(t)
    BY <1>1, <1>2
  <2>2. Len(t) <= Len(s)
    BY <1>1, <1>3
  <2> QED
    BY <1>1, <2>1, <2>2
<1> QED
  BY <1>1, <1>2, <1>4

LEMMA NobodyInOrder ==
    ASSUME NEW w
    PROVE  InOrder(<<>>, w, {}) /\ \A s : InOrder(s, w, {}) => s = <<>>
<1>1. <<>> \in Seq({}) /\ IsInjective(<<>>) /\ Range(<<>>) = {} /\ Len(<<>>) = 0
  BY DEF IsInjective, Range
<1>2. ASSUME NEW s, InOrder(s, w, {}) PROVE s = <<>>
  <2>1. s \in Seq({})
    BY <1>2 DEF InOrder
  <2> QED
    BY <2>1
<1> QED
  BY <1>1, <1>2 DEF InOrder

LEMMA OrderKept ==
    ASSUME NEW w, NEW v, NEW S, NEW s, InOrder(s, w, S),
           \A a, b \in S : Ahead(w, a, b) => Ahead(v, a, b)
    PROVE  InOrder(s, v, S)
<1>1. s \in Seq(S) /\ \A i \in 1..Len(s) : s[i] \in S
  BY DEF InOrder
<1> QED
  BY <1>1 DEF InOrder

LEMMA OrderAppended ==
    ASSUME NEW W, NEW w \in Seq(W), NEW x \in W, x \notin Range(w),
           NEW S \in SUBSET Range(w), NEW s, InOrder(s, w, S)
    PROVE  InOrder(Append(s, x), Append(w, x), S \cup {x})
<1> DEFINE T == S \cup {x}
           u == Append(s, x)
           v == Append(w, x)
<1>1. /\ s \in Seq(S) /\ s \in Seq(T) /\ Len(s) \in Nat /\ x \in T /\ x \notin S
      /\ DOMAIN s = 1..Len(s) /\ Range(s) = S /\ IsInjective(s)
      /\ Len(w) \in Nat /\ DOMAIN w = 1..Len(w)
  BY DEF InOrder
<1>2. u \in Seq(T) /\ Len(u) = Len(s) + 1 /\ Range(u) = T /\ IsInjective(u)
  BY <1>1, AppendElement
<1>3. /\ \A i \in 1..Len(s) : u[i] = s[i]
      /\ u[Len(s) + 1] = x
  BY <1>1
<1>4. /\ Len(v) = Len(w) + 1 /\ v[Len(w) + 1] = x
      /\ \A i \in 1..Len(w) : v[i] = w[i]
  OBVIOUS
<1>5. \A a \in S : \E m \in 1..Len(w) : w[m] = a
  BY <1>1 DEF Range
<1> HIDE DEF u, v, T
<1>6. ASSUME NEW i \in 1..Len(u), NEW j \in 1..Len(u), i < j
      PROVE  Ahead(v, u[i], u[j])
  <2>1. i \in 1..Len(s) /\ u[i] = s[i] /\ s[i] \in S
    BY <1>1, <1>2, <1>3, <1>6
  <2>2. CASE j = Len(s) + 1
    <3>1. PICK m \in 1..Len(w) : w[m] = s[i]
      BY <1>5, <2>1
    <3>2. /\ m \in 1..Len(v) /\ Len(w) + 1 \in 1..Len(v) /\ m < Len(w) + 1
          /\ v[m] = u[i] /\ v[Len(w) + 1] = u[j]
      BY <1>1, <1>3, <1>4, <2>1, <2>2, <3>1
    <3> QED
      BY <3>2 DEF Ahead
  <2>3. CASE j # Len(s) + 1
    <3>1. j \in 1..Len(s) /\ u[j] = s[j]
      BY <1>1, <1>2, <1>3, <2>3
    <3>2. Ahead(w, s[i], s[j])
      BY <1>6, <2>1, <3>1 DEF InOrder
    <3>3. PICK m \in 1..Len(w), n \in 1..Len(w) : m < n /\ w[m] = s[i] /\ w[n] = s[j]
      BY <3>2 DEF Ahead
    <3>4. /\ m \in 1..Len(v) /\ n \in 1..Len(v) /\ v[m] = u[i] /\ v[n] = u[j]
      BY <1>1, <1>4, <2>1, <3>1, <3>3
    <3> QED
      BY <3>3, <3>4 DEF Ahead
  <2> QED
    BY <2>2, <2>3
<1>7. InOrder(u, v, T)
  BY <1>2, <1>6 DEF InOrder
<1> QED
  BY <1>7 DEF u, v, T

\* One leaves the order; the queue it was taken from stays.
LEMMA OrderWithout ==
    ASSUME NEW w, NEW S, NEW s, InOrder(s, w, S), NEW k \in 1..Len(s)
    PROVE  InOrder(Without(s, k), w, S \ {s[k]})
<1> DEFINE t == Without(s, k)
           Was(j) == IF j < k THEN j ELSE j + 1
<1>1. s \in Seq(S) /\ Len(s) \in Nat /\ IsInjective(s) /\ Range(s) = S
  BY DEF InOrder
<1>2. /\ t \in Seq(S) /\ Len(t) = Len(s) - 1
      /\ \A j \in 1..(Len(s) - 1) : t[j] = s[Was(j)]
  BY <1>1, WithoutIs
<1>3. IsInjective(t) /\ Range(t) = S \ {s[k]}
  BY <1>1, WithoutElement
<1> HIDE DEF t
<1>4. t \in Seq(S \ {s[k]})
  <2>1. \A j \in 1..Len(t) : t[j] \in S \ {s[k]}
    BY <1>2, <1>3 DEF Range
  <2> QED
    BY <1>2, <2>1
<1>5. ASSUME NEW i \in 1..Len(t), NEW j \in 1..Len(t), i < j
      PROVE  Ahead(w, t[i], t[j])
  <2>1. /\ i \in 1..(Len(s) - 1) /\ j \in 1..(Len(s) - 1)
        /\ Was(i) \in 1..Len(s) /\ Was(j) \in 1..Len(s) /\ Was(i) < Was(j)
    BY <1>1, <1>2, <1>5
  <2>2. t[i] = s[Was(i)] /\ t[j] = s[Was(j)]
    BY <1>2, <2>1
  <2> HIDE DEF Was
  <2> QED
    BY <2>1, <2>2 DEF InOrder
<1>6. InOrder(t, w, S \ {s[k]})
  BY <1>3, <1>4, <1>5 DEF InOrder
<1> QED
  BY <1>6 DEF t

\* Somebody else is taken out of the queue.
LEMMA AheadWithout ==
    ASSUME NEW W, NEW w \in Seq(W), NEW k \in 1..Len(w),
           NEW a, NEW b, Ahead(w, a, b), a # w[k], b # w[k]
    PROVE  Ahead(Without(w, k), a, b)
<1> DEFINE v == Without(w, k)
           Now(j) == IF j < k THEN j ELSE j - 1
<1>1. /\ Len(w) \in Nat /\ Len(v) = Len(w) - 1
      /\ \A j \in 1..(Len(w) - 1) : v[j] = IF j < k THEN w[j] ELSE w[j + 1]
  BY WithoutIs
<1>2. PICK i \in 1..Len(w), j \in 1..Len(w) : i < j /\ w[i] = a /\ w[j] = b
  BY DEF Ahead
<1>3. i # k /\ j # k
  BY <1>2
<1> HIDE DEF v
<1>4. Now(i) \in 1..Len(v) /\ Now(j) \in 1..Len(v) /\ Now(i) < Now(j)
  BY <1>1, <1>2, <1>3
<1>5. ASSUME NEW m \in 1..Len(w), m # k PROVE v[Now(m)] = w[m]
  <2>1. CASE m < k
    <3>1. m \in 1..(Len(w) - 1)
      BY <1>1, <2>1
    <3> QED
      BY <1>1, <2>1, <3>1
  <2>2. CASE m > k
    <3>1. m - 1 \in 1..(Len(w) - 1) /\ ~(m - 1 < k) /\ (m - 1) + 1 = m
      BY <1>1, <2>2
    <3>2. v[m - 1] = w[m]
      BY <1>1, <3>1
    <3> QED
      BY <2>2, <3>2
  <2> QED
    BY <1>1, <1>5, <2>1, <2>2
<1> HIDE DEF Now
<1>6. Ahead(v, a, b)
  BY <1>2, <1>3, <1>4, <1>5 DEF Ahead
<1> QED
  BY <1>6 DEF v

\* The first k of the queue are taken out of it.
LEMMA AheadBehind ==
    ASSUME NEW W, NEW w \in Seq(W), IsInjective(w), NEW k \in 1..Len(w), NEW a, NEW b,
           Ahead(w, a, b), a \in {w[j] : j \in (k + 1)..Len(w)}
    PROVE  Ahead(SubSeq(w, k + 1, Len(w)), a, b)
<1> DEFINE v == SubSeq(w, k + 1, Len(w))
<1>1. /\ Len(w) \in Nat /\ DOMAIN w = 1..Len(w) /\ Len(v) = Len(w) - k
      /\ \A j \in 1..(Len(w) - k) : v[j] = w[j + k]
  OBVIOUS
<1> HIDE DEF v
<1>2. PICK i \in 1..Len(w), j \in 1..Len(w) : i < j /\ w[i] = a /\ w[j] = b
  BY DEF Ahead
<1>3. PICK m \in (k + 1)..Len(w) : w[m] = a
  OBVIOUS
<1>4. i = m
  <2>1. \A x, y \in 1..Len(w) : w[x] = w[y] => x = y
    BY <1>1 DEF IsInjective
  <2>2. m \in 1..Len(w)
    <3>1. k \in Nat /\ k >= 1
      OBVIOUS
    <3> QED
      BY <1>1, <3>1
  <2> QED
    BY <1>2, <1>3, <2>1, <2>2
<1>5. i - k \in 1..Len(v) /\ j - k \in 1..Len(v) /\ i - k < j - k
  BY <1>1, <1>2, <1>3, <1>4
<1>6. v[i - k] = a /\ v[j - k] = b
  BY <1>1, <1>2, <1>5
<1>7. Ahead(v, a, b)
  BY <1>5, <1>6 DEF Ahead
<1> QED
  BY <1>7 DEF v

LEMMA CountedOnce ==
    ASSUME NEW S, NEW s \in Seq(S), IsInjective(s)
    PROVE  IsFiniteSet(Range(s)) /\ Cardinality(Range(s)) = Len(s)
<1>1. Len(s) \in Nat /\ DOMAIN s = 1..Len(s)
  OBVIOUS
<1>2. s \in [1..Len(s) -> Range(s)]
  BY <1>1 DEF Range
<1>3. s \in Bijection(1..Len(s), Range(s))
  BY <1>1, <1>2 DEF Bijection, Injection, Surjection, IsInjective, Range
<1>4. ExistsBijection(1..Len(s), Range(s))
  BY <1>3 DEF ExistsBijection
<1> QED
  BY <1>1, <1>4, FS_CountingElements, FS_NatBijection
=============================================================================
