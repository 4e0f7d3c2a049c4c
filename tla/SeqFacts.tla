------------------------------- MODULE SeqFacts -------------------------------
(***************************************************************************)
(* What Append, Tail and concatenation do to the elements of a sequence:   *)
(* the queues of the panel are sequences, and the proofs about them only   *)
(* need to know which updates a queue holds, and that it holds none twice. *)
(* And what the proofs need of the natural numbers: least and greatest     *)
(* elements of a set, and induction.                                       *)
(***************************************************************************)
EXTENDS SequencesExt, WellFoundedInduction, TLAPS

(* An empty queue holds nothing. *)
LEMMA ToSetEmpty == ToSet(<<>>) = {}
  BY DEF ToSet

(* Appending to a queue adds one element. *)
LEMMA ToSetAppend ==
  ASSUME NEW S, NEW q \in Seq(S), NEW e \in S
  PROVE  /\ Append(q, e) \in Seq(S)
         /\ ToSet(Append(q, e)) = ToSet(q) \union {e}
<1>1. /\ Append(q, e) \in Seq(S)
      /\ DOMAIN Append(q, e) = 1..(Len(q) + 1)
      /\ DOMAIN q = 1..Len(q)
      /\ Append(q, e)[Len(q) + 1] = e
      /\ \A i \in 1..Len(q) : Append(q, e)[i] = q[i]
  OBVIOUS
<1>2. ToSet(Append(q, e)) \subseteq ToSet(q) \union {e}
  <2>1. SUFFICES ASSUME NEW i \in 1..(Len(q) + 1)
                 PROVE  Append(q, e)[i] \in ToSet(q) \union {e}
    BY <1>1 DEF ToSet
  <2>2. CASE i = Len(q) + 1
    BY <1>1, <2>2
  <2>3. CASE i \in 1..Len(q)
    BY <1>1, <2>3 DEF ToSet
  <2>4. QED
    BY <2>1, <2>2, <2>3
<1>3. ToSet(q) \union {e} \subseteq ToSet(Append(q, e))
  <2>1. e \in ToSet(Append(q, e))
    <3>1. Len(q) + 1 \in DOMAIN Append(q, e)
      BY <1>1
    <3>2. QED
      BY <1>1, <3>1 DEF ToSet
  <2>2. ASSUME NEW i \in 1..Len(q) PROVE q[i] \in ToSet(Append(q, e))
    <3>1. i \in DOMAIN Append(q, e)
      BY <1>1
    <3>2. QED
      BY <1>1, <3>1 DEF ToSet
  <2>3. QED
    BY <1>1, <2>1, <2>2 DEF ToSet
<1>4. QED
  BY <1>1, <1>2, <1>3

(* Taking the head of a queue leaves the others. *)
LEMMA ToSetHeadTail ==
  ASSUME NEW S, NEW q \in Seq(S), q # <<>>
  PROVE  /\ Head(q) \in S
         /\ Tail(q) \in Seq(S)
         /\ ToSet(q) = {Head(q)} \union ToSet(Tail(q))
<1>1. Head(q) \in S /\ Tail(q) \in Seq(S)
  OBVIOUS
<1>2. ASSUME NEW x \in ToSet(q) PROVE x = Head(q) \/ x \in ToSet(Tail(q))
  <2>1. PICK i \in 1..Len(q) : x = q[i]
    BY <1>2 DEF ToSet
  <2>2. CASE i = 1
    BY <2>1, <2>2
  <2>3. CASE i # 1
    <3>1. i - 1 \in 1..Len(Tail(q)) /\ Tail(q)[i - 1] = q[i]
      BY <2>1, <2>3
    <3>2. DOMAIN Tail(q) = 1..Len(Tail(q))
      BY <1>1
    <3>3. QED
      BY <3>1, <3>2, <2>1 DEF ToSet
  <2>4. QED
    BY <2>2, <2>3
<1>3. ASSUME NEW x \in ToSet(Tail(q)) PROVE x \in ToSet(q)
  <2>1. PICK i \in 1..Len(Tail(q)) : x = Tail(q)[i]
    BY <1>1, <1>3 DEF ToSet
  <2>2. i + 1 \in 1..Len(q) /\ q[i + 1] = Tail(q)[i]
    BY <2>1
  <2>3. QED
    BY <2>1, <2>2 DEF ToSet
<1>4. Head(q) \in ToSet(q)
  BY DEF ToSet
<1>5. QED
  BY <1>1, <1>2, <1>3, <1>4

(* Concatenating two queues joins what they hold. *)
LEMMA ToSetConcat ==
  ASSUME NEW S, NEW q \in Seq(S), NEW r \in Seq(S)
  PROVE  /\ q \o r \in Seq(S)
         /\ ToSet(q \o r) = ToSet(q) \union ToSet(r)
<1>1. q \o r \in Seq(S) /\ Len(q \o r) = Len(q) + Len(r)
  OBVIOUS
<1>2. ASSUME NEW x \in ToSet(q \o r) PROVE x \in ToSet(q) \union ToSet(r)
  <2>1. PICK i \in 1..Len(q) + Len(r) : x = (q \o r)[i]
    BY <1>1, <1>2 DEF ToSet
  <2>2. CASE i <= Len(q)
    BY <2>1, <2>2 DEF ToSet
  <2>3. CASE i > Len(q)
    <3>1. i - Len(q) \in 1..Len(r) /\ x = r[i - Len(q)]
      BY <2>1, <2>3
    <3>2. QED
      BY <3>1 DEF ToSet
  <2>4. QED
    BY <2>2, <2>3
<1>3. ASSUME NEW x \in ToSet(q) PROVE x \in ToSet(q \o r)
  <2>1. PICK i \in 1..Len(q) : x = q[i]
    BY <1>3 DEF ToSet
  <2>2. i \in 1..Len(q \o r) /\ (q \o r)[i] = q[i]
    BY <1>1, <2>1
  <2>3. QED
    BY <2>1, <2>2 DEF ToSet
<1>4. ASSUME NEW x \in ToSet(r) PROVE x \in ToSet(q \o r)
  <2>1. PICK i \in 1..Len(r) : x = r[i]
    BY <1>4 DEF ToSet
  <2>2. Len(q) + i \in 1..Len(q \o r) /\ (q \o r)[Len(q) + i] = r[i]
    BY <1>1, <2>1
  <2>3. QED
    BY <2>1, <2>2 DEF ToSet
<1>5. QED
  BY <1>1, <1>2, <1>3, <1>4

(* A queue of one element. *)
LEMMA ToSetSingle ==
  ASSUME NEW S, NEW e \in S
  PROVE  <<e>> \in Seq(S) /\ ToSet(<<e>>) = {e}
  BY DEF ToSet

(* An empty queue and a queue of one element hold nothing twice. *)
LEMMA InjectiveShort ==
  /\ IsInjective(<<>>)
  /\ \A e : IsInjective(<<e>>)
  BY DEF IsInjective

(* Appending what a queue does not hold keeps its elements distinct. *)
LEMMA InjectiveAppend ==
  ASSUME NEW S, NEW q \in Seq(S), NEW e \in S, IsInjective(q), e \notin ToSet(q)
  PROVE  IsInjective(Append(q, e))
<1> DEFINE r == Append(q, e)
<1>1. /\ DOMAIN r = 1..(Len(q) + 1)
      /\ DOMAIN q = 1..Len(q)
      /\ r[Len(q) + 1] = e
      /\ \A i \in 1..Len(q) : r[i] = q[i]
  OBVIOUS
<1>2. \A i \in 1..Len(q) : q[i] # e
  BY <1>1 DEF ToSet
<1>3. \A i, j \in 1..Len(q) : q[i] = q[j] => i = j
  BY <1>1 DEF IsInjective
<1> HIDE DEF r
<1>4. ASSUME NEW i \in 1..(Len(q) + 1), NEW j \in 1..(Len(q) + 1), r[i] = r[j]
      PROVE  i = j
  <2>1. Len(q) \in Nat
    OBVIOUS
  <2>2. i \in 1..Len(q) \/ i = Len(q) + 1
    BY <2>1
  <2>3. j \in 1..Len(q) \/ j = Len(q) + 1
    BY <2>1
  <2>4. QED
    BY <1>1, <1>2, <1>3, <1>4, <2>2, <2>3
<1>5. QED
  BY <1>1, <1>4 DEF IsInjective, r

(* The head of a queue whose elements are distinct is not in the rest. *)
LEMMA InjectiveTail ==
  ASSUME NEW S, NEW q \in Seq(S), q # <<>>, IsInjective(q)
  PROVE  IsInjective(Tail(q)) /\ Head(q) \notin ToSet(Tail(q))
<1>1. /\ Len(q) \in Nat \ {0}
      /\ DOMAIN q = 1..Len(q)
      /\ DOMAIN Tail(q) = 1..(Len(q) - 1)
      /\ Head(q) = q[1]
      /\ \A i \in 1..(Len(q) - 1) : Tail(q)[i] = q[i + 1]
  OBVIOUS
<1>2. \A i, j \in 1..Len(q) : q[i] = q[j] => i = j
  BY <1>1 DEF IsInjective
<1>3. ASSUME NEW i \in 1..(Len(q) - 1)
      PROVE  i + 1 \in 1..Len(q) /\ 1 \in 1..Len(q) /\ i + 1 # 1
  BY <1>1
<1>4. ASSUME NEW i \in 1..(Len(q) - 1), NEW j \in 1..(Len(q) - 1),
             Tail(q)[i] = Tail(q)[j]
      PROVE  i = j
  <2>1. i + 1 = j + 1
    BY <1>1, <1>2, <1>3, <1>4
  <2>2. QED
    BY <2>1
<1>5. ASSUME NEW i \in 1..(Len(q) - 1) PROVE Tail(q)[i] # Head(q)
  BY <1>1, <1>2, <1>3
<1>6. QED
  BY <1>1, <1>4, <1>5 DEF IsInjective, ToSet

(* Two queues that share nothing stay distinct when they are joined. *)
LEMMA InjectiveConcat ==
  ASSUME NEW S, NEW q \in Seq(S), NEW r \in Seq(S), IsInjective(q), IsInjective(r),
         ToSet(q) \intersect ToSet(r) = {}
  PROVE  IsInjective(q \o r)
<1> DEFINE c == q \o r
<1>1. /\ Len(q) \in Nat /\ Len(r) \in Nat
      /\ DOMAIN q = 1..Len(q) /\ DOMAIN r = 1..Len(r)
      /\ DOMAIN c = 1..(Len(q) + Len(r))
      /\ \A i \in 1..(Len(q) + Len(r)) : c[i] = IF i <= Len(q) THEN q[i] ELSE r[i - Len(q)]
  OBVIOUS
<1>2. /\ \A i, j \in 1..Len(q) : q[i] = q[j] => i = j
      /\ \A i, j \in 1..Len(r) : r[i] = r[j] => i = j
  BY <1>1 DEF IsInjective
<1>3. \A i \in 1..Len(q), j \in 1..Len(r) : q[i] # r[j]
  BY <1>1 DEF ToSet
<1> HIDE DEF c
<1>4. ASSUME NEW i \in 1..(Len(q) + Len(r)), NEW j \in 1..(Len(q) + Len(r)), c[i] = c[j]
      PROVE  i = j
  <2>1. CASE i <= Len(q) /\ j <= Len(q)
    BY <1>1, <1>2, <1>4, <2>1
  <2>2. CASE i > Len(q) /\ j > Len(q)
    <3>1. i - Len(q) \in 1..Len(r) /\ j - Len(q) \in 1..Len(r)
      BY <1>1, <2>2
    <3>2. c[i] = r[i - Len(q)] /\ c[j] = r[j - Len(q)]
      BY <1>1, <2>2
    <3>3. i - Len(q) = j - Len(q)
      BY <1>2, <1>4, <3>1, <3>2
    <3>4. QED
      BY <1>1, <3>3
  <2>3. CASE i <= Len(q) /\ j > Len(q)
    <3>1. i \in 1..Len(q) /\ j - Len(q) \in 1..Len(r)
      BY <1>1, <2>3
    <3>2. c[i] = q[i] /\ c[j] = r[j - Len(q)]
      BY <1>1, <2>3
    <3>3. QED
      BY <1>3, <1>4, <3>1, <3>2
  <2>4. CASE i > Len(q) /\ j <= Len(q)
    <3>1. j \in 1..Len(q) /\ i - Len(q) \in 1..Len(r)
      BY <1>1, <2>4
    <3>2. c[j] = q[j] /\ c[i] = r[i - Len(q)]
      BY <1>1, <2>4
    <3>3. QED
      BY <1>3, <1>4, <3>1, <3>2
  <2>5. QED
    BY <1>1, <2>1, <2>2, <2>3, <2>4
<1>5. QED
  BY <1>1, <1>4 DEF IsInjective, c

-----------------------------------------------------------------------------
(* A set of naturals that is not empty has a least element. *)
LEMMA LeastNatural ==
  ASSUME NEW T, T \subseteq Nat, T # {}
  PROVE  \E x \in T : \A y \in T : x <= y
<1> DEFINE R == OpToRel(<, Nat)
<1>1. IsWellFoundedOn(R, Nat)
  BY NatLessThanWellFounded
<1>2. \A x, y \in Nat : <<y, x>> \in R <=> y < x
  BY DEF OpToRel
<1> HIDE DEF R
<1>3. PICK x \in T : \A y \in T : ~ (<<y, x>> \in R)
  BY <1>1, WFMin
<1>4. ASSUME NEW y \in T PROVE x <= y
  <2>1. x \in Nat /\ y \in Nat
    OBVIOUS
  <2>2. ~(y < x)
    BY <1>2, <1>3, <2>1, Zenon
  <2>3. QED
    BY <2>1, <2>2
<1>5. QED
  BY <1>4

(* A set of naturals that has an upper bound and is not empty has a greatest
   element. *)
LEMMA GreatestNatural ==
  ASSUME NEW T, T \subseteq Nat, T # {}, NEW b \in Nat, \A y \in T : y <= b
  PROVE  \E x \in T : \A y \in T : y <= x
<1> DEFINE D == {b - y : y \in T}
<1>1. D \subseteq Nat /\ D # {}
  <2>1. \A y \in T : b - y \in Nat
    OBVIOUS
  <2>2. QED
    BY <2>1
<1>2. PICK d \in D : \A e \in D : d <= e
  BY <1>1, LeastNatural
<1>3. PICK x \in T : d = b - x
  BY <1>2
<1>4. ASSUME NEW y \in T PROVE y <= x
  <2>1. b - y \in D
    OBVIOUS
  <2>2. b - x <= b - y
    BY <1>2, <1>3, <2>1
  <2>3. QED
    BY <2>2
<1>5. QED
  BY <1>4

(* What holds of 0 and of the successor of each number it holds of holds of
   every number: induction, over the set of the numbers a property holds of. *)
LEMMA SetInduction ==
  ASSUME NEW S, 0 \in S, \A n \in Nat : n \in S => n + 1 \in S
  PROVE  Nat \subseteq S
<1> SUFFICES ASSUME NEW m \in Nat, m \notin S PROVE FALSE
  OBVIOUS
<1> DEFINE T == {n \in Nat : n \notin S}
<1>1. PICK x \in T : \A y \in T : x <= y
  BY LeastNatural
<1>2. x # 0 /\ x - 1 \in Nat
  BY <1>1
<1>3. x - 1 \in S
  BY <1>1, <1>2
<1>4. QED
  BY <1>1, <1>2, <1>3
=============================================================================
