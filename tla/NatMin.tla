------------------------------- MODULE NatMin -------------------------------
(* Min of FiniteSetsExt, for the proofs: on sets of naturals and on the    *)
(* values of a function with a finite domain.                              *)
EXTENDS Integers, FiniteSetsExt, FiniteSetTheorems, WellFoundedInduction, TLAPS

(* The less-than relation on Nat, first order. *)
LessThan == {ss \in Nat \X Nat : ss[1] < ss[2]}

LEMMA LessThanWellFounded == IsWellFoundedOn(LessThan, Nat)
BY NatLessThanWellFounded, Zenon DEF OpToRel, LessThan

(* A non-empty set of naturals has a least element, and Min is it. *)
LEMMA MinNat ==
  ASSUME NEW S \in SUBSET Nat, S # {}
  PROVE  Min(S) \in S /\ \A y \in S : Min(S) <= y
<1>1. \E x \in S : \A y \in S : ~(<<y, x>> \in LessThan)
  BY LessThanWellFounded, WFMin, Zenon
<1>2. PICK x \in S : \A y \in S : ~(<<y, x>> \in LessThan)
  BY <1>1
<1>3. ASSUME NEW y \in S, y < x PROVE FALSE
  <2>1. <<y, x>> \in Nat \X Nat
    OBVIOUS
  <2>2. <<y, x>>[1] = y /\ <<y, x>>[2] = x
    OBVIOUS
  <2>3. <<y, x>>[1] < <<y, x>>[2]
    BY <1>3, <2>2, Zenon
  <2>4. <<y, x>> \in LessThan
    BY <2>1, <2>3, Zenon DEF LessThan
  <2> QED
    BY <2>4, <1>2
<1>4. \A y \in S : x <= y
  BY <1>3
<1> QED
  BY <1>4 DEF Min

(* A function takes a least value on a finite set.  Of the sets of places  *)
(* where it is at most f[x], one is contained in none of the others.       *)
LEMMA MinValue ==
  ASSUME NEW D, IsFiniteSet(D), D # {}, NEW f, \A x \in D : f[x] \in Int
  PROVE  /\ \E x \in D : f[x] = Min({f[y] : y \in D})
         /\ \A x \in D : Min({f[y] : y \in D}) <= f[x]
<1> DEFINE Below(x) == {y \in D : f[y] <= f[x]}
           T == {Below(x) : x \in D}
           R == StrictSubsetOrdering(D)
<1>1. IsWellFoundedOn(R, SUBSET D)
  BY FS_FiniteSubsetsOfFinite, FS_StrictSubsetOrderingWellFounded, Zenon
<1>2. T \subseteq SUBSET D /\ T # {}
  OBVIOUS
<1>3. \E A \in T : \A B \in T : ~(<<B, A>> \in R)
  <2> HIDE DEF T, R
  <2> QED BY <1>1, <1>2, WFMin, Zenon
<1>4. PICK x \in D : \A B \in T : ~(<<B, Below(x)>> \in R)
  BY <1>3
<1>5. ASSUME NEW y \in D, f[y] < f[x] PROVE FALSE
  <2>1. Below(y) \in T /\ Below(y) \in SUBSET D /\ Below(x) \in SUBSET D
    OBVIOUS
  <2>2. Below(y) \subseteq Below(x)
    BY <1>5
  <2>3. x \in Below(x) /\ x \notin Below(y)
    BY <1>5
  <2>4. <<Below(y), Below(x)>> \in (SUBSET D) \X (SUBSET D)
    BY <2>1
  <2>5. Below(y) # Below(x)
    BY <2>3
  <2> HIDE DEF Below
  <2>6. <<Below(y), Below(x)>> \in R
    <3> DEFINE a == Below(y)  b == Below(x)
    <3>1. <<a, b>> \in (SUBSET D) \X (SUBSET D) /\ a \subseteq b /\ a # b
      BY <2>2, <2>4, <2>5
    <3> HIDE DEF a, b
    <3>2. <<a, b>>[1] = a /\ <<a, b>>[2] = b
      OBVIOUS
    <3>3. <<a, b>>[1] \subseteq <<a, b>>[2] /\ <<a, b>>[1] # <<a, b>>[2]
      BY <3>1, <3>2, Zenon
    <3>4. <<a, b>> \in R
      BY <3>1, <3>3, Zenon DEF StrictSubsetOrdering
    <3> QED
      BY <3>4 DEF a, b
  <2> QED
    BY <1>4, <2>1, <2>6
<1> DEFINE V == {f[y] : y \in D}
<1>6. f[x] \in V /\ \A v \in V : f[x] <= v
  BY <1>5
<1>7. Min(V) \in V /\ \A v \in V : Min(V) <= v
  BY <1>6 DEF Min
<1> QED
  BY <1>7
=============================================================================
