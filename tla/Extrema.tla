------------------------------ MODULE Extrema ------------------------------
(***************************************************************************)
(* Every scan of the C code that looks for a first, a smallest or a largest*)
(* element finds one: facts about Min and Max on sets of naturals.         *)
(***************************************************************************)
EXTENDS Integers, FiniteSets, FiniteSetsExt, FiniteSetTheorems, WellFoundedInduction, TLAPS

\* Every nonempty set of naturals has a smallest element, and Min chooses it.
LEMMA NatMin ==
    ASSUME NEW S, S \subseteq Nat, S # {}
    PROVE  Min(S) \in S /\ \A y \in S : Min(S) <= y
<1>1. PICK x \in S : \A y \in S : ~(<<y, x>> \in OpToRel(<, Nat))
  BY NatLessThanWellFounded, WFMin, Zenon
<1>2. \A y \in S : ~(y < x)
  BY <1>1 DEF OpToRel
<1>3. \A y \in S : x <= y
  BY <1>2
<1> QED BY <1>3 DEF Min

\* Every nonempty finite set of naturals has a largest element. Otherwise take a smallest such set without one, and
\* remove an element.
LEMMA FiniteMax ==
    ASSUME NEW S, IsFiniteSet(S), S \subseteq Nat, S # {}
    PROVE  \E m \in S : \A y \in S : m >= y
<1> DEFINE HasMax(T) == \E m \in T : \A y \in T : m >= y
           Bad == {T \in FiniteSubsetsOf(S) : T # {} /\ ~HasMax(T)}
<1> SUFFICES ASSUME Bad # {} PROVE FALSE
  <2>1. S \in FiniteSubsetsOf(S)
    BY DEF FiniteSubsetsOf
  <2> QED BY <2>1
<1>1. Bad \subseteq FiniteSubsetsOf(S)
  OBVIOUS
<1>2. IsWellFoundedOn(StrictSubsetOrdering(S), FiniteSubsetsOf(S))
  BY FS_StrictSubsetOrderingWellFounded
<1>3. PICK T \in Bad : \A U \in Bad : <<U, T>> \notin StrictSubsetOrdering(S)
  <2> HIDE DEF Bad
  <2> QED BY <1>1, <1>2, WFMin
<1>4. T \subseteq S /\ T # {} /\ IsFiniteSet(T)
  BY DEF FiniteSubsetsOf
<1>5. PICK a \in T : TRUE
  BY <1>4
<1> DEFINE U == T \ {a}
<1>6. U \in FiniteSubsetsOf(S) /\ <<U, T>> \in StrictSubsetOrdering(S)
  <2>1. U \subseteq S /\ U \subseteq T /\ U # T
    BY <1>4, <1>5
  <2>2. IsFiniteSet(U)
    BY <1>4, <2>1, FS_Subset
  <2> QED BY <2>1, <2>2, <1>4 DEF FiniteSubsetsOf, StrictSubsetOrdering
<1>7. U = {} \/ HasMax(U)
  BY <1>3, <1>6
<1>8. CASE U = {}
  <2>1. T = {a} /\ a \in Nat
    BY <1>4, <1>5, <1>8
  <2> QED BY <2>1, <1>3
<1>9. CASE HasMax(U)
  <2>1. PICK m \in U : \A y \in U : m >= y
    BY <1>9
  <2>2. m \in T /\ m \in Nat /\ a \in Nat /\ \A y \in T : y \in U \/ y = a
    BY <1>4, <1>5, <2>1
  <2>3. HasMax(T)
    <3>1. CASE m >= a
      BY <2>1, <2>2, <3>1
    <3>2. CASE ~(m >= a)
      <4>1. \A y \in U : y \in Nat
        BY <1>4
      <4> QED BY <2>1, <2>2, <3>2, <4>1, <1>5
    <3> QED BY <3>1, <3>2
  <2> QED BY <2>3, <1>3
<1> QED BY <1>7, <1>8, <1>9
=============================================================================
