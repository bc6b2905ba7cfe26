------------------------------- MODULE Induction -------------------------------
(***************************************************************************)
(* Induction over the naturals and recursive definition on an interval,    *)
(* stated about sets and functions only, so that the provers can apply     *)
(* them.  (The library's induction theorems are about operators.)          *)
(***************************************************************************)
EXTENDS Integers, WellFoundedInduction, TLAPS

\* A set that contains zero and the successor of each of its naturals contains
\* all naturals.
LEMMA SetInduction ==
  ASSUME NEW S, 0 \in S, \A n \in Nat : n \in S => n + 1 \in S
  PROVE  Nat \subseteq S
<1> SUFFICES ASSUME NEW k \in Nat, k \notin S PROVE FALSE
  OBVIOUS
<1> DEFINE T == Nat \ S
<1>1. T # {} /\ T \subseteq Nat
  OBVIOUS
<1>2. PICK m \in T : \A y \in T : <<y, m>> \notin OpToRel(<, Nat)
  <2> HIDE DEF T
  <2> QED BY <1>1, NatLessThanWellFounded, WFMin
<1>3. m \in Nat /\ m \notin S
  OBVIOUS
<1>4. \A y \in Nat : y < m => y \in S
  BY <1>2, <1>3 DEF OpToRel
<1>5. m - 1 \in Nat
  BY <1>3
<1>6. (m - 1) + 1 = m /\ m - 1 < m
  BY <1>3
<1> QED BY <1>3, <1>4, <1>5, <1>6

\* The same for an interval.
LEMMA IntervalInduction ==
  ASSUME NEW a \in Int, NEW b \in Int, NEW S, a <= b => a \in S,
         \A i \in a .. b - 1 : i \in S => i + 1 \in S
  PROVE  a .. b \subseteq S
<1> DEFINE T == {n \in Nat : a + n <= b => a + n \in S}
<1>1. 0 \in T
  OBVIOUS
<1>2. ASSUME NEW n \in Nat, n \in T PROVE n + 1 \in T
  <2> SUFFICES ASSUME a + (n + 1) <= b PROVE a + (n + 1) \in S
    OBVIOUS
  <2>1. a + n \in a .. b - 1 /\ a + n \in S
    BY <1>2
  <2>2. (a + n) + 1 = a + (n + 1)
    OBVIOUS
  <2> QED BY <2>1, <2>2
<1>3. Nat \subseteq T
  <2> HIDE DEF T
  <2> QED BY <1>1, <1>2, SetInduction
<1> SUFFICES ASSUME NEW i \in a .. b PROVE i \in S
  OBVIOUS
<1>4. i - a \in Nat /\ a + (i - a) = i /\ i <= b
  OBVIOUS
<1>5. i - a \in T
  BY <1>3, <1>4
<1> QED BY <1>4, <1>5

\* The equations of a recursion on a .. b, for a given first value and step.
Unfolds(f, a, b, first, step) ==
  f[a] = first /\ \A i \in a + 1 .. b : f[i] = step[<<f[i - 1], i>>]

\* What a recursion defines, exists: from a first value and a step that stays
\* within V, a function on a .. b.
LEMMA RecursionExists ==
  ASSUME NEW a \in Int, NEW b \in Int, a <= b, NEW V, NEW first \in V,
         NEW step \in [V \X Int -> V]
  PROVE  \E f \in [a .. b -> V] : Unfolds(f, a, b, first, step)
<1> DEFINE Defined(f, c) == \A i \in a .. c :
                              f[i] = IF i = a THEN first ELSE step[<<f[i - 1], i>>]
           S == {c \in Int : \E f \in [a .. c -> V] : Defined(f, c)}
<1>1. a \in S
  <2>1. [i \in a .. a |-> first] \in [a .. a -> V]
    OBVIOUS
  <2>2. Defined([i \in a .. a |-> first], a)
    OBVIOUS
  <2> QED BY <2>1, <2>2
<1>2. ASSUME NEW c \in a .. b - 1, c \in S PROVE c + 1 \in S
  <2>1. PICK f \in [a .. c -> V] : Defined(f, c)
    BY <1>2
  <2> DEFINE g == [i \in a .. c + 1 |-> IF i = c + 1 THEN step[<<f[c], i>>] ELSE f[i]]
  <2>2. \A i \in a .. c + 1 : i = c + 1 \/ i \in a .. c
    OBVIOUS
  <2>3. f[c] \in V /\ step[<<f[c], c + 1>>] \in V
    OBVIOUS
  <2>4. g \in [a .. c + 1 -> V]
    BY <2>2, <2>3
  <2>5. \A i \in a .. c : g[i] = f[i]
    OBVIOUS
  <2>6. g[c + 1] = step[<<g[c], c + 1>>] /\ c + 1 # a /\ (c + 1) - 1 = c
    BY <2>5
  <2>7. \A i \in a .. c : i # a => i - 1 \in a .. c
    OBVIOUS
  <2>8. ASSUME NEW i \in a .. c + 1
        PROVE  g[i] = IF i = a THEN first ELSE step[<<g[i - 1], i>>]
    <3>1. CASE i = c + 1
      BY <3>1, <2>6
    <3>2. CASE i \in a .. c
      <4> HIDE DEF g
      <4> QED BY <3>2, <2>1, <2>5, <2>7
    <3> QED BY <3>1, <3>2, <2>2
  <2>9. Defined(g, c + 1)
    BY <2>8
  <2>10. c + 1 \in Int
    OBVIOUS
  <2> HIDE DEF g, Defined
  <2> QED BY <2>4, <2>9, <2>10
<1>3. b \in S
  <2> HIDE DEF S
  <2>1. a .. b \subseteq S
    BY <1>1, <1>2, IntervalInduction
  <2> QED BY <2>1
<1>4. PICK f \in [a .. b -> V] : Defined(f, b)
  BY <1>3
<1>5. a \in a .. b /\ \A i \in a + 1 .. b : i \in a .. b /\ i # a
  OBVIOUS
<1> QED BY <1>4, <1>5 DEF Unfolds
================================================================================
