--------------------------- MODULE InductionLemmas ---------------------------
(***************************************************************************)
(* Induction over the natural numbers in a form the provers can use: over  *)
(* a set instead of over a predicate.  The library derives it from the     *)
(* least element of a set of naturals (WFMin).  And what it is used for:   *)
(* that a step can be iterated, which is what a recursive function needs   *)
(* to be there.  Lemmas only; nothing here is about the code.              *)
(***************************************************************************)
EXTENDS Integers, WellFoundedInduction, TLAPS

(* A set with 0, and with n + 1 whenever with n, has every natural.        *)
THEOREM SetInduction ==
    ASSUME NEW S, 0 \in S, \A n \in Nat : n \in S => n + 1 \in S
    PROVE  Nat \subseteq S
<1> DEFINE less == OpToRel(<, Nat)
<1> SUFFICES ASSUME Nat \ S # {} PROVE FALSE
  OBVIOUS
<1>1. \A x, y \in Nat : <<y, x>> \in less <=> y < x
  BY DEF OpToRel
<1>2. PICK x \in Nat \ S : \A y \in Nat \ S : <<y, x>> \notin less
  <2> HIDE DEF less
  <2>1. IsWellFoundedOn(less, Nat)
    BY NatLessThanWellFounded DEF less
  <2> QED BY <2>1, WFMin, Zenon
<1>3. x # 0
  BY <1>2
<1>4. x - 1 \in Nat /\ x - 1 < x /\ (x - 1) + 1 = x
  <2>1. x \in Nat
    BY <1>2
  <2> HIDE DEF less
  <2> QED BY <1>3, <2>1
<1>5. x - 1 \in S
  <2> HIDE DEF less
  <2> QED BY <1>1, <1>2, <1>4
<1> QED BY <1>2, <1>4, <1>5

(* The beginnings, up to n, of the iteration of step from a.               *)
Beginnings(T, a, step, n) ==
    {g \in [0 .. n -> T] : g[0] = a /\ \A i \in 0 .. n - 1 : g[i + 1] = step[g[i]]}

(* Two of them agree where both are defined.                               *)
LEMMA BeginningsAgree ==
    ASSUME NEW T, NEW a, NEW step, NEW m \in Nat, NEW n \in Nat,
           NEW g \in Beginnings(T, a, step, m), NEW h \in Beginnings(T, a, step, n)
    PROVE  \A i \in Nat : i <= m /\ i <= n => g[i] = h[i]
<1> DEFINE S == {i \in Nat : i <= m /\ i <= n => g[i] = h[i]}
<1>1. 0 \in S
  BY DEF Beginnings
<1>2. ASSUME NEW i \in Nat, i \in S PROVE i + 1 \in S
  <2> SUFFICES ASSUME i + 1 <= m, i + 1 <= n PROVE g[i + 1] = h[i + 1]
    OBVIOUS
  <2>1. i \in 0 .. m - 1 /\ i \in 0 .. n - 1
    OBVIOUS
  <2>2. g[i] = h[i]
    BY <1>2
  <2> QED BY <2>1, <2>2 DEF Beginnings
<1>3. Nat \subseteq S
  <2> HIDE DEF S
  <2> QED BY <1>1, <1>2, SetInduction
<1> QED BY <1>3

(* There is one of every length.                                           *)
LEMMA BeginningsExist ==
    ASSUME NEW T, NEW a \in T, NEW step \in [T -> T]
    PROVE  \A n \in Nat : Beginnings(T, a, step, n) # {}
<1> DEFINE S == {n \in Nat : Beginnings(T, a, step, n) # {}}
<1>1. 0 \in S
  <2>1. [i \in 0 .. 0 |-> a] \in Beginnings(T, a, step, 0)
    BY DEF Beginnings
  <2> QED BY <2>1
<1>2. ASSUME NEW n \in Nat, n \in S PROVE n + 1 \in S
  <2>1. PICK g \in Beginnings(T, a, step, n) : TRUE
    BY <1>2
  <2> DEFINE h == [i \in 0 .. n + 1 |-> IF i = n + 1 THEN step[g[n]] ELSE g[i]]
  <2>2. h \in [0 .. n + 1 -> T] /\ h[0] = a
    BY <2>1 DEF Beginnings
  <2>3. ASSUME NEW i \in 0 .. (n + 1) - 1 PROVE h[i + 1] = step[h[i]]
    <3>1. CASE i = n
      BY <3>1
    <3>2. CASE i # n
      <4>1. i \in 0 .. n - 1 /\ i \in 0 .. n /\ i + 1 \in 0 .. n
        BY <3>2
      <4>2. h[i] = g[i] /\ h[i + 1] = g[i + 1]
        BY <4>1
      <4> QED BY <2>1, <4>1, <4>2 DEF Beginnings
    <3> QED BY <3>1, <3>2
  <2>4. h \in Beginnings(T, a, step, n + 1)
    <3> HIDE DEF h
    <3> QED BY <2>2, <2>3 DEF Beginnings
  <2> QED BY <2>4
<1>3. Nat \subseteq S
  <2> HIDE DEF S
  <2> QED BY <1>1, <1>2, SetInduction
<1> QED BY <1>3

Iterates(f, T, a, step) ==
    f \in [Nat -> T] /\ f[0] = a /\ \A n \in Nat : f[n + 1] = step[f[n]]

(* A step of a set into itself can be iterated from any element.           *)
THEOREM Iteration ==
    ASSUME NEW T, NEW a \in T, NEW step \in [T -> T]
    PROVE  \E f : Iterates(f, T, a, step)
<1> DEFINE B(n) == Beginnings(T, a, step, n)
           pick(n) == CHOOSE g \in B(n) : TRUE
           f == [n \in Nat |-> pick(n)[n]]
<1>1. ASSUME NEW n \in Nat PROVE pick(n) \in B(n)
  BY BeginningsExist
<1>2. f \in [Nat -> T]
  <2> SUFFICES ASSUME NEW n \in Nat PROVE pick(n)[n] \in T
    OBVIOUS
  <2> HIDE DEF pick
  <2> QED BY <1>1 DEF Beginnings
<1>3. f[0] = a
  <2>1. f[0] = pick(0)[0] /\ 0 \in Nat
    OBVIOUS
  <2> HIDE DEF pick, f
  <2> QED BY <1>1, <2>1 DEF Beginnings
<1>4. ASSUME NEW n \in Nat PROVE f[n + 1] = step[f[n]]
  <2>1. f[n] = pick(n)[n] /\ f[n + 1] = pick(n + 1)[n + 1]
    OBVIOUS
  <2> HIDE DEF pick, f
  <2>2. n + 1 \in Nat /\ n \in 0 .. (n + 1) - 1
    OBVIOUS
  <2>3. pick(n) \in B(n) /\ pick(n + 1) \in B(n + 1)
    BY <1>1, <2>2
  <2>4. pick(n + 1)[n + 1] = step[pick(n + 1)[n]]
    BY <2>2, <2>3 DEF Beginnings
  <2>5. pick(n + 1)[n] = pick(n)[n]
    BY <2>2, <2>3, BeginningsAgree
  <2> QED BY <2>1, <2>4, <2>5
<1>5. Iterates(f, T, a, step)
  <2> HIDE DEF f
  <2> QED BY <1>2, <1>3, <1>4 DEF Iterates
<1> HIDE DEF f
<1> QED BY <1>5
==============================================================================
