------------------------------- MODULE Loops -------------------------------
(***************************************************************************)
(* Induction over the calls of a loop, for the handlers that make one call *)
(* after the other: a recursive function over the number of calls exists,  *)
(* and keeps what every call keeps.                                        *)
(***************************************************************************)
EXTENDS Integers, NaturalsInduction, WellFoundedInduction, TLAPS

\* Induction over the naturals, with a set in place of a predicate.
LEMMA Ascent ==
    ASSUME NEW T, 0 \in T, \A n \in Nat : n \in T => n + 1 \in T
    PROVE  Nat \subseteq T
<1> DEFINE R == {p \in Nat \X Nat : p[1] < p[2]}
<1>1. IsWellFoundedOn(R, Nat)
  BY NatLessThanWellFounded DEF OpToRel
<1> SUFFICES ASSUME Nat \ T # {} PROVE FALSE
  OBVIOUS
<1>2. PICK m \in Nat \ T : \A y \in Nat \ T : ~(<<y, m>> \in R)
  <2> HIDE DEF R
  <2>1. Nat \ T \subseteq Nat
    OBVIOUS
  <2> QED BY <1>1, <2>1, WFMin
<1>3. \A y \in Nat \ T : ~(y < m)
  BY <1>2
<1> HIDE DEF R
<1>4. m # 0 /\ m - 1 \in Nat /\ m - 1 < m
  OBVIOUS
<1>5. m - 1 \in T
  BY <1>3, <1>4
<1> QED BY <1>4, <1>5

\* The same up to a number.
LEMMA UpTo ==
    ASSUME NEW n \in Nat, NEW T, 0 \in T, \A i \in 1..n : i - 1 \in T => i \in T
    PROVE  0..n \subseteq T
<1> DEFINE U == {m \in Nat : m <= n => m \in T}
<1>1. 0 \in U
  OBVIOUS
<1>2. ASSUME NEW m \in Nat, m \in U PROVE m + 1 \in U
  <2> SUFFICES ASSUME m + 1 <= n PROVE m + 1 \in T
    OBVIOUS
  <2>1. m \in T /\ m + 1 \in 1..n /\ (m + 1) - 1 = m
    BY <1>2
  <2> QED BY <2>1
<1> HIDE DEF U
<1>3. Nat \subseteq U
  BY <1>1, <1>2, Ascent
<1> QED BY <1>3 DEF U

\* h[i] is the state after the i-th call.
Follows(h, f, s, n) == h[0] = s /\ \A i \in 1..n : h[i] = f[<<h[i - 1], i>>]

\* A loop of n calls runs: the function of what each call leaves exists.
LEMMA LoopRuns ==
    ASSUME NEW S, NEW s \in S, NEW n \in Nat, NEW f \in [S \X (1..n) -> S]
    PROVE  \E h \in [0..n -> S] : Follows(h, f, s, n)
<1> DEFINE T == {m \in Nat : m <= n => \E h \in [0..m -> S] : Follows(h, f, s, m)}
<1>1. 0 \in T
  <2>1. [i \in 0..0 |-> s] \in [0..0 -> S]
    OBVIOUS
  <2>2. Follows([i \in 0..0 |-> s], f, s, 0)
    BY DEF Follows
  <2> QED BY <2>1, <2>2
<1>2. ASSUME NEW m \in Nat, m \in T PROVE m + 1 \in T
  <2> SUFFICES ASSUME m + 1 <= n PROVE \E h \in [0..(m + 1) -> S] : Follows(h, f, s, m + 1)
    OBVIOUS
  <2>1. PICK h \in [0..m -> S] : Follows(h, f, s, m)
    BY <1>2
  <2>2. PICK g : g = [i \in 0..(m + 1) |-> IF i = m + 1 THEN f[<<h[m], m + 1>>] ELSE h[i]]
    OBVIOUS
  <2>3. h[m] \in S /\ m + 1 \in 1..n
    BY <2>1
  <2>4. g \in [0..(m + 1) -> S]
    BY <2>1, <2>2, <2>3
  <2>5. g[m + 1] = f[<<h[m], m + 1>>] /\ \A i \in 0..m : g[i] = h[i]
    BY <2>2
  <2>6. ASSUME NEW i \in 1..(m + 1) PROVE g[i] = f[<<g[i - 1], i>>]
    <3>1. CASE i = m + 1
      BY <2>5, <3>1
    <3>2. CASE i \in 1..m
      <4>1. i - 1 \in 0..m /\ i \in 0..m
        BY <3>2
      <4> QED BY <2>1, <2>5, <3>2, <4>1 DEF Follows
    <3> QED BY <3>1, <3>2
  <2>7. g[0] = s
    BY <2>1, <2>5 DEF Follows
  <2>8. Follows(g, f, s, m + 1)
    BY <2>6, <2>7 DEF Follows
  <2> QED BY <2>4, <2>8
<1> HIDE DEF T
<1>3. Nat \subseteq T
  BY <1>1, <1>2, Ascent
<1> QED BY <1>3 DEF T

\* What holds at first and is kept by every call holds after each of them.
LEMMA LoopStays ==
    ASSUME NEW n \in Nat, NEW S, NEW h, h = [i \in 0..n |-> h[i]], h[0] \in S,
           \A i \in 1..n : h[i - 1] \in S => h[i] \in S
    PROVE  h \in [0..n -> S]
<1> DEFINE T == {i \in 0..n : h[i] \in S}
<1>1. 0 \in T
  OBVIOUS
<1>2. ASSUME NEW i \in 1..n, i - 1 \in T PROVE i \in T
  BY <1>2
<1> HIDE DEF T
<1>3. 0..n \subseteq T
  BY <1>1, <1>2, UpTo
<1>4. \A i \in 0..n : h[i] \in S
  BY <1>3 DEF T
<1> QED BY <1>4
=============================================================================
