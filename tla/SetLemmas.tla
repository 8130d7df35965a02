------------------------------ MODULE SetLemmas ------------------------------
(***************************************************************************)
(* Facts about finite sets of numbers that several proofs rest on.  The    *)
(* induction behind them is the least-element principle of the library     *)
(* (WFMin), which needs no operator for its parameter.                     *)
(***************************************************************************)
EXTENDS FiniteSetsExt, TLAPS, WellFoundedInduction, NaturalsInduction

\* A non-empty set of naturals has a least element.
LEMMA LeastIn ==
    ASSUME NEW S \in SUBSET Nat, S # {}
    PROVE  \E m \in S : \A y \in S : m <= y
<1> DEFINE R == {p \in Nat \X Nat : p[1] < p[2]}
<1>1. IsWellFoundedOn(R, Nat)
  BY NatLessThanWellFounded DEF OpToRel
<1>2. PICK x \in S : \A y \in S : ~(<<y, x>> \in R)
  <2> HIDE DEF R
  <2> QED BY <1>1, WFMin
<1>3. ASSUME NEW y \in S PROVE x <= y
  <2>1. ~(<<y, x>> \in R)
    <3> HIDE DEF R
    <3> QED BY <1>2
  <2> QED BY <2>1
<1> QED BY <1>3

\* A non-empty set of naturals below a bound has a greatest one ...
LEMMA MaxIn ==
    ASSUME NEW n \in Nat, NEW S \in SUBSET (0..n), S # {}
    PROVE  Max(S) \in S /\ \A y \in S : Max(S) >= y
<1> DEFINE T == {n - i : i \in S}
<1>1. PICK x \in T : \A y \in T : x <= y
  <2>1. T \in SUBSET Nat
    OBVIOUS
  <2>2. PICK i \in S : TRUE
    OBVIOUS
  <2>3. n - i \in T
    OBVIOUS
  <2> HIDE DEF T
  <2> QED BY <2>1, <2>3, LeastIn
<1>2. PICK m \in S : x = n - m
  OBVIOUS
<1>3. \A y \in S : m >= y
  BY <1>1, <1>2
<1> QED BY <1>3 DEF Max

LEMMA MaxIs ==
    ASSUME NEW n \in Nat, NEW S \in SUBSET (0..n), NEW m \in S, \A y \in S : m >= y
    PROVE  Max(S) = m
<1>1. Max(S) \in S /\ Max(S) >= m
  BY MaxIn
<1>2. \A x, y \in S : x >= y /\ y >= x => x = y
  OBVIOUS
<1> QED BY <1>1, <1>2

\* ... and a least one.
LEMMA MinIn ==
    ASSUME NEW S \in SUBSET Nat, S # {}
    PROVE  Min(S) \in S /\ \A y \in S : Min(S) <= y
BY LeastIn DEF Min

LEMMA MinIs ==
    ASSUME NEW S \in SUBSET Nat, NEW m \in S, \A y \in S : m <= y
    PROVE  Min(S) = m
<1>1. Min(S) \in S /\ Min(S) <= m
  BY MinIn
<1>2. \A x, y \in S : x <= y /\ y <= x => x = y
  OBVIOUS
<1> QED BY <1>1, <1>2

\* Induction from m on, over the set of the numbers that have the property.
LEMMA AllFrom ==
    ASSUME NEW m \in Nat, NEW T, m \in T,
           \A k \in Nat : k >= m /\ k \in T => k + 1 \in T
    PROVE  \A k \in Nat : k >= m => k \in T
<1> DEFINE Out == {k \in Nat : k >= m /\ k \notin T}
<1>1. ASSUME Out # {} PROVE FALSE
  <2>1. PICK k \in Out : \A y \in Out : k <= y
    BY <1>1, LeastIn
  <2>2. k \in Nat /\ k > m /\ k \notin T
    OBVIOUS
  <2>3. k - 1 \in Nat /\ k - 1 >= m /\ k - 1 \notin Out /\ (k - 1) + 1 = k
    BY <2>1, <2>2
  <2>4. k - 1 \in T
    BY <2>3
  <2> QED BY <2>2, <2>3, <2>4
<1> QED BY <1>1

\* f is what a recursion from a on makes of x, one step per number up to m.
Iterates(f, S, step, x, a, m) ==
    /\ f \in [a..m -> S]
    /\ f[a] = x
    /\ \A i \in (a + 1)..m : f[i] = step[<<i, f[i - 1]>>]

\* Every recursion has a solution.
LEMMA Recursion ==
    ASSUME NEW a \in Nat, NEW m \in Nat, a <= m, NEW S, NEW x \in S,
           NEW step \in [Nat \X S -> S]
    PROVE  \E f : Iterates(f, S, step, x, a, m)
<1> DEFINE T == {k \in Nat : \E f : Iterates(f, S, step, x, a, k)}
<1>1. a \in T
  <2>1. Iterates([i \in a..a |-> x], S, step, x, a, a)
    BY DEF Iterates
  <2> QED BY <2>1
<1>2. ASSUME NEW k \in Nat, k >= a, k \in T PROVE k + 1 \in T
  <2>1. PICK f : Iterates(f, S, step, x, a, k)
    BY <1>2
  <2> DEFINE g == [i \in a..(k + 1) |-> IF i = k + 1 THEN step[<<i, f[k]>>] ELSE f[i]]
  <2>2. f[k] \in S
    BY <1>2, <2>1 DEF Iterates
  <2>3. ASSUME NEW i \in (a + 1)..(k + 1) PROVE g[i] = step[<<i, g[i - 1]>>]
    <3>1. CASE i = k + 1
      BY <1>2, <3>1
    <3>2. CASE i # k + 1
      <4>1. g[i] = f[i] /\ g[i - 1] = f[i - 1] /\ i \in (a + 1)..k
        BY <1>2, <3>2
      <4> QED BY <2>1, <4>1 DEF Iterates
    <3> QED BY <3>1, <3>2
  <2>4. g[a] = x /\ g \in [a..(k + 1) -> S]
    BY <1>2, <2>1, <2>2 DEF Iterates
  <2>5. Iterates(g, S, step, x, a, k + 1)
    <3> HIDE DEF g
    <3> QED BY <2>3, <2>4 DEF Iterates
  <2> QED BY <2>5
<1>3. \A k \in Nat : k >= a => k \in T
  <2> HIDE DEF T
  <2> QED BY <1>1, <1>2, AllFrom
<1> QED BY <1>3

\* g does as the recursion does wherever it has a value in S.
Follows(g, S, step, x, a, m) ==
    /\ g[a] = x
    /\ \A i \in (a + 1)..m : g[i - 1] \in S => g[i] = step[<<i, g[i - 1]>>]

LEMMA FollowsIterates ==
    ASSUME NEW a \in Nat, NEW m \in Nat, NEW S, NEW x \in S,
           NEW step \in [Nat \X S -> S], NEW g,
           g = [i \in a..m |-> g[i]], Follows(g, S, step, x, a, m)
    PROVE  Iterates(g, S, step, x, a, m)
<1> DEFINE T == {k \in Nat : k <= m => g[k] \in S}
<1>1. a \in T
  BY DEF Follows
<1>2. ASSUME NEW k \in Nat, k >= a, k \in T PROVE k + 1 \in T
  <2>1. SUFFICES ASSUME k + 1 <= m PROVE g[k + 1] \in S
    OBVIOUS
  <2>2. k + 1 \in (a + 1)..m /\ (k + 1) - 1 = k /\ g[k] \in S
    BY <1>2, <2>1
  <2>3. g[k + 1] = step[<<k + 1, g[k]>>]
    BY <2>2 DEF Follows
  <2> QED BY <2>2, <2>3
<1>3. \A k \in Nat : k >= a => k \in T
  <2> HIDE DEF T
  <2> QED BY <1>1, <1>2, AllFrom
<1>4. \A k \in Nat : k >= a /\ k <= m => g[k] \in S
  BY <1>3
<1>5. g \in [a..m -> S]
  BY <1>4
<1>6. \A i \in (a + 1)..m : g[i - 1] \in S
  BY <1>4
<1> QED BY <1>5, <1>6 DEF Follows, Iterates

\* The shorter of two solutions is the beginning of the longer one.
LEMMA SolutionsAgree ==
    ASSUME NEW a \in Nat, NEW k \in Nat, NEW m \in Nat, k <= m, NEW S, NEW x, NEW step,
           NEW f, NEW g, Iterates(f, S, step, x, a, k), Iterates(g, S, step, x, a, m)
    PROVE  \A i \in a..k : f[i] = g[i]
<1> DEFINE T == {i \in Nat : i <= k => f[i] = g[i]}
<1>1. a \in T
  BY DEF Iterates
<1>2. ASSUME NEW i \in Nat, i >= a, i \in T PROVE i + 1 \in T
  <2>1. SUFFICES ASSUME i + 1 <= k PROVE f[i + 1] = g[i + 1]
    OBVIOUS
  <2>2. i + 1 \in (a + 1)..k /\ i + 1 \in (a + 1)..m /\ (i + 1) - 1 = i /\ f[i] = g[i]
    BY <1>2, <2>1
  <2> QED BY <2>2 DEF Iterates
<1>3. \A i \in Nat : i >= a => i \in T
  <2> HIDE DEF T
  <2> QED BY <1>1, <1>2, AllFrom
<1> QED BY <1>3

=============================================================================
