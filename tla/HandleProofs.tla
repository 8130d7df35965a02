---------------------------- MODULE HandleProofs ----------------------------
(***************************************************************************)
(* Proofs about what a handle has beside its data: the matcher behind Keys *)
(* (Glob), the latencies (Latency) and its life cycle (Lifecycle), for     *)
(* patterns, names, rings and samples of any length and for any number of  *)
(* application goroutines.                                                 *)
(***************************************************************************)
EXTENDS MCSequential, Lifecycle, SetLemmas, FiniteSetTheorems

-----------------------------------------------------------------------------
(* What a pattern means *)

\* f is MatchedLengths(pat, name), as far as m.
Solves(f, pat, name, m) ==
    f = [i \in 0..m |-> IF i = 0 THEN {0} ELSE Extend(pat, name, i, f[i - 1])]

\* The recursion has a solution.
LEMMA SomePrefixes ==
    ASSUME NEW pat, NEW name, NEW m \in Nat
    PROVE  \E f : Solves(f, pat, name, m)
<1> DEFINE T == {k \in Nat : \E f : Solves(f, pat, name, k)}
<1>1. 0 \in T
  <2>1. Solves([i \in 0..0 |-> {0}], pat, name, 0)
    BY DEF Solves
  <2> QED BY <2>1
<1>2. ASSUME NEW k \in Nat, k \in T PROVE k + 1 \in T
  <2>1. PICK f : Solves(f, pat, name, k)
    BY <1>2
  <2> DEFINE g == [i \in 0..(k + 1) |-> IF i = k + 1 THEN Extend(pat, name, i, f[k]) ELSE f[i]]
  <2>2. ASSUME NEW i \in 0..(k + 1)
        PROVE  g[i] = IF i = 0 THEN {0} ELSE Extend(pat, name, i, g[i - 1])
    <3>1. CASE i = k + 1
      <4>1. g[i - 1] = f[k]
        BY <3>1
      <4> QED BY <3>1, <4>1
    <3>2. CASE i # k + 1
      <4>1. i \in 0..k /\ g[i] = f[i] /\ (i # 0 => i - 1 \in 0..k /\ g[i - 1] = f[i - 1])
        BY <3>2
      <4>2. f[i] = IF i = 0 THEN {0} ELSE Extend(pat, name, i, f[i - 1])
        BY <2>1, <4>1 DEF Solves
      <4> QED BY <4>1, <4>2
    <3> QED BY <3>1, <3>2
  <2>3. Solves(g, pat, name, k + 1)
    BY <2>2 DEF Solves
  <2> HIDE DEF g
  <2> QED BY <2>3
<1>3. \A k \in Nat : k >= 0 => k \in T
  <2> HIDE DEF T
  <2> QED BY <1>1, <1>2, AllFrom
<1> QED BY <1>3

LEMMA PrefixesSolves ==
    ASSUME NEW pat, NEW name, Len(pat) \in Nat
    PROVE  Solves(MatchedLengths(pat, name), pat, name, Len(pat))
<1>1. \E f : Solves(f, pat, name, Len(pat))
  BY SomePrefixes
<1>2. MatchedLengths(pat, name) = CHOOSE f : Solves(f, pat, name, Len(pat))
  BY DEF MatchedLengths, Solves
<1> QED BY <1>1, <1>2

LEMMA PrefixesDef ==
    ASSUME NEW pat, NEW name, Len(pat) \in Nat
    PROVE  /\ MatchedLengths(pat, name)[0] = {0}
           /\ \A i \in 1..Len(pat) :
                 MatchedLengths(pat, name)[i] = Extend(pat, name, i, MatchedLengths(pat, name)[i - 1])
BY PrefixesSolves DEF Solves

-----------------------------------------------------------------------------
(* The matcher: the lengths matched by the first i runes of the pattern *)

M == MatchedLengths(p, n)

Typed ==
    /\ p \in Seq(Runes \cup {Star, AnyRune}) /\ n \in Seq(NameRunes)
    /\ pi \in 1..(Len(p) + 1) /\ ni \in 1..(Len(n) + 1)
    /\ star \in 0..Len(p) /\ match \in 1..(Len(n) + 1)
    /\ star # 0 => p[star] = Star /\ star < pi /\ ni - match = pi - 1 - star
    /\ answer \in {"none", "yes", "no"}

LEMMA MDef ==
    ASSUME Typed
    PROVE  /\ Len(p) \in Nat /\ Len(n) \in Nat
           /\ M[0] = {0}
           /\ \A i \in 0..Len(p) : M[i] \subseteq 0..Len(n)
           /\ \A i \in 1..Len(p) :
                 /\ p[i] = Star => M[i] = {j \in 0..Len(n) : \E k \in M[i - 1] : k <= j}
                 /\ p[i] # Star => M[i] = {j \in 1..Len(n) : /\ j - 1 \in M[i - 1]
                                                             /\ p[i] \in {AnyRune, n[j]}}
<1>1. Len(p) \in Nat /\ Len(n) \in Nat
  BY DEF Typed
<1>2. M[0] = {0} /\ \A i \in 1..Len(p) : M[i] = Extend(p, n, i, M[i - 1])
  BY <1>1, PrefixesDef DEF M
<1>3. \A i \in 1..Len(p) : Extend(p, n, i, M[i - 1]) \subseteq 0..Len(n)
  BY <1>1 DEF Extend
<1>4. \A i \in 0..Len(p) : i = 0 \/ i \in 1..Len(p)
  BY <1>1
<1>5. {0} \subseteq 0..Len(n)
  BY <1>1
<1>6. \A i \in 0..Len(p) : M[i] \subseteq 0..Len(n)
  BY <1>2, <1>3, <1>4, <1>5
<1> QED BY <1>1, <1>2, <1>6 DEF Extend

\* A star takes any number of runes.
LEMMA StarTakes ==
    ASSUME Typed, NEW i \in 1..Len(p), p[i] = Star, NEW k \in M[i - 1],
           NEW j \in 0..Len(n), k <= j
    PROVE  j \in M[i]
<1>1. M[i] = {x \in 0..Len(n) : \E y \in M[i - 1] : y <= x}
  BY MDef
<1> QED BY <1>1

\* Nothing shorter than c is matched.
Low(i, c) == \A j \in M[i] : c <= j

LEMMA LowStep ==
    ASSUME Typed, NEW i \in 1..Len(p), NEW c \in Nat, Low(i - 1, c)
    PROVE  Low(i, c) /\ (p[i] # Star => Low(i, c + 1))
<1>1. i - 1 \in 0..Len(p) /\ i \in 0..Len(p)
  BY MDef
<1>2. M[i - 1] \subseteq Nat /\ M[i] \subseteq Nat
  BY <1>1, MDef
<1>3. CASE p[i] = Star
  BY <1>2, <1>3, MDef DEF Low
<1>4. CASE p[i] # Star
  <2>1. \A j \in M[i] : j \in Nat /\ j - 1 \in Nat /\ j - 1 \in M[i - 1]
    BY <1>2, <1>4, MDef
  <2>2. \A j \in M[i] : c <= j - 1
    BY <2>1 DEF Low
  <2> QED BY <1>4, <2>1, <2>2 DEF Low
<1> QED BY <1>3, <1>4

LEMMA LowOn ==
    ASSUME Typed, NEW i \in 0..Len(p), NEW c \in Nat, Low(i, c), NEW h \in i..Len(p)
    PROVE  Low(h, c)
<1> DEFINE T == {k \in Nat : k <= Len(p) => Low(k, c)}
<1>1. i \in Nat /\ h \in Nat /\ h >= i /\ h <= Len(p) /\ Len(p) \in Nat
  BY MDef
<1>2. i \in T
  BY <1>1
<1>3. ASSUME NEW k \in Nat, k >= i, k \in T PROVE k + 1 \in T
  <2>1. SUFFICES ASSUME k + 1 <= Len(p) PROVE Low(k + 1, c)
    OBVIOUS
  <2>2. k + 1 \in 1..Len(p) /\ (k + 1) - 1 = k /\ Low(k, c)
    BY <1>1, <1>3, <2>1
  <2> QED BY <2>2, LowStep
<1>4. \A k \in Nat : k >= i => k \in T
  <2> HIDE DEF T
  <2> QED BY <1>1, <1>2, <1>3, AllFrom
<1> QED BY <1>1, <1>4

\* If the rest are stars, a match of the whole name stays one.
LEMMA StarsOn ==
    ASSUME Typed, NEW i \in 0..Len(p), Len(n) \in M[i], \A h \in (i + 1)..Len(p) : p[h] = Star
    PROVE  Len(n) \in M[Len(p)]
<1> DEFINE T == {k \in Nat : k <= Len(p) => Len(n) \in M[k]}
<1>1. i \in Nat /\ Len(p) \in Nat /\ Len(p) >= i /\ Len(n) \in Nat
  BY MDef
<1>2. i \in T
  BY <1>1
<1>3. ASSUME NEW k \in Nat, k >= i, k \in T PROVE k + 1 \in T
  <2>1. SUFFICES ASSUME k + 1 <= Len(p) PROVE Len(n) \in M[k + 1]
    OBVIOUS
  <2>2. k + 1 \in 1..Len(p) /\ (k + 1) - 1 = k /\ Len(n) \in M[k] /\ p[k + 1] = Star
    BY <1>1, <1>3, <2>1
  <2> QED BY <1>1, <2>2, MDef
<1>4. \A k \in Nat : k >= i => k \in T
  <2> HIDE DEF T
  <2> QED BY <1>1, <1>2, <1>3, AllFrom
<1> QED BY <1>1, <1>4

\* There is no star among these runes.
Plain(i, h) == \A k \in (i + 1)..h : p[k] # Star

\* Runes without a star match as many runes of the name, one by one.
LEMMA PlainPart ==
    ASSUME Typed, NEW s \in 0..Len(p), NEW h \in s..Len(p), Plain(s, h), NEW j \in M[h]
    PROVE  /\ j - (h - s) \in M[s]
           /\ \A k \in (s + 1)..h : p[k] \in {AnyRune, n[j - (h - k)]}
<1> DEFINE Part(e, x) == /\ x - (e - s) \in M[s]
                         /\ \A k \in (s + 1)..e : p[k] \in {AnyRune, n[x - (e - k)]}
           T == {e \in Nat : e <= h => \A x \in M[e] : Part(e, x)}
<1>1. s \in Nat /\ h \in Nat /\ s <= h /\ h <= Len(p) /\ Len(p) \in Nat
  BY MDef
<1>2. s \in T
  <2>1. M[s] \subseteq Nat
    BY MDef
  <2>2. \A x \in M[s] : x - (s - s) = x
    BY <1>1, <2>1
  <2>3. (s + 1)..s = {}
    BY <1>1
  <2> QED BY <1>1, <2>2, <2>3
<1>3. ASSUME NEW e \in Nat, e >= s, e \in T PROVE e + 1 \in T
  <2>1. SUFFICES ASSUME e + 1 <= h, NEW x \in M[e + 1] PROVE Part(e + 1, x)
    OBVIOUS
  <2>2. e + 1 \in 1..Len(p) /\ (e + 1) - 1 = e /\ e + 1 \in (s + 1)..h /\ e <= h
    BY <1>1, <1>3, <2>1
  <2>3. p[e + 1] # Star
    BY <2>2 DEF Plain
  <2>4. x \in Nat /\ x - 1 \in Nat /\ x - 1 \in M[e] /\ p[e + 1] \in {AnyRune, n[x]}
    BY <2>1, <2>2, <2>3, MDef
  <2>5. Part(e, x - 1)
    BY <1>3, <2>2, <2>4
  <2>6. (x - 1) - (e - s) = x - ((e + 1) - s)
    BY <1>1, <2>4
  <2>7. ASSUME NEW k \in (s + 1)..(e + 1) PROVE p[k] \in {AnyRune, n[x - ((e + 1) - k)]}
    <3>1. CASE k = e + 1
      <4>1. x - ((e + 1) - k) = x
        BY <2>4, <3>1
      <4> QED BY <2>4, <3>1, <4>1
    <3>2. CASE k # e + 1
      <4>1. k \in (s + 1)..e /\ (x - 1) - (e - k) = x - ((e + 1) - k)
        BY <1>1, <2>4, <3>2
      <4> QED BY <2>5, <4>1
    <3> QED BY <3>1, <3>2
  <2> QED BY <2>5, <2>6, <2>7
<1>4. \A e \in Nat : e >= s => e \in T
  <2> HIDE DEF T
  <2> QED BY <1>1, <1>2, <1>3, AllFrom
<1> QED BY <1>1, <1>4

-----------------------------------------------------------------------------
(* A yes is right, whatever runes the name has *)

Sound ==
    /\ answer = "none" => ni - 1 \in M[pi - 1] /\ (star # 0 => match - 1 \in M[star])
    /\ answer = "yes" => Matches(p, n)

LEMMA TypedInit == GlobInit => Typed
<1> SUFFICES ASSUME GlobInit PROVE Typed
  OBVIOUS
<1>1. p \in Seq(Runes \cup {Star, AnyRune}) /\ n \in Seq(NameRunes)
  BY DEF GlobInit, Words
<1>2. Len(p) \in Nat /\ Len(n) \in Nat
  BY <1>1
<1> QED BY <1>1, <1>2 DEF GlobInit, Typed

LEMMA TypedStep == Typed /\ [GlobNext]_globVars => Typed'
<1> SUFFICES ASSUME Typed, [GlobNext]_globVars PROVE Typed'
  OBVIOUS
<1>1. Len(p) \in Nat /\ Len(n) \in Nat
  BY MDef
<1>2. CASE UNCHANGED globVars
  BY <1>2 DEF Typed, globVars
<1>3. CASE Advance
  BY <1>1, <1>3 DEF Typed, Advance, Running, Same
<1>4. CASE TakeStar
  BY <1>1, <1>4 DEF Typed, TakeStar, Running, AtStar
<1>5. CASE Backtrack
  BY <1>1, <1>5 DEF Typed, Backtrack, Running
<1>6. CASE Mismatch
  BY <1>6 DEF Typed, Mismatch
<1>7. CASE Finish
  BY <1>7 DEF Typed, Finish
<1> QED BY <1>2, <1>3, <1>4, <1>5, <1>6, <1>7 DEF GlobNext

LEMMA SoundInit == GlobInit => Sound
<1> SUFFICES ASSUME GlobInit PROVE Sound
  OBVIOUS
<1>1. M[0] = {0}
  BY TypedInit, MDef
<1> QED BY <1>1 DEF GlobInit, Sound

LEMMA SoundStep == Typed /\ Sound /\ [GlobNext]_globVars => Sound'
<1> SUFFICES ASSUME Typed, Sound, [GlobNext]_globVars PROVE Sound'
  OBVIOUS
<1>1. M' = M /\ p' = p /\ n' = n
  BY DEF GlobNext, globVars, Advance, TakeStar, Backtrack, Mismatch, Finish, M
<1>2. /\ Len(p) \in Nat /\ Len(n) \in Nat
      /\ pi \in 1..(Len(p) + 1) /\ ni \in 1..(Len(n) + 1) /\ match \in 1..(Len(n) + 1)
  BY MDef DEF Typed
<1>3. CASE UNCHANGED globVars
  BY <1>3 DEF Sound, globVars, M, Matches
<1>4. CASE Advance
  <2>1. pi \in 1..Len(p) /\ ni \in 1..Len(n) /\ p[pi] \in {AnyRune, n[ni]}
    BY <1>2, <1>4 DEF Advance, Running, Same
  <2>2. ni - 1 \in M[pi - 1]
    BY <1>4 DEF Advance, Running, Sound
  <2>3. ni \in M[pi]
    <3>1. CASE p[pi] = Star
      <4>1. ni - 1 <= ni /\ ni \in 0..Len(n)
        BY <1>2, <2>1
      <4> QED BY <2>1, <2>2, <3>1, <4>1, StarTakes
    <3>2. CASE p[pi] # Star
      BY <2>1, <2>2, <3>2, MDef
    <3> QED BY <3>1, <3>2
  <2>4. pi' - 1 = pi /\ ni' - 1 = ni
    BY <1>2, <1>4 DEF Advance
  <2> QED BY <1>1, <1>4, <2>3, <2>4 DEF Advance, Running, Sound
<1>5. CASE TakeStar
  <2>1. pi \in 1..Len(p) /\ p[pi] = Star /\ ni - 1 \in M[pi - 1] /\ ni - 1 \in 0..Len(n)
    BY <1>2, <1>5 DEF TakeStar, Running, AtStar, Sound
  <2>2. ni - 1 \in M[pi]
    BY <2>1, StarTakes
  <2>3. pi' - 1 = pi /\ ni' - 1 = ni - 1 /\ match' - 1 = ni - 1 /\ star' = pi
    BY <1>2, <1>5 DEF TakeStar
  <2> QED BY <1>1, <1>5, <2>2, <2>3 DEF TakeStar, Running, Sound
<1>6. CASE Backtrack
  <2>1. star \in 1..Len(p) /\ p[star] = Star /\ match - 1 \in M[star] /\ match <= Len(n)
    BY <1>2, <1>6, SMTT(30) DEF Backtrack, Running, Sound, Typed
  <2>2. match \in M[star]
    <3>1. PICK k \in M[star - 1] : k <= match - 1
      BY <2>1, MDef
    <3>2. M[star - 1] \subseteq Nat
      BY <2>1, MDef
    <3>3. k <= match
      BY <1>2, <3>1, <3>2
    <3>4. match \in 0..Len(n)
      BY <1>2, <2>1
    <3> QED BY <2>1, <3>1, <3>3, <3>4, StarTakes
  <2>3. pi' - 1 = star /\ ni' - 1 = match /\ match' - 1 = match /\ star' = star
    BY <1>2, <1>6, <2>1, SMTT(30) DEF Backtrack
  <2> QED BY <1>1, <1>6, <2>2, <2>3 DEF Backtrack, Running, Sound
<1>7. CASE Mismatch
  BY <1>7 DEF Mismatch, Sound
<1>8. CASE Finish
  <2>1. SUFFICES ASSUME answer' = "yes" PROVE Matches(p, n)
    BY <1>1, <1>8 DEF Sound, Finish
  <2>2. \A h \in pi..Len(p) : p[h] = Star
    BY <1>8, <2>1 DEF Finish
  <2>3. ni - 1 = Len(n) /\ ni - 1 \in M[pi - 1] /\ pi - 1 \in 0..Len(p) /\ (pi - 1) + 1 = pi
    BY <1>2, <1>8 DEF Finish, Sound
  <2> QED BY <2>2, <2>3, StarsOn DEF Matches, M
<1> QED BY <1>3, <1>4, <1>5, <1>6, <1>7, <1>8 DEF GlobNext

-----------------------------------------------------------------------------
(* A no is right too, where the runes of a name have no meaning in a pattern *)

\* The name that goes on k runes after the last star cannot be matched: a rune
\* differs before another star comes, or the pattern ends too early.
Dead(k) ==
    \/ \E i \in (star + 1)..Len(p) :
          /\ Plain(star, i)
          /\ k + i - star \in 1..Len(n) /\ p[i] \notin {AnyRune, n[k + i - star]}
    \/ Plain(star, Len(p)) /\ k + Len(p) - star < Len(n)

(***************************************************************************)
(* Before the first star the runes read match this prefix of the name and  *)
(* no other.  The last star can end anywhere from b on, and has been tried *)
(* in vain at all places before match - 1.                                 *)
(***************************************************************************)
Greedy ==
    /\ answer = "none" =>
         IF star = 0 THEN M[pi - 1] = {ni - 1}
         ELSE /\ Plain(star, pi - 1)
              /\ \E b \in 0..(match - 1) :
                    M[star] = b..Len(n) /\ \A k \in b..(match - 2) : Dead(k)
    /\ answer = "no" => ~Matches(p, n)

\* What is read is the shortest prefix that the pattern up to here matches.
LEMMA Shortest ==
    ASSUME Typed, Greedy, answer = "none", pi \in 1..Len(p), p[pi] = Star
    PROVE  Low(pi - 1, ni - 1)
<1>1. /\ Len(p) \in Nat /\ Len(n) \in Nat
      /\ pi \in 1..(Len(p) + 1) /\ ni \in 1..(Len(n) + 1) /\ match \in 1..(Len(n) + 1)
      /\ pi - 1 \in 0..Len(p) /\ star \in 0..Len(p)
  BY MDef DEF Typed
<1>2. CASE star = 0
  BY <1>1, <1>2 DEF Greedy, Low
<1>3. CASE star # 0
  <2>1. PICK b \in 0..(match - 1) : M[star] = b..Len(n) /\ \A k \in b..(match - 2) : Dead(k)
    BY <1>3 DEF Greedy
  <2>2. Plain(star, pi - 1) /\ star < pi /\ ni - match = pi - 1 - star
    BY <1>3 DEF Greedy, Typed
  <2>3. SUFFICES ASSUME NEW j \in M[pi - 1], j < ni - 1 PROVE FALSE
    <3>1. M[pi - 1] \subseteq 0..Len(n)
      BY <1>1, MDef
    <3> QED BY <1>1, <2>3, <3>1 DEF Low
  <2> DEFINE k == j - (pi - 1 - star)
  <2>4. j \in Nat /\ pi - 1 \in star..Len(p)
    BY <1>1, <2>2, MDef
  <2>5. k \in M[star] /\ \A i \in (star + 1)..(pi - 1) : p[i] \in {AnyRune, n[j - (pi - 1 - i)]}
    BY <1>1, <2>2, <2>4, PlainPart
  <2>6. k \in b..(match - 2)
    BY <1>1, <2>1, <2>2, <2>3, <2>4, <2>5
  <2>7. ~Plain(star, Len(p))
    BY <1>1, <2>2 DEF Plain
  <2>8. PICK i \in (star + 1)..Len(p) :
          /\ Plain(star, i)
          /\ k + i - star \in 1..Len(n) /\ p[i] \notin {AnyRune, n[k + i - star]}
    BY <2>1, <2>6, <2>7 DEF Dead
  <2>9. i <= pi - 1
    <3>1. SUFFICES ASSUME i >= pi PROVE FALSE
      BY <1>1, <2>8
    <3>2. pi \in (star + 1)..i
      BY <1>1, <2>2, <2>8, <3>1
    <3> QED BY <2>8, <3>2 DEF Plain
  <2>10. i \in (star + 1)..(pi - 1) /\ k + i - star = j - (pi - 1 - i)
    BY <1>1, <2>4, <2>9
  <2> QED BY <2>5, <2>8, <2>10
<1> QED BY <1>2, <1>3

\* At the end of the name, a plain rune of the pattern is one too many.
LEMMA OneTooMany ==
    ASSUME Typed, Greedy, answer = "none", ni > Len(n), pi \in 1..Len(p), p[pi] # Star
    PROVE  ~Matches(p, n)
<1>1. /\ Len(p) \in Nat /\ Len(n) \in Nat
      /\ pi \in 1..(Len(p) + 1) /\ ni = Len(n) + 1 /\ match \in 1..(Len(n) + 1)
      /\ pi - 1 \in 0..Len(p) /\ star \in 0..Len(p)
  BY MDef DEF Typed
<1>2. \A i \in 0..Len(p) : M[i] \subseteq 0..Len(n)
  BY MDef
<1>3. CASE star = 0
  <2>1. Low(pi - 1, Len(n))
    BY <1>1, <1>3 DEF Greedy, Low
  <2>2. Low(pi, Len(n) + 1)
    BY <1>1, <2>1, LowStep
  <2>3. Low(Len(p), Len(n) + 1)
    <3>1. pi \in 0..Len(p) /\ Len(p) \in pi..Len(p) /\ Len(n) + 1 \in Nat
      BY <1>1
    <3> QED BY <2>2, <3>1, LowOn
  <2> QED BY <1>1, <2>3 DEF Low, Matches, M
<1>4. CASE star # 0
  <2>1. PICK b \in 0..(match - 1) : M[star] = b..Len(n) /\ \A k \in b..(match - 2) : Dead(k)
    BY <1>4 DEF Greedy
  <2>2. Plain(star, pi - 1) /\ star < pi /\ ni - match = pi - 1 - star
    BY <1>4 DEF Greedy, Typed
  <2> DEFINE Block == {e \in pi..Len(p) : Plain(star, e)}
             e == Max(Block)
  <2>3. pi \in Block
    <3>1. Plain(star, pi)
      BY <1>1, <2>2 DEF Plain
    <3> QED BY <1>1, <3>1
  <2>4. e \in Block /\ \A h \in Block : e >= h
    <3>1. Block \in SUBSET (0..Len(p)) /\ Block # {}
      BY <1>1, <2>3
    <3> HIDE DEF Block
    <3> QED BY <1>1, <3>1, MaxIn
  <2> HIDE DEF e
  <2>5. e \in pi..Len(p) /\ Plain(star, e) /\ e \in star..Len(p)
    BY <1>1, <2>2, <2>4
  \* A match of these runes would be a match from a place that is dead or too late.
  <2>6. ASSUME NEW j \in M[e], e = Len(p) => j = Len(n) PROVE FALSE
    <3> DEFINE k == j - (e - star)
    <3>1. j \in 0..Len(n)
      BY <1>1, <1>2, <2>5
    <3>2. k \in M[star] /\ \A i \in (star + 1)..e : p[i] \in {AnyRune, n[j - (e - i)]}
      BY <1>1, <2>5, PlainPart
    <3>3. k \in b..(match - 2)
      BY <1>1, <2>1, <2>2, <2>5, <3>1, <3>2
    <3>4. CASE Plain(star, Len(p)) /\ k + Len(p) - star < Len(n)
      <4>1. Len(p) \in Block
        BY <1>1, <3>4
      <4>2. e = Len(p)
        BY <1>1, <2>4, <2>5, <4>1
      <4> QED BY <1>1, <2>6, <3>1, <3>4, <4>2
    <3>5. CASE \E i \in (star + 1)..Len(p) :
                  /\ Plain(star, i)
                  /\ k + i - star \in 1..Len(n) /\ p[i] \notin {AnyRune, n[k + i - star]}
      <4>1. PICK i \in (star + 1)..Len(p) :
                  /\ Plain(star, i)
                  /\ k + i - star \in 1..Len(n) /\ p[i] \notin {AnyRune, n[k + i - star]}
        BY <3>5
      <4>2. i <= e
        <5>1. SUFFICES ASSUME i > e PROVE FALSE
          BY <1>1, <2>5
        <5>2. i \in Block
          BY <1>1, <2>5, <4>1, <5>1
        <5> QED BY <1>1, <2>4, <2>5, <5>1, <5>2
      <4>3. i \in (star + 1)..e /\ k + i - star = j - (e - i)
        BY <1>1, <2>5, <3>1, <4>2
      <4> QED BY <3>2, <4>1, <4>3
    <3> QED BY <2>1, <3>3, <3>4, <3>5 DEF Dead
  <2>7. CASE e = Len(p)
    <3>1. Len(n) \notin M[Len(p)]
      BY <2>6, <2>7
    <3> QED BY <3>1 DEF Matches, M
  <2>8. CASE e # Len(p)
    <3>1. Low(e, Len(n) + 1)
      BY <2>6, <2>8 DEF Low
    <3>2. e \in 0..Len(p) /\ Len(p) \in e..Len(p) /\ Len(n) + 1 \in Nat
      BY <1>1, <2>5
    <3>3. Low(Len(p), Len(n) + 1)
      BY <3>1, <3>2, LowOn
    <3> QED BY <1>1, <3>3 DEF Low, Matches, M
  <2> QED BY <2>7, <2>8
<1> QED BY <1>3, <1>4

LEMMA GreedyInit == GlobInit => Greedy
<1> SUFFICES ASSUME GlobInit PROVE Greedy
  OBVIOUS
<1>1. M[0] = {0}
  BY TypedInit, MDef
<1> QED BY <1>1 DEF GlobInit, Greedy

LEMMA GreedyStep ==
    ASSUME ~StarsMeet, Typed, Sound, Greedy, [GlobNext]_globVars
    PROVE  Greedy'
<1>1. /\ M' = M /\ p' = p /\ n' = n
      /\ Matches(p, n)' = Matches(p, n)
  BY DEF GlobNext, globVars, Advance, TakeStar, Backtrack, Mismatch, Finish, M, Matches, Running
<1>2. /\ Len(p) \in Nat /\ Len(n) \in Nat
      /\ pi \in 1..(Len(p) + 1) /\ ni \in 1..(Len(n) + 1) /\ match \in 1..(Len(n) + 1)
      /\ pi - 1 \in 0..Len(p) /\ star \in 0..Len(p)
      /\ star # 0 => star < pi /\ ni - match = pi - 1 - star
  BY MDef DEF Typed
<1>3. \A i \in 0..Len(p) : M[i] \subseteq 0..Len(n)
  BY MDef
<1>4. CASE UNCHANGED globVars
  BY <1>1, <1>4 DEF globVars, Greedy, Dead, Plain
<1>5. CASE Advance
  <2>1. /\ pi \in 1..Len(p) /\ ni \in 1..Len(n) /\ p[pi] \in {AnyRune, n[ni]}
        /\ pi' - 1 = pi /\ ni' - 1 = ni /\ star' = star /\ match' = match
        /\ answer = "none" /\ answer' = "none"
    BY <1>2, <1>5 DEF Advance, Running, Same
  <2>2. p[pi] # Star
    <3>1. ni - 1 \in M[pi - 1]
      BY <2>1 DEF Sound
    <3>2. p[pi] = Star => n[ni] # Star
      BY <2>1, <3>1 DEF StarsMeet, M
    <3> QED BY <2>1, <3>2, GlobConstants
  <2>3. CASE star = 0
    <3>1. M[pi - 1] = {ni - 1}
      BY <2>1, <2>3 DEF Greedy
    <3>2. M[pi] = {j \in 1..Len(n) : j - 1 \in {ni - 1} /\ p[pi] \in {AnyRune, n[j]}}
      BY <2>1, <2>2, <3>1, MDef
    <3>3. \A j \in 1..Len(n) : j - 1 \in {ni - 1} <=> j = ni
      BY <1>2
    <3>4. M[pi] = {ni}
      BY <2>1, <3>2, <3>3
    <3> QED BY <1>1, <2>1, <2>3, <3>4 DEF Greedy
  <2>4. CASE star # 0
    <3>1. /\ Plain(star, pi - 1)
          /\ \E b \in 0..(match - 1) :
                M[star] = b..Len(n) /\ \A k \in b..(match - 2) : Dead(k)
      BY <2>1, <2>4 DEF Greedy
    <3>2. Plain(star, pi)
      <4>1. \A k \in (star + 1)..pi : k = pi \/ k \in (star + 1)..(pi - 1)
        BY <1>2
      <4> QED BY <2>2, <3>1, <4>1 DEF Plain
    <3>3. \A k : Dead(k)' = Dead(k)
      BY <1>1, <2>1 DEF Plain, Dead
    <3>4. Plain(star, pi - 1)'
      BY <1>1, <2>1, <3>2 DEF Plain
    <3> QED BY <1>1, <2>1, <2>4, <3>1, <3>3, <3>4 DEF Greedy
  <2> QED BY <2>3, <2>4
<1>6. CASE TakeStar
  <2>1. /\ pi \in 1..Len(p) /\ p[pi] = Star /\ ni - 1 \in 0..Len(n)
        /\ pi' - 1 = pi /\ star' = pi /\ match' = ni /\ answer = "none" /\ answer' = "none"
    BY <1>2, <1>6 DEF TakeStar, Running, AtStar
  <2>2. Low(pi - 1, ni - 1) /\ ni - 1 \in M[pi - 1] /\ M[pi - 1] \subseteq 0..Len(n)
    BY <1>2, <1>3, <2>1, Shortest DEF Sound
  <2>3. M[pi] = {j \in 0..Len(n) : \E k \in M[pi - 1] : k <= j}
    BY <2>1, MDef
  <2>4. M[pi] = (ni - 1)..Len(n)
    <3>1. \A j \in 0..Len(n) : (\E k \in M[pi - 1] : k <= j) <=> ni - 1 <= j
      BY <1>2, <2>2 DEF Low
    <3> QED BY <1>2, <2>1, <2>3, <3>1
  <2>5. ni - 1 \in 0..(match' - 1) /\ (ni - 1)..(match' - 2) = {}
    BY <1>2, <2>1
  <2>6. Plain(star, pi - 1)'
    <3>1. (pi + 1)..pi = {}
      BY <2>1
    <3> QED BY <2>1, <3>1 DEF Plain
  <2>7. star' # 0
    BY <2>1
  <2> QED BY <1>1, <2>1, <2>4, <2>5, <2>6, <2>7 DEF Greedy
<1>7. CASE Backtrack
  <2>1. /\ ni \in 1..Len(n) /\ star \in 1..Len(p) /\ star # 0
        /\ pi' - 1 = star /\ star' = star /\ match' = match + 1
        /\ answer = "none" /\ answer' = "none"
    BY <1>2, <1>7 DEF Backtrack, Running
  <2>2. PICK b \in 0..(match - 1) : M[star] = b..Len(n) /\ \A k \in b..(match - 2) : Dead(k)
    BY <2>1 DEF Greedy
  <2>3. Plain(star, pi - 1)
    BY <2>1 DEF Greedy
  <2>4. Dead(match - 1)
    <3>1. CASE pi <= Len(p)
      <4>1. p[pi] # Star /\ p[pi] \notin {AnyRune, n[ni]}
        BY <1>7, <3>1 DEF Backtrack, Same, AtStar
      <4>2. \A k \in (star + 1)..pi : k = pi \/ k \in (star + 1)..(pi - 1)
        BY <1>2
      <4>3. Plain(star, pi)
        BY <2>3, <4>1, <4>2 DEF Plain
      <4>4. pi \in (star + 1)..Len(p) /\ (match - 1) + pi - star = ni
        BY <1>2, <2>1, <3>1
      <4>5. \E i \in (star + 1)..Len(p) :
               /\ Plain(star, i)
               /\ (match - 1) + i - star \in 1..Len(n)
               /\ p[i] \notin {AnyRune, n[(match - 1) + i - star]}
        BY <2>1, <4>1, <4>3, <4>4
      <4> QED BY <4>5 DEF Dead
    <3>2. CASE pi > Len(p)
      <4>1. pi - 1 = Len(p) /\ (match - 1) + Len(p) - star < Len(n)
        BY <1>2, <2>1, <3>2
      <4>2. Plain(star, Len(p))
        BY <2>3, <4>1
      <4> QED BY <4>1, <4>2 DEF Dead
    <3> QED BY <1>2, <3>1, <3>2
  <2>5. \A k \in b..(match' - 2) : Dead(k)
    <3>1. \A k \in b..(match' - 2) : k = match - 1 \/ k \in b..(match - 2)
      BY <1>2, <2>1
    <3> QED BY <2>2, <2>4, <3>1
  <2>6. \A k : Dead(k)' = Dead(k)
    BY <1>1, <2>1 DEF Dead, Plain
  <2>7. Plain(star, pi - 1)'
    <3>1. (star + 1)..star = {}
      BY <2>1
    <3> QED BY <2>1, <3>1 DEF Plain
  <2>8. b \in 0..(match' - 1)
    BY <1>2, <2>1, <2>2
  <2>9. star' # 0 /\ M'[star'] = b..Len(n')
    BY <1>1, <2>1, <2>2
  <2> QED BY <2>1, <2>5, <2>6, <2>7, <2>8, <2>9 DEF Greedy
<1>8. CASE Mismatch
  <2>1. /\ ni \in 1..Len(n) /\ M[pi - 1] = {ni - 1} /\ ~Same /\ ~AtStar
        /\ answer' = "no"
    BY <1>2, <1>8 DEF Mismatch, Running, Greedy
  <2>2. ~Matches(p, n)
    <3>1. CASE pi > Len(p)
      <4>1. pi - 1 = Len(p)
        BY <1>2, <3>1
      <4>2. Len(n) # ni - 1
        BY <1>2, <2>1
      <4> QED BY <2>1, <4>1, <4>2 DEF Matches, M
    <3>2. CASE pi <= Len(p)
      <4>1. pi \in 1..Len(p) /\ p[pi] # Star /\ p[pi] \notin {AnyRune, n[ni]}
        BY <1>2, <2>1, <3>2 DEF Same, AtStar
      <4>2. M[pi] = {j \in 1..Len(n) : j - 1 \in {ni - 1} /\ p[pi] \in {AnyRune, n[j]}}
        BY <2>1, <4>1, MDef
      <4>3. \A j \in 1..Len(n) : j - 1 \in {ni - 1} <=> j = ni
        BY <1>2
      <4>4. M[pi] = {}
        BY <4>1, <4>2, <4>3
      <4>5. Low(pi, Len(n) + 1)
        BY <4>4 DEF Low
      <4>6. pi \in 0..Len(p) /\ Len(p) \in pi..Len(p) /\ Len(n) + 1 \in Nat
        BY <1>2, <4>1
      <4>7. Low(Len(p), Len(n) + 1)
        BY <4>5, <4>6, LowOn
      <4> QED BY <1>2, <4>7 DEF Low, Matches, M
    <3> QED BY <1>2, <3>1, <3>2
  <2> QED BY <1>1, <2>1, <2>2 DEF Greedy
<1>9. CASE Finish
  <2>1. answer = "none" /\ answer' # "none" /\ ni > Len(n) /\ ni - 1 = Len(n)
    BY <1>2, <1>9 DEF Finish
  <2>2. ASSUME answer' = "no" PROVE ~Matches(p, n)
    <3>1. PICK i \in pi..Len(p) : p[i] # Star
      BY <1>9, <2>2 DEF Finish
    <3>2. pi \in 1..Len(p)
      BY <1>2, <3>1
    <3>3. CASE p[pi] # Star
      BY <2>1, <3>2, <3>3, OneTooMany
    <3>4. CASE p[pi] = Star
      <4>1. Low(pi - 1, Len(n))
        BY <2>1, <3>2, <3>4, Shortest
      <4>2. i - 1 \in (pi - 1)..Len(p) /\ i \in 1..Len(p) /\ i \in 0..Len(p)
        BY <1>2, <3>1
      <4>3. Low(i - 1, Len(n))
        BY <1>2, <4>1, <4>2, LowOn
      <4>4. Low(i, Len(n) + 1)
        BY <1>2, <3>1, <4>2, <4>3, LowStep
      <4>5. Len(p) \in i..Len(p) /\ Len(n) + 1 \in Nat
        BY <1>2, <4>2
      <4>6. Low(Len(p), Len(n) + 1)
        BY <4>2, <4>4, <4>5, LowOn
      <4> QED BY <1>2, <4>6 DEF Low, Matches, M
    <3> QED BY <3>3, <3>4
  <2> QED BY <1>1, <2>1, <2>2 DEF Greedy
<1> QED BY <1>4, <1>5, <1>6, <1>7, <1>8, <1>9 DEF GlobNext

(***************************************************************************)
(* The answer of pathMatch is that of the definition (glob.go:12-36) for   *)
(* patterns and names of every length and every set of runes, but for a    *)
(* no where a star of the pattern meets a star of the name.                *)
(***************************************************************************)
THEOREM GlobAnswersRight == PartsSpec => []AnswerRight
<1> DEFINE Inv == Typed /\ Sound /\ (~StarsMeet => Greedy)
<1>1. PartsInit => Inv
  BY TypedInit, SoundInit, GreedyInit DEF PartsInit
<1>2. Inv /\ [PartsNext]_<<part, globVars, latencyVars>> => Inv'
  <2>1. [PartsNext]_<<part, globVars, latencyVars>> => [GlobNext]_globVars
    BY DEF PartsNext, GlobStep, LatencyStep
  <2>2. [GlobNext]_globVars => (StarsMeet' <=> StarsMeet)
    BY DEF GlobNext, globVars, Advance, TakeStar, Backtrack, Mismatch, Finish, StarsMeet, Running
  <2> QED BY <2>1, <2>2, TypedStep, SoundStep, GreedyStep
<1>3. Inv => AnswerRight
  BY DEF Typed, Sound, Greedy, AnswerRight
<1> QED BY <1>1, <1>2, <1>3, PTL DEF PartsSpec

-----------------------------------------------------------------------------
(* Sorting *)

LEMMA Greatest ==
    ASSUME NEW N \in Nat, NEW s \in [1..(N + 1) -> Nat]
    PROVE  \E m \in 1..(N + 1) : \A i \in 1..(N + 1) : s[i] <= s[m]
<1> DEFINE T == {k \in Nat : k <= N => \E m \in 1..(k + 1) : \A i \in 1..(k + 1) : s[i] <= s[m]}
<1>1. 0 \in T
  OBVIOUS
<1>2. ASSUME NEW k \in Nat, k \in T PROVE k + 1 \in T
  <2>1. SUFFICES ASSUME k + 1 <= N
                 PROVE  \E m \in 1..(k + 2) : \A i \in 1..(k + 2) : s[i] <= s[m]
    OBVIOUS
  <2>2. PICK m \in 1..(k + 1) : \A i \in 1..(k + 1) : s[i] <= s[m]
    BY <1>2, <2>1
  <2>3. /\ s[m] \in Nat /\ s[k + 2] \in Nat
        /\ \A i \in 1..(k + 2) : s[i] \in Nat /\ (i = k + 2 \/ i \in 1..(k + 1))
    BY <2>1
  <2>4. CASE s[m] <= s[k + 2]
    <3>1. \A i \in 1..(k + 2) : s[i] <= s[k + 2]
      BY <2>2, <2>3, <2>4
    <3> QED BY <3>1
  <2>5. CASE s[k + 2] <= s[m]
    <3>1. m \in 1..(k + 2) /\ \A i \in 1..(k + 2) : s[i] <= s[m]
      BY <2>2, <2>3, <2>5
    <3> QED BY <3>1
  <2> QED BY <2>3, <2>4, <2>5
<1>3. \A k \in Nat : k >= 0 => k \in T
  <2> HIDE DEF T
  <2> QED BY <1>1, <1>2, AllFrom
<1>4. N \in T
  <2> HIDE DEF T
  <2> QED BY <1>3
<1> QED BY <1>4

\* f puts s in order.
Sorts(f, s, N) ==
    /\ f \in [1..N -> 1..N]
    /\ \A i, j \in 1..N : i < j => f[i] # f[j] /\ s[f[i]] <= s[f[j]]

LEMMA Sorting ==
    ASSUME NEW N \in Nat, NEW s \in [1..N -> Nat]
    PROVE  \E f : Sorts(f, s, N)
<1> DEFINE T == {k \in Nat : \A t \in [1..k -> Nat] : \E f : Sorts(f, t, k)}
<1>1. 0 \in T
  <2>1. ASSUME NEW t \in [1..0 -> Nat] PROVE Sorts(t, t, 0)
    BY DEF Sorts
  <2> QED BY <2>1
<1>2. ASSUME NEW k \in Nat, k \in T PROVE k + 1 \in T
  <2>1. SUFFICES ASSUME NEW t \in [1..(k + 1) -> Nat] PROVE \E f : Sorts(f, t, k + 1)
    OBVIOUS
  <2>2. PICK m \in 1..(k + 1) : \A i \in 1..(k + 1) : t[i] <= t[m]
    BY Greatest
  \* The greatest goes to the end, and the last takes its place.
  <2> DEFINE u == [i \in 1..k |-> IF i = m THEN t[k + 1] ELSE t[i]]
  <2>3. u \in [1..k -> Nat]
    OBVIOUS
  <2>4. PICK f : Sorts(f, u, k)
    BY <1>2, <2>3
  <2> DEFINE g == [i \in 1..(k + 1) |-> IF i = k + 1 THEN m
                                        ELSE IF f[i] = m THEN k + 1 ELSE f[i]]
  <2>5. \A i \in 1..k : f[i] \in 1..k /\ i \in 1..(k + 1) /\ i # k + 1
    <3>1. f \in [1..k -> 1..k]
      BY <2>4, Zenon DEF Sorts
    <3>2. \A i \in 1..k : i \in 1..(k + 1) /\ i # k + 1
      OBVIOUS
    <3> HIDE DEF g, u
    <3> QED BY <3>1, <3>2, Zenon
  <2>6. g \in [1..(k + 1) -> 1..(k + 1)]
    BY <2>5
  <2>7. \A i \in 1..k : t[g[i]] = u[f[i]] /\ g[i] # m
    BY <2>5
  <2>8. ASSUME NEW i \in 1..(k + 1), NEW j \in 1..(k + 1), i < j
        PROVE  g[i] # g[j] /\ t[g[i]] <= t[g[j]]
    <3>1. i \in 1..k
      BY <2>8
    <3>2. CASE j = k + 1
      BY <2>2, <2>5, <2>6, <2>7, <3>1, <3>2
    <3>3. CASE j # k + 1
      <4>1. j \in 1..k
        BY <3>3
      <4>2. f[i] # f[j] /\ u[f[i]] <= u[f[j]]
        BY <2>4, <2>8, <3>1, <4>1 DEF Sorts
      <4>3. g[i] # g[j]
        BY <2>5, <3>1, <4>1, <4>2
      <4> QED BY <2>7, <3>1, <4>1, <4>2, <4>3
    <3> QED BY <3>2, <3>3
  <2> HIDE DEF g
  <2>9. Sorts(g, t, k + 1)
    BY <2>6, <2>8 DEF Sorts
  <2> QED BY <2>9
<1>3. \A k \in Nat : k >= 0 => k \in T
  <2> HIDE DEF T
  <2> QED BY <1>1, <1>2, AllFrom
<1> QED BY <1>3

\* An injection of an interval into itself meets everything.
LEMMA Meets ==
    ASSUME NEW N \in Nat, NEW f \in [1..N -> 1..N],
           \A i, j \in 1..N : f[i] = f[j] => i = j, NEW y \in 1..N
    PROVE  \E i \in 1..N : f[i] = y
<1>1. IsFiniteSet(1..N)
  BY FS_Interval
<1>2. f \in Injection(1..N, 1..N)
  BY DEF Injection, IsInjective
<1>3. f \in Surjection(1..N, 1..N)
  BY <1>1, <1>2, FS_Injection
<1> QED BY <1>3 DEF Surjection

LEMMA OrderSorts ==
    ASSUME NEW s \in Seq(Nat)
    PROVE  Sorts(L!Order(s), s, Len(s))
<1> DEFINE N == Len(s)
<1>1. N \in Nat /\ s \in [1..N -> Nat] /\ DOMAIN s = 1..N
  OBVIOUS
<1>2. PICK f : Sorts(f, s, N)
  BY <1>1, Sorting
<1>3. f \in L!Bijection(1..N, 1..N)
  <2>1. \A i, j \in 1..N : f[i] = f[j] => i = j
    BY <1>1, <1>2 DEF Sorts
  <2>2. \A y \in 1..N : \E i \in 1..N : f[i] = y
    BY <1>1, <1>2, <2>1, Meets DEF Sorts
  <2>3. f \in [1..N -> 1..N]
    BY <1>2 DEF Sorts
  <2> QED BY <2>1, <2>2, <2>3 DEF L!Bijection, L!Injection, L!Surjection, L!IsInjective
<1>4. \E h \in L!Bijection(1..N, 1..N) : \A i, j \in 1..N : i < j => s[h[i]] <= s[h[j]]
  BY <1>2, <1>3 DEF Sorts
<1>5. /\ L!Order(s) \in L!Bijection(1..N, 1..N)
      /\ \A i, j \in 1..N : i < j => s[L!Order(s)[i]] <= s[L!Order(s)[j]]
  BY <1>1, <1>4 DEF L!Order
<1>6. \A h \in L!Bijection(1..N, 1..N) :
         h \in [1..N -> 1..N] /\ \A i, j \in 1..N : h[i] = h[j] => i = j
  BY DEF L!Bijection, L!Injection, L!IsInjective
<1> QED BY <1>1, <1>5, <1>6 DEF Sorts

-----------------------------------------------------------------------------
(* The ring, the copy of it and the percentiles *)

\* Slot i has the sample that came idx - i calls ago, or a round earlier.
RingInv ==
    /\ samples \in [L!Slots -> Nat] /\ added \in Seq(Nat)
    /\ idx \in L!Slots /\ full \in BOOLEAN
    /\ full => Len(added) >= Capacity
    /\ ~full => Len(added) = idx
    /\ \A i \in L!Slots : i < idx => samples[i] = added[Len(added) - idx + i + 1]
    /\ full => \A i \in L!Slots :
                  i >= idx => samples[i] = added[Len(added) - Capacity - idx + i + 1]

\* c has the samples of w in another order.
Shuffles(f, c, w, N) ==
    /\ f \in [1..N -> 1..N]
    /\ \A i, j \in 1..N : f[i] = f[j] => i = j
    /\ \A i \in 1..N : c[i] = w[f[i]]

CopyInv ==
    /\ stats \in [pc : {"idle", "copied", "answered"}, copy : Seq(Nat), window : Seq(Nat),
                  answer : {stats.answer}]
    /\ stats.pc # "idle" =>
          /\ Len(stats.copy) = Len(stats.window)
          /\ \E f : Shuffles(f, stats.copy, stats.window, Len(stats.copy))

LatencyInv == RingInv /\ CopyInv /\ PercentilesRight

LEMMA LatencyInit == L!Init => LatencyInv
<1> SUFFICES ASSUME L!Init PROVE LatencyInv
  OBVIOUS
<1> USE LatencyConstants DEF L!Init
<1>1. RingInv
  BY DEF RingInv, L!Slots
<1>2. CopyInv
  BY DEF CopyInv, L!NoCall
<1>3. PercentilesRight
  BY DEF PercentilesRight, L!PercentilesRight, L!NoCall
<1> QED BY <1>1, <1>2, <1>3 DEF LatencyInv

LEMMA NextSlot ==
    ASSUME NEW i \in L!Slots
    PROVE  (i + 1) % Capacity = IF i + 1 = Capacity THEN 0 ELSE i + 1
BY LatencyConstants DEF L!Slots

LEMMA AddKeepsRing ==
    ASSUME RingInv, NEW d \in Durations, L!add(d)
    PROVE  RingInv'
<1> USE LatencyConstants DEF L!Slots
<1>1. d \in Nat /\ Capacity \in Nat \ {0} /\ Len(added) \in Nat /\ idx \in 0..(Capacity - 1)
  BY DEF RingInv
<1>2. /\ idx' = IF idx + 1 = Capacity THEN 0 ELSE idx + 1
      /\ samples' = [samples EXCEPT ![idx] = d] /\ added' = Append(added, d)
      /\ full' = (full \/ idx' = 0)
  BY NextSlot DEF L!add, RingInv
<1>3. /\ samples' \in [L!Slots -> Nat] /\ added' \in Seq(Nat) /\ Len(added') = Len(added) + 1
      /\ added'[Len(added) + 1] = d /\ \A k \in 1..Len(added) : added'[k] = added[k]
      /\ samples'[idx] = d /\ \A i \in L!Slots : i # idx => samples'[i] = samples[i]
  BY <1>1, <1>2 DEF RingInv
<1>4. idx' \in L!Slots /\ full' \in BOOLEAN
  BY <1>1, <1>2 DEF RingInv
<1>5. (full' => Len(added') >= Capacity) /\ (~full' => Len(added') = idx')
  <2>1. CASE idx + 1 = Capacity
    <3>1. full' /\ Len(added') = Len(added) + 1
      BY <1>2, <1>3, <2>1
    <3>2. Len(added) >= idx
      BY <1>1 DEF RingInv
    <3> QED BY <1>1, <2>1, <3>1, <3>2
  <2>2. CASE idx + 1 # Capacity
    <3>1. idx' = idx + 1 /\ full' = full /\ Len(added') = Len(added) + 1
      BY <1>1, <1>2, <1>3, <2>2 DEF RingInv
    <3> QED BY <1>1, <3>1 DEF RingInv
  <2> QED BY <2>1, <2>2
<1>6. ASSUME NEW i \in L!Slots, i < idx'
      PROVE  samples'[i] = added'[Len(added') - idx' + i + 1]
  <2>1. idx' = idx + 1 /\ Len(added') - idx' = Len(added) - idx
    BY <1>1, <1>2, <1>3, <1>6
  <2>2. CASE i = idx
    BY <1>1, <1>3, <2>1, <2>2
  <2>3. CASE i # idx
    <3>1. i < idx /\ Len(added) - idx + i + 1 \in 1..Len(added)
      BY <1>1, <1>6, <2>1, <2>3 DEF RingInv
    <3> QED BY <1>3, <2>1, <2>3, <3>1 DEF RingInv
  <2> QED BY <2>2, <2>3
<1>7. ASSUME full', NEW i \in L!Slots, i >= idx'
      PROVE  samples'[i] = added'[Len(added') - Capacity - idx' + i + 1]
  <2>1. CASE idx + 1 = Capacity
    <3>1. idx' = 0 /\ Len(added') = Len(added) + 1 /\ Len(added) - idx \in Nat
      BY <1>1, <1>2, <1>3, <2>1 DEF RingInv
    <3>2. CASE i = idx
      BY <1>1, <1>3, <2>1, <3>1, <3>2
    <3>3. CASE i # idx
      <4>1. i < idx /\ Len(added) - idx + i + 1 \in 1..Len(added)
        BY <1>1, <2>1, <3>1, <3>3
      <4>2. Len(added') - Capacity - idx' + i + 1 = Len(added) - idx + i + 1
        BY <1>1, <2>1, <3>1
      <4> QED BY <1>3, <3>3, <4>1, <4>2 DEF RingInv
    <3> QED BY <3>2, <3>3
  <2>2. CASE idx + 1 # Capacity
    <3>1. idx' = idx + 1 /\ full /\ Len(added) >= Capacity /\ i # idx /\ i >= idx
      BY <1>1, <1>2, <1>7, <2>2 DEF RingInv
    <3>2. Len(added) - Capacity - idx + i + 1 \in 1..Len(added)
      BY <1>1, <3>1
    <3>3. Len(added') - Capacity - idx' + i + 1 = Len(added) - Capacity - idx + i + 1
      BY <1>1, <1>3, <3>1
    <3> QED BY <1>3, <3>1, <3>2, <3>3 DEF RingInv
  <2> QED BY <2>1, <2>2
<1> QED BY <1>3, <1>4, <1>5, <1>6, <1>7 DEF RingInv

LEMMA Rotates ==
    ASSUME NEW size \in Nat, NEW r \in 0..(size - 1), NEW i \in 1..size, NEW j \in 1..size,
           NEW x, x = IF i <= r THEN size - r + i ELSE i - r,
           x = IF j <= r THEN size - r + j ELSE j - r
    PROVE  i = j
OBVIOUS

LEMMA CopyOfRing ==
    ASSUME RingInv, CopyInv, L!Copy
    PROVE  CopyInv'
<1> USE LatencyConstants DEF L!Slots
<1> DEFINE count == IF full THEN Capacity ELSE idx
           c == [i \in 1..count |-> samples[i - 1]]
           w == L!Last(added, Capacity)
           f == [i \in 1..count |-> IF full THEN IF i <= idx THEN Capacity - idx + i ELSE i - idx
                                    ELSE i]
<1>1. /\ Capacity \in Nat \ {0} /\ Len(added) \in Nat /\ idx \in 0..(Capacity - 1)
      /\ added \in Seq(Nat) /\ samples \in [0..(Capacity - 1) -> Nat] /\ full \in BOOLEAN
      /\ full => Len(added) >= Capacity
      /\ ~full => Len(added) = idx
  BY DEF RingInv
<1>2. count \in 0..Capacity /\ \A i \in 1..count : i - 1 \in 0..(Capacity - 1)
  BY <1>1
<1>3. c \in Seq(Nat) /\ Len(c) = count /\ DOMAIN c = 1..count
  <2>1. c \in [1..count -> Nat]
    BY <1>1, <1>2
  <2> QED BY <1>2, <2>1
<1> DEFINE from == IF Len(added) > Capacity THEN Len(added) - Capacity + 1 ELSE 1
<1>4. w = SubSeq(added, from, Len(added)) /\ from \in 1..(Len(added) + 1)
      /\ Len(added) - from + 1 = count
  BY <1>1 DEF L!Last
<1>5. /\ w \in Seq(Nat) /\ Len(w) = count /\ DOMAIN w = 1..count
      /\ \A i \in 1..count : w[i] = added[from + i - 1]
  <2> HIDE DEF w, count, from
  <2> QED BY <1>1, <1>2, <1>4, SMTT(30)
<1>6. f \in [1..count -> 1..count] /\ \A i, j \in 1..count : f[i] = f[j] => i = j
  <2>1. CASE full
    <3>1. \A i \in 1..count : f[i] = IF i <= idx THEN Capacity - idx + i ELSE i - idx
      BY <2>1
    <3>2. \A i \in 1..count : f[i] \in 1..count
      BY <1>1, <2>1, <3>1
    <3>3. ASSUME NEW i \in 1..count, NEW j \in 1..count, f[i] = f[j] PROVE i = j
      <4>1. i \in 1..Capacity /\ j \in 1..Capacity
        BY <1>1, <2>1
      <4>2. /\ f[i] = IF i <= idx THEN Capacity - idx + i ELSE i - idx
            /\ f[j] = IF j <= idx THEN Capacity - idx + j ELSE j - idx
        BY <3>1
      <4> DEFINE x == f[i]
      <4>3. /\ x = IF i <= idx THEN Capacity - idx + i ELSE i - idx
            /\ x = IF j <= idx THEN Capacity - idx + j ELSE j - idx
        BY <3>3, <4>2
      <4>4. Capacity \in Nat /\ idx \in 0..(Capacity - 1)
        BY <1>1
      <4> HIDE DEF x
      <4> QED BY <4>1, <4>3, <4>4, Rotates
    <3> QED BY <3>2, <3>3
  <2>2. CASE ~full
    BY <2>2
  <2> QED BY <1>1, <2>1, <2>2
<1>7. ASSUME NEW i \in 1..count PROVE c[i] = w[f[i]]
  <2>1. c[i] = samples[i - 1] /\ w[f[i]] = added[from + f[i] - 1] /\ i - 1 \in L!Slots
    BY <1>2, <1>5, <1>6
  <2>2. CASE ~full
    <3>1. from + f[i] - 1 = Len(added) - idx + (i - 1) + 1 /\ i - 1 < idx
      BY <1>1, <2>2, SMTT(30)
    <3> QED BY <2>1, <3>1 DEF RingInv
  <2>3. CASE full /\ i <= idx
    <3>1. from + f[i] - 1 = Len(added) - idx + (i - 1) + 1 /\ i - 1 < idx
      BY <1>1, <2>3, SMTT(30)
    <3> QED BY <2>1, <3>1 DEF RingInv
  <2>4. CASE full /\ i > idx
    <3>1. from + f[i] - 1 = Len(added) - Capacity - idx + (i - 1) + 1 /\ i - 1 >= idx
      BY <1>1, <2>4
    <3> QED BY <2>1, <2>4, <3>1 DEF RingInv
  <2> QED BY <1>1, <2>2, <2>3, <2>4
<1>8. /\ stats'.pc = "copied" /\ stats'.copy = c /\ stats'.window = w
      /\ stats' = [pc |-> "copied", copy |-> c, window |-> w, answer |-> stats'.answer]
  <2> HIDE DEF c, w
  <2>1. stats' = [stats EXCEPT !.pc = "copied", !.copy = c, !.window = w]
    BY DEF L!Copy, c, w
  <2> QED BY <2>1 DEF CopyInv
<1> HIDE DEF c, w, f, count
<1>9. Shuffles(f, c, w, Len(c)) /\ Len(c) = Len(w)
  BY <1>3, <1>5, <1>6, <1>7 DEF Shuffles
<1> QED BY <1>3, <1>5, <1>8, <1>9 DEF CopyInv

\* The places of smaller samples, and of those that are not greater.
Below(w, N, v) == {i \in 1..N : w[i] < v}
UpTo(w, N, v) == {i \in 1..N : w[i] <= v}

LEMMA SortsOnce ==
    ASSUME NEW N \in Nat, NEW g, NEW w, Sorts(g, w, N)
    PROVE  /\ g \in [1..N -> 1..N]
           /\ \A i, j \in 1..N : g[i] = g[j] => i = j
           /\ \A y \in 1..N : \E i \in 1..N : g[i] = y
<1>1. g \in [1..N -> 1..N]
  BY DEF Sorts
<1>2. \A i, j \in 1..N : g[i] = g[j] => i = j
  <2>1. \A i, j \in 1..N : i = j \/ i < j \/ j < i
    OBVIOUS
  <2> QED BY <2>1 DEF Sorts
<1>3. \A y \in 1..N : \E i \in 1..N : g[i] = y
  BY <1>1, <1>2, Meets
<1> QED BY <1>1, <1>2, <1>3

\* The interval from 1 to m has m members.
LEMMA Count ==
    ASSUME NEW m \in Nat
    PROVE  IsFiniteSet(1..m) /\ Cardinality(1..m) = m
<1>1. IsFiniteSet(1..m) /\ Cardinality(1..m) = IF 1 > m THEN 0 ELSE m - 1 + 1
  BY FS_Interval
<1> QED BY <1>1

\* In order, at most k - 1 are smaller than the one at k, and k are not greater.
LEMMA Rank ==
    ASSUME NEW N \in Nat, NEW w \in [1..N -> Nat], NEW g, Sorts(g, w, N),
           NEW k \in 1..N, NEW v, v = w[g[k]]
    PROVE  /\ Cardinality(Below(w, N, v)) \in Nat /\ Cardinality(Below(w, N, v)) <= k - 1
           /\ Cardinality(UpTo(w, N, v)) \in Nat /\ Cardinality(UpTo(w, N, v)) >= k
<1>1. /\ g \in [1..N -> 1..N]
      /\ \A i, j \in 1..N : g[i] = g[j] => i = j
      /\ \A y \in 1..N : \E i \in 1..N : g[i] = y
  BY SortsOnce
<1>2. k \in Nat /\ k >= 1 /\ k <= N /\ v \in Nat /\ \A i \in 1..N : w[g[i]] \in Nat
  <2>1. k \in Nat /\ k >= 1 /\ k <= N
    OBVIOUS
  <2>2. \A i \in 1..N : w[g[i]] \in Nat
    BY <1>1
  <2> QED BY <2>1, <2>2
<1>3. IsFiniteSet(1..N)
  BY FS_Interval
<1>4. Cardinality(Below(w, N, v)) <= k - 1 /\ Cardinality(Below(w, N, v)) \in Nat
  <2> DEFINE h == [i \in 1..(k - 1) |-> g[i]]
             I == {h[i] : i \in 1..(k - 1)}
  <2>1. IsFiniteSet(1..(k - 1)) /\ Cardinality(1..(k - 1)) = k - 1
    <3>1. k - 1 \in Nat
      BY <1>2
    <3> QED BY <3>1, Count
  <2>2. IsFiniteSet(I) /\ Cardinality(I) <= k - 1
    <3>1. h \in Surjection(1..(k - 1), I)
      BY DEF Surjection
    <3> HIDE DEF I, h
    <3> QED BY <2>1, <3>1, FS_Surjection
  <2>3. ASSUME NEW y \in Below(w, N, v) PROVE y \in I
    <3>1. y \in 1..N /\ w[y] < v
      BY DEF Below
    <3>2. PICK i \in 1..N : g[i] = y
      BY <1>1, <3>1
    <3>3. i < k
      <4>1. SUFFICES ASSUME i > k \/ i = k PROVE FALSE
        BY <1>2
      <4>2. CASE i > k
        <5>1. w[g[k]] <= w[g[i]]
          BY <4>2 DEF Sorts
        <5> QED BY <1>2, <3>1, <3>2, <5>1
      <4>3. CASE i = k
        BY <1>2, <3>1, <3>2, <4>3
      <4> QED BY <4>1, <4>2, <4>3
    <3>4. i \in 1..(k - 1) /\ h[i] = y
      BY <1>2, <3>2, <3>3
    <3> QED BY <3>4
  <2>4. Below(w, N, v) \in SUBSET I
    BY <2>3
  <2> HIDE DEF I
  <2>5. IsFiniteSet(Below(w, N, v)) /\ Cardinality(Below(w, N, v)) <= Cardinality(I)
    BY <2>2, <2>4, FS_Subset
  <2>6. Cardinality(Below(w, N, v)) \in Nat /\ Cardinality(I) \in Nat
    BY <2>2, <2>5, FS_CardinalityType
  <2> QED BY <1>2, <2>2, <2>5, <2>6
<1>5. Cardinality(UpTo(w, N, v)) >= k /\ Cardinality(UpTo(w, N, v)) \in Nat
  <2> DEFINE h == [i \in 1..k |-> g[i]]
  <2>1. IsFiniteSet(1..k) /\ Cardinality(1..k) = k
    BY <1>2, Count
  <2>2. ASSUME NEW i \in 1..k PROVE i \in 1..N /\ g[i] \in UpTo(w, N, v)
    <3>1. i \in 1..N /\ (i = k \/ i < k)
      BY <1>2
    <3>2. g[i] \in 1..N
      BY <1>1, <3>1
    <3>3. CASE i = k
      <4>1. w[g[i]] <= v
        BY <1>2, <3>3
      <4> QED BY <3>1, <3>2, <4>1 DEF UpTo
    <3>4. CASE i < k
      <4>1. w[g[i]] <= v
        BY <3>1, <3>4 DEF Sorts
      <4> QED BY <3>1, <3>2, <4>1 DEF UpTo
    <3> QED BY <3>1, <3>3, <3>4
  <2>3. h \in Injection(1..k, UpTo(w, N, v))
    <3>1. h \in [1..k -> UpTo(w, N, v)]
      BY <2>2
    <3>2. \A i, j \in 1..k : h[i] = h[j] => i = j
      BY <1>1, <2>2
    <3> HIDE DEF h
    <3> QED BY <3>1, <3>2 DEF Injection, IsInjective
  <2>4. IsFiniteSet(UpTo(w, N, v))
    <3>1. UpTo(w, N, v) \in SUBSET (1..N)
      BY DEF UpTo
    <3> QED BY <1>3, <3>1, FS_Subset
  <2> HIDE DEF h
  <2>5. Cardinality(1..k) <= Cardinality(UpTo(w, N, v))
    BY <2>3, <2>4, FS_Injection
  <2>6. Cardinality(UpTo(w, N, v)) \in Nat
    BY <2>4, FS_CardinalityType
  <2> QED BY <2>1, <2>5, <2>6
<1> QED BY <1>4, <1>5

\* The place of a percentile.
LEMMA Place ==
    ASSUME NEW N \in Nat \ {0}, NEW q \in L!Percents
    PROVE  LET k == ((N - 1) * q) \div 100 + 1
           IN  k \in 1..N /\ 100 * (k - 1) <= q * (N - 1) /\ 100 * k > q * (N - 1)
BY DEF L!Percents

\* Percentile q of a copy is right for the window.
LEMMA OnePercentile ==
    ASSUME NEW c \in Seq(Nat), NEW w \in Seq(Nat), NEW N \in Nat \ {0}, Len(c) = N, Len(w) = N,
           NEW f, Shuffles(f, c, w, N), NEW q \in L!Percents, NEW v, v = L!percentile(c, q)
    PROVE  /\ v \in Nat /\ \E i \in 1..N : w[i] = v
           /\ 100 * Cardinality(Below(w, N, v)) <= q * (N - 1)
           /\ 100 * Cardinality(UpTo(w, N, v)) > q * (N - 1)
<1> DEFINE k == ((N - 1) * q) \div 100 + 1
           o == L!Order(c)
           g == [i \in 1..N |-> f[o[i]]]
<1>1. w \in [1..N -> Nat] /\ c \in [1..N -> Nat]
  OBVIOUS
<1>2. k \in 1..N /\ 100 * (k - 1) <= q * (N - 1) /\ 100 * k > q * (N - 1)
  BY Place
<1>3. Sorts(o, c, N)
  BY OrderSorts
<1>4. v = c[o[k]]
  BY DEF L!percentile
<1> HIDE DEF o, k
<1>5. Sorts(g, w, N)
  <2>1. o \in [1..N -> 1..N] /\ f \in [1..N -> 1..N]
    BY <1>3 DEF Sorts, Shuffles
  <2>2. g \in [1..N -> 1..N] /\ \A i \in 1..N : w[g[i]] = c[o[i]] /\ g[i] = f[o[i]]
    BY <2>1 DEF Shuffles
  <2> HIDE DEF g
  <2>3. ASSUME NEW i \in 1..N, NEW j \in 1..N, i < j
        PROVE  g[i] # g[j] /\ w[g[i]] <= w[g[j]]
    <3>1. o[i] # o[j] /\ c[o[i]] <= c[o[j]]
      BY <1>3, <2>3 DEF Sorts
    <3> QED BY <2>1, <2>2, <3>1 DEF Shuffles
  <2> QED BY <2>2, <2>3 DEF Sorts
<1>6. g[k] \in 1..N /\ v = w[g[k]]
  <2>1. o \in [1..N -> 1..N] /\ f \in [1..N -> 1..N]
    BY <1>3 DEF Sorts, Shuffles
  <2> QED BY <1>2, <1>4, <2>1 DEF Shuffles
<1> HIDE DEF g
<1>7. v \in Nat /\ \E i \in 1..N : w[i] = v
  BY <1>1, <1>6
<1> DEFINE below == Cardinality(Below(w, N, v))
           upTo == Cardinality(UpTo(w, N, v))
           z == q * (N - 1)
<1>8. below \in Nat /\ below <= k - 1 /\ upTo \in Nat /\ upTo >= k /\ k \in Nat
  <2>1. k \in 1..N
    BY <1>2
  <2>2. below \in Nat /\ below <= k - 1 /\ upTo \in Nat /\ upTo >= k
    BY <1>1, <1>5, <1>6, <2>1, Rank
  <2> QED BY <2>1, <2>2
<1>9. z \in Int
  BY DEF L!Percents
<1>10. 100 * (k - 1) <= z /\ 100 * k > z
  BY <1>2
<1> HIDE DEF below, upTo, z
<1>11. 100 * below <= z /\ 100 * upTo > z
  BY <1>8, <1>9, <1>10
<1> QED BY <1>7, <1>11 DEF below, upTo, z

LEMMA SameCount == \A S : L!Cardinality(S) = Cardinality(S)
BY DEF L!Cardinality, Cardinality

LEMMA LatencyStepKeeps == LatencyInv /\ [L!Next]_latencyVars => LatencyInv'
<1> SUFFICES ASSUME LatencyInv, [L!Next]_latencyVars PROVE LatencyInv'
  OBVIOUS
<1>1. RingInv /\ CopyInv /\ PercentilesRight
  BY DEF LatencyInv
<1>2. CASE UNCHANGED latencyVars
  BY <1>1, <1>2 DEF latencyVars, LatencyInv, RingInv, CopyInv, PercentilesRight, L!PercentilesRight
<1>3. ASSUME NEW d \in Durations, L!add(d) PROVE LatencyInv'
  <2>1. RingInv'
    BY <1>1, <1>3, AddKeepsRing
  <2>2. stats' = stats
    BY <1>3 DEF L!add
  <2> QED BY <1>1, <2>1, <2>2 DEF LatencyInv, CopyInv, PercentilesRight, L!PercentilesRight
<1>4. CASE L!Copy
  <2>1. CopyInv'
    BY <1>1, <1>4, CopyOfRing
  <2>2. RingInv'
    BY <1>1, <1>4 DEF L!Copy, L!ring, RingInv
  <2>3. stats'.pc = "copied"
    BY <1>1, <1>4 DEF L!Copy, CopyInv
  <2>4. PercentilesRight'
    BY <2>3 DEF PercentilesRight, L!PercentilesRight
  <2> QED BY <2>1, <2>2, <2>4 DEF LatencyInv
<1>5. CASE L!Answer
  <2> DEFINE a == [q \in L!Percents |-> IF stats.copy = << >> THEN 0
                                       ELSE L!percentile(stats.copy, q)]
  <2>1. /\ stats.pc = "copied" /\ stats' = [stats EXCEPT !.pc = "answered", !.answer = a]
        /\ samples' = samples /\ idx' = idx /\ full' = full /\ added' = added
    BY <1>5 DEF L!Answer, L!ring
  <2> HIDE DEF a
  <2>2. RingInv'
    BY <1>1, <2>1 DEF RingInv
  <2>3. /\ stats' = [pc |-> "answered", copy |-> stats.copy, window |-> stats.window, answer |-> a]
        /\ stats.copy \in Seq(Nat) /\ stats.window \in Seq(Nat)
        /\ Len(stats.copy) = Len(stats.window)
    BY <1>1, <2>1 DEF CopyInv
  <2>4. PICK f : Shuffles(f, stats.copy, stats.window, Len(stats.copy))
    BY <1>1, <2>1 DEF CopyInv
  <2>5. CopyInv'
    <3>1. stats' \in [pc : {"idle", "copied", "answered"}, copy : Seq(Nat), window : Seq(Nat),
                      answer : {stats'.answer}]
      BY <2>3
    <3>2. Shuffles(f, stats.copy, stats.window, Len(stats.copy))'
      BY <2>3, <2>4 DEF Shuffles
    <3> QED BY <2>3, <2>4, <3>1 DEF CopyInv
  <2>6. PercentilesRight'
    <3> DEFINE w == stats.window
               N == Len(w)
    <3>1. SUFFICES ASSUME w # << >>, NEW q \in L!Percents
                   PROVE  /\ \E i \in DOMAIN w : w[i] = a[q]
                          /\ 100 * Cardinality({i \in DOMAIN w : w[i] < a[q]}) <= q * (N - 1)
                          /\ 100 * Cardinality({i \in DOMAIN w : w[i] <= a[q]}) > q * (N - 1)
      BY <2>3, SameCount DEF PercentilesRight, L!PercentilesRight
    <3>2. N \in Nat \ {0} /\ DOMAIN w = 1..N /\ stats.copy # << >>
      BY <2>3, <3>1
    <3>3. a[q] = L!percentile(stats.copy, q)
      BY <3>2 DEF a
    <3> DEFINE v == a[q]
    <3> HIDE DEF v, N, w
    <3> DEFINE c == stats.copy
    <3>4. /\ c \in Seq(Nat) /\ w \in Seq(Nat) /\ Len(c) = N /\ Len(w) = N /\ N \in Nat \ {0}
          /\ Shuffles(f, c, w, N) /\ v = L!percentile(c, q)
      BY <2>3, <2>4, <3>2, <3>3 DEF N, w, v
    <3> HIDE DEF c
    <3>5. /\ \E i \in 1..N : w[i] = v
          /\ 100 * Cardinality(Below(w, N, v)) <= q * (N - 1)
          /\ 100 * Cardinality(UpTo(w, N, v)) > q * (N - 1)
      BY <3>4, OnePercentile
    <3>6. Below(w, N, v) = {i \in DOMAIN w : w[i] < v} /\ UpTo(w, N, v) = {i \in DOMAIN w : w[i] <= v}
      BY <3>2 DEF Below, UpTo
    <3> QED BY <3>2, <3>5, <3>6 DEF v
  <2> QED BY <2>2, <2>5, <2>6 DEF LatencyInv
<1>6. CASE L!Return
  <2>1. /\ stats' = L!NoCall
        /\ samples' = samples /\ idx' = idx /\ full' = full /\ added' = added
    BY <1>6 DEF L!Return, L!ring
  <2>2. RingInv'
    BY <1>1, <2>1 DEF RingInv
  <2>3. CopyInv' /\ PercentilesRight'
    BY <2>1 DEF CopyInv, PercentilesRight, L!PercentilesRight, L!NoCall
  <2> QED BY <2>2, <2>3 DEF LatencyInv
<1> QED BY <1>2, <1>3, <1>4, <1>5, <1>6 DEF L!Next

(***************************************************************************)
(* Stats gives percentiles of the last Capacity calls before it copied the *)
(* ring (stats.go:73-108), whatever the capacity, the durations and the    *)
(* number of rounds, and however many calls end while it sorts.            *)
(***************************************************************************)
THEOREM PercentilesAlwaysRight == PartsSpec => []PercentilesRight
<1>1. PartsInit => LatencyInv
  BY LatencyInit DEF PartsInit
<1>2. LatencyInv /\ [PartsNext]_<<part, globVars, latencyVars>> => LatencyInv'
  <2>1. [PartsNext]_<<part, globVars, latencyVars>> => [L!Next]_latencyVars
    BY DEF PartsNext, GlobStep, LatencyStep
  <2> QED BY <2>1, LatencyStepKeeps
<1>3. LatencyInv => PercentilesRight
  BY DEF LatencyInv
<1> QED BY <1>1, <1>2, <1>3, PTL DEF PartsSpec

-----------------------------------------------------------------------------
(* The life cycle *)

USE LifecycleConstants

LEMMA SafeInit == Init => Safe
<1> SUFFICES ASSUME Init PROVE Safe
  OBVIOUS
<1>1. TypeOK
  BY DEF Init, TypeOK, Workers, Procs, Labels, Jobs, ClientJobs
<1>2. \A g \in Procs : pc[g] \in {"idle", "select", "exited"} /\ g # None
  BY DEF Init, Procs
<1>3. LocksMatch
  <2>1. job[Compactor] = "compact"
    BY DEF Init, Procs, Workers
  <2> QED BY <1>1, <1>2, <2>1 DEF Init, LocksMatch, InLock
<1>4. CloseInv /\ ClosedForGood
  BY <1>2 DEF Init, CloseInv, ClosedForGood, Inside
<1> QED BY <1>3, <1>4 DEF Safe

\* A step that moves one goroutine and touches no lock and nothing of the
\* handle.
LEMMA SafeMove ==
    ASSUME Safe, NEW g \in Procs, NEW l \in Labels, NEW j \in Jobs,
           pc' = [pc EXCEPT ![g] = l], job' = [job EXCEPT ![g] = j],
           UNCHANGED <<lockVars, handleVars>>, tick' \subseteq Workers, spawned' \in BOOLEAN,
           \/ pc[g] \notin InLock \cup {"drain"} /\ l \notin InLock \cup {"drain"}
           \/ pc[g] \in InLock /\ l \in InLock /\ j = job[g],
           pc[g] = "wal" <=> l = "wal",
           Inside(g)' => Inside(g),
           l = "rlock" => j \notin Exclusive,
           l = "lock" => j \in Exclusive,
           g = Compactor => j = job[g]
    PROVE  Safe'
<1> USE DEF lockVars, handleVars
<1>1. LocksMatch /\ CloseInv /\ ClosedForGood
  BY DEF Safe
<1>2. /\ pc \in [Procs -> Labels] /\ job \in [Procs -> Jobs]
      /\ pc'[g] = l /\ job'[g] = j
      /\ \A q \in Procs : q # g => pc'[q] = pc[q] /\ job'[q] = job[q]
  BY <1>1 DEF LocksMatch, TypeOK
<1>3. TypeOK' /\ job'[Compactor] = "compact"
  <2>1. TypeOK'
    BY <1>1 DEF LocksMatch, TypeOK
  <2>2. Compactor \in Procs
    BY DEF Procs
  <2> QED BY <1>1, <1>2, <2>1, <2>2 DEF LocksMatch
<1>4. LocksMatch'
  <2> SUFFICES ASSUME NEW q \in Procs
               PROVE  /\ q \in readers <=> pc'[q] \in InLock /\ job'[q] \notin Exclusive
                      /\ writer = q <=> pc'[q] \in InLock \cup {"drain"} /\ job'[q] \in Exclusive
                      /\ walmu = q <=> pc'[q] = "wal"
                      /\ writer = q /\ pc'[q] # "drain" => readers = {}
                      /\ pc'[q] = "rlock" => job'[q] \notin Exclusive
                      /\ pc'[q] \in {"lock", "drain"} => job'[q] \in Exclusive
    BY <1>3 DEF LocksMatch
  <2>1. CASE q = g
    BY <1>1, <1>2, <2>1 DEF LocksMatch, InLock
  <2>2. CASE q # g
    BY <1>1, <1>2, <2>2 DEF LocksMatch
  <2> QED BY <2>1, <2>2
<1>5. \A q \in Procs : Inside(q)' => Inside(q) /\ job'[q] = job[q]
  BY <1>2 DEF Inside, InLock
<1>6. CloseInv' /\ ClosedForGood'
  BY <1>1, <1>5 DEF CloseInv, ClosedForGood
<1> QED BY <1>4, <1>6 DEF Safe

\* Where the goroutines that do not move remain.
LEMMA OthersStay ==
    ASSUME LocksMatch, NEW g \in Procs, NEW l \in Labels,
           pc' = [pc EXCEPT ![g] = l], UNCHANGED job
    PROVE  /\ pc' \in [Procs -> Labels] /\ pc'[g] = l
           /\ \A q \in Procs : q # g => pc'[q] = pc[q]
           /\ \A q \in Procs : job'[q] = job[q]
BY DEF LocksMatch, TypeOK

LEMMA SafeRLock ==
    ASSUME Safe, NEW g \in Procs, RLock(g)
    PROVE  Safe'
<1> USE DEF handleVars
<1>1. LocksMatch /\ CloseInv /\ ClosedForGood
  BY DEF Safe
<1>2. /\ pc[g] = "rlock" /\ writer = None /\ readers' = readers \cup {g}
      /\ UNCHANGED <<job, writer, walmu, handleVars, tick, spawned>>
      /\ pc' = [pc EXCEPT ![g] = "held"]
  BY DEF RLock, Goto, At
<1>3. /\ pc' \in [Procs -> Labels] /\ pc'[g] = "held"
      /\ \A q \in Procs : q # g => pc'[q] = pc[q]
      /\ \A q \in Procs : job'[q] = job[q]
  BY <1>1, <1>2, OthersStay DEF Labels
<1>4. TypeOK' /\ job'[Compactor] = "compact"
  BY <1>1, <1>2, <1>3 DEF LocksMatch, TypeOK
<1>5. LocksMatch'
  <2>1. \A q \in Procs : writer # q
    BY <1>2
  <2> QED BY <1>1, <1>2, <1>3, <1>4, <2>1 DEF LocksMatch, InLock
<1>6. \A q \in Procs : Inside(q)' => Inside(q)
  BY <1>3 DEF Inside
<1>7. CloseInv' /\ ClosedForGood'
  BY <1>1, <1>2, <1>3, <1>6 DEF CloseInv, ClosedForGood
<1> QED BY <1>5, <1>7 DEF Safe

LEMMA SafeLock ==
    ASSUME Safe, NEW g \in Procs, Announce(g) \/ Lock(g)
    PROVE  Safe'
<1> USE DEF handleVars, lockVars
<1>1. LocksMatch /\ CloseInv /\ ClosedForGood
  BY DEF Safe
<1>2. CASE Announce(g)
  <2>1. /\ pc[g] = "lock" /\ writer = None /\ writer' = g
        /\ UNCHANGED <<job, readers, walmu, handleVars, tick, spawned>>
        /\ pc' = [pc EXCEPT ![g] = "drain"]
    BY <1>2 DEF Announce, Goto, At
  <2>2. /\ pc' \in [Procs -> Labels] /\ pc'[g] = "drain"
        /\ \A q \in Procs : q # g => pc'[q] = pc[q]
        /\ \A q \in Procs : job'[q] = job[q]
    BY <1>1, <2>1, OthersStay DEF Labels
  <2>3. TypeOK' /\ job'[Compactor] = "compact"
    BY <1>1, <2>1, <2>2 DEF LocksMatch, TypeOK
  <2>4. \A q \in Procs : writer # q
    BY <2>1
  <2>5. LocksMatch'
    BY <1>1, <2>1, <2>2, <2>3, <2>4 DEF LocksMatch, InLock
  <2>6. \A q \in Procs : Inside(q)' => Inside(q) /\ q # g
    BY <2>2 DEF Inside
  <2>7. CloseInv' /\ ClosedForGood'
    BY <1>1, <2>1, <2>2, <2>4, <2>6 DEF CloseInv, ClosedForGood
  <2> QED BY <2>5, <2>7 DEF Safe
<1>3. CASE Lock(g)
  <2>1. /\ pc[g] = "drain" /\ readers = {}
        /\ UNCHANGED <<job, lockVars, handleVars, tick, spawned>>
        /\ pc' = [pc EXCEPT ![g] = "held"]
    BY <1>3 DEF Lock, Goto, At
  <2>2. /\ pc' \in [Procs -> Labels] /\ pc'[g] = "held"
        /\ \A q \in Procs : q # g => pc'[q] = pc[q]
        /\ \A q \in Procs : job'[q] = job[q]
    BY <1>1, <2>1, OthersStay DEF Labels
  <2>3. TypeOK' /\ job'[Compactor] = "compact"
    BY <1>1, <2>1, <2>2 DEF LocksMatch, TypeOK
  <2>4. LocksMatch'
    BY <1>1, <2>1, <2>2, <2>3 DEF LocksMatch, InLock
  <2>5. \A q \in Procs : Inside(q)' => Inside(q)
    BY <2>2 DEF Inside
  <2>6. CloseInv' /\ ClosedForGood'
    BY <1>1, <2>1, <2>2, <2>5 DEF CloseInv, ClosedForGood
  <2> QED BY <2>4, <2>6 DEF Safe
<1> QED BY <1>2, <1>3

LEMMA SafeUnlock ==
    ASSUME Safe, NEW g \in Procs, Unlock(g)
    PROVE  Safe'
<1> USE DEF handleVars
<1>1. LocksMatch /\ CloseInv /\ ClosedForGood
  BY DEF Safe
<1>2. /\ pc[g] = "unlock" /\ UNCHANGED <<job, walmu, handleVars, tick, spawned>>
      /\ pc' = [pc EXCEPT ![g] = Home(g)]
      /\ IF writer = g THEN writer' = None /\ readers' = readers
         ELSE readers' = readers \ {g} /\ writer' = writer
  BY DEF Unlock, Goto, At
<1>3. /\ Home(g) \in Labels /\ Home(g) \notin InLock \cup {"drain"}
      /\ Home(g) \notin {"rlock", "lock"} /\ Home(g) # "wal"
  BY DEF Home, Labels, InLock
<1>4. /\ pc' \in [Procs -> Labels] /\ pc'[g] = Home(g)
      /\ \A q \in Procs : q # g => pc'[q] = pc[q]
      /\ \A q \in Procs : job'[q] = job[q]
  BY <1>1, <1>2, <1>3, OthersStay
<1>5. TypeOK' /\ job'[Compactor] = "compact"
  BY <1>1, <1>2, <1>4 DEF LocksMatch, TypeOK
<1>6. LocksMatch'
  <2> SUFFICES ASSUME NEW q \in Procs
               PROVE  /\ q \in readers' <=> pc'[q] \in InLock /\ job'[q] \notin Exclusive
                      /\ writer' = q <=> pc'[q] \in InLock \cup {"drain"} /\ job'[q] \in Exclusive
                      /\ walmu' = q <=> pc'[q] = "wal"
                      /\ writer' = q /\ pc'[q] # "drain" => readers' = {}
                      /\ pc'[q] = "rlock" => job'[q] \notin Exclusive
                      /\ pc'[q] \in {"lock", "drain"} => job'[q] \in Exclusive
    BY <1>5 DEF LocksMatch
  <2>1. CASE q = g
    BY <1>1, <1>2, <1>3, <1>4, <2>1 DEF LocksMatch, InLock
  <2>2. CASE q # g
    BY <1>1, <1>2, <1>4, <2>2 DEF LocksMatch
  <2> QED BY <2>1, <2>2
<1>7. \A q \in Procs : Inside(q)' => Inside(q) /\ q # g
  BY <1>3, <1>4 DEF Inside, InLock
<1>8. CloseInv' /\ ClosedForGood'
  BY <1>1, <1>2, <1>4, <1>7 DEF CloseInv, ClosedForGood
<1> QED BY <1>6, <1>8 DEF Safe

LEMMA SafeCheck ==
    ASSUME Safe, NEW g \in Procs, CheckClosed(g)
    PROVE  Safe'
<1> USE DEF lockVars, handleVars
<1>1. LocksMatch /\ CloseInv /\ ClosedForGood
  BY DEF Safe
<1>2. pc[g] = "held" /\ UNCHANGED <<job, lockVars, tick, spawned, walOpen>>
  BY DEF CheckClosed, At
<1>3. PICK l \in {"unlock", After(job[g])} : pc' = [pc EXCEPT ![g] = l]
  BY DEF CheckClosed, Goto
<1>4. job[g] \in Jobs
  BY <1>1 DEF LocksMatch, TypeOK
<1>5. l \in {"unlock", "using", "wait", "walwait"} /\ (l = "wait" => job[g] = "close")
  BY <1>3, <1>4 DEF After, Jobs, ClientJobs
<1>6. /\ pc' \in [Procs -> Labels] /\ pc'[g] = l
      /\ \A q \in Procs : q # g => pc'[q] = pc[q]
      /\ \A q \in Procs : job'[q] = job[q]
  BY <1>1, <1>2, <1>3, <1>5, OthersStay DEF Labels
<1>7. TypeOK' /\ job'[Compactor] = "compact"
  <2>1. closed' \in BOOLEAN /\ ticking' \in BOOLEAN /\ stopCh' \in {"open", "closed", "panic"}
    BY <1>1 DEF CheckClosed, LocksMatch, TypeOK
  <2> QED BY <1>1, <1>2, <1>6, <2>1 DEF LocksMatch, TypeOK
<1>8. LocksMatch'
  <2> SUFFICES ASSUME NEW q \in Procs
               PROVE  /\ q \in readers <=> pc'[q] \in InLock /\ job'[q] \notin Exclusive
                      /\ writer = q <=> pc'[q] \in InLock \cup {"drain"} /\ job'[q] \in Exclusive
                      /\ walmu = q <=> pc'[q] = "wal"
                      /\ writer = q /\ pc'[q] # "drain" => readers = {}
                      /\ pc'[q] = "rlock" => job'[q] \notin Exclusive
                      /\ pc'[q] \in {"lock", "drain"} => job'[q] \in Exclusive
    BY <1>2, <1>7 DEF LocksMatch
  <2>1. CASE q = g
    BY <1>1, <1>2, <1>5, <1>6, <2>1 DEF LocksMatch, InLock
  <2>2. CASE q # g
    BY <1>1, <1>2, <1>6, <2>2 DEF LocksMatch
  <2> QED BY <2>1, <2>2
<1>9. CASE closed \/ job[g] # "close"
  <2>1. closed' = closed /\ stopCh' = stopCh /\ (closed => l = "unlock")
    BY <1>3, <1>5, <1>6, <1>9 DEF CheckClosed, Goto
  <2>2. \A q \in Procs : Inside(q)' => Inside(q) \/ (q = g /\ ~closed)
    BY <1>6, <2>1 DEF Inside
  <2>3. CloseInv' /\ ClosedForGood'
    BY <1>1, <1>2, <1>6, <1>9, <2>1, <2>2 DEF CloseInv, ClosedForGood
  <2> QED BY <1>8, <2>3 DEF Safe
<1>10. CASE ~closed /\ job[g] = "close"
  <2>1. closed' = TRUE /\ stopCh' = "closed" /\ stopCh = "open"
    BY <1>1, <1>10 DEF CheckClosed, CloseInv
  <2>2. writer = g /\ readers = {}
    BY <1>1, <1>2, <1>10 DEF LocksMatch, InLock, Exclusive
  <2>3. \A q \in Procs : q # g => ~Inside(q)'
    <3>1. \A q \in Procs : q # g => writer # q /\ q \notin readers
      BY <2>2
    <3>2. \A q \in Procs : q # g => pc[q] \notin InLock
      BY <1>1, <3>1 DEF LocksMatch
    <3> QED BY <1>6, <3>2 DEF Inside, InLock
  <2>4. CloseInv' /\ ClosedForGood'
    BY <1>1, <1>2, <1>6, <1>10, <2>1, <2>2, <2>3 DEF CloseInv, ClosedForGood
  <2> QED BY <1>8, <2>4 DEF Safe
<1> QED BY <1>9, <1>10

LEMMA SafeWAL ==
    ASSUME Safe, NEW g \in Procs, WALLock(g) \/ WALUse(g)
    PROVE  Safe'
<1> USE DEF handleVars
<1>1. LocksMatch /\ CloseInv /\ ClosedForGood
  BY DEF Safe
<1> DEFINE l == IF pc[g] = "walwait" THEN "wal" ELSE "unlock"
<1>2. /\ \/ pc[g] = "walwait" /\ walmu = None /\ walmu' = g /\ walOpen' = walOpen
         \/ pc[g] = "wal" /\ walmu' = None /\ walOpen' = (walOpen /\ job[g] # "close")
      /\ UNCHANGED <<job, readers, writer, closed, ticking, stopCh, tick>>
      /\ pc' = [pc EXCEPT ![g] = l]
      /\ spawned' \in BOOLEAN
  BY <1>1 DEF WALLock, WALUse, At, Goto, LocksMatch, TypeOK
<1>3. /\ pc' \in [Procs -> Labels] /\ pc'[g] = l
      /\ \A q \in Procs : q # g => pc'[q] = pc[q]
      /\ \A q \in Procs : job'[q] = job[q]
  BY <1>1, <1>2, OthersStay DEF Labels
<1>4. TypeOK' /\ job'[Compactor] = "compact"
  BY <1>1, <1>2, <1>3 DEF LocksMatch, TypeOK
<1>5. LocksMatch'
  <2> SUFFICES ASSUME NEW q \in Procs
               PROVE  /\ q \in readers <=> pc'[q] \in InLock /\ job'[q] \notin Exclusive
                      /\ writer = q <=> pc'[q] \in InLock \cup {"drain"} /\ job'[q] \in Exclusive
                      /\ walmu' = q <=> pc'[q] = "wal"
                      /\ writer = q /\ pc'[q] # "drain" => readers = {}
                      /\ pc'[q] = "rlock" => job'[q] \notin Exclusive
                      /\ pc'[q] \in {"lock", "drain"} => job'[q] \in Exclusive
    BY <1>2, <1>4 DEF LocksMatch
  <2>1. CASE q = g
    BY <1>1, <1>2, <1>3, <2>1 DEF LocksMatch, InLock
  <2>2. CASE q # g
    <3>1. walmu' = q <=> pc'[q] = "wal"
      BY <1>1, <1>2, <1>3, <2>2 DEF LocksMatch
    <3> QED BY <1>1, <1>2, <1>3, <2>2, <3>1 DEF LocksMatch
  <2> QED BY <2>1, <2>2
<1>6. \A q \in Procs : Inside(q)' => Inside(q)
  BY <1>2, <1>3 DEF Inside
<1>7. ~walOpen' => closed
  <2> HIDE DEF l
  <2>1. CASE walOpen' = walOpen
    BY <1>1, <2>1 DEF ClosedForGood
  <2>2. CASE pc[g] = "wal" /\ walOpen' = (walOpen /\ job[g] # "close")
    <3>1. job[g] = "close" => closed
      BY <1>1, <2>2 DEF CloseInv, Inside
    <3>2. CASE job[g] = "close"
      BY <3>1, <3>2
    <3>3. CASE job[g] # "close"
      BY <1>1, <2>2, <3>3 DEF ClosedForGood
    <3> QED BY <3>2, <3>3
  <2> QED BY <1>2, <2>1, <2>2
<1>8. CloseInv' /\ ClosedForGood'
  BY <1>1, <1>2, <1>3, <1>6, <1>7 DEF CloseInv, ClosedForGood
<1> QED BY <1>5, <1>8 DEF Safe

LEMMA SafeStep == Safe /\ [Next]_vars => Safe'
<1> SUFFICES ASSUME Safe, [Next]_vars PROVE Safe'
  OBVIOUS
<1> USE DEF lockVars, handleVars
<1>1. LocksMatch /\ TypeOK
  BY DEF Safe, LocksMatch
<1>2. \A g \in Procs : job[g] \in Jobs /\ job = [job EXCEPT ![g] = job[g]]
  BY <1>1 DEF TypeOK
<1>3. ASSUME NEW j \in Jobs
     PROVE  \E l \in {"rlock", "lock"} :
              /\ l = AskFor(j)
              /\ l = "rlock" => j \notin Exclusive
              /\ l = "lock" => j \in Exclusive
  <2>1. CASE j \in Exclusive
    BY <2>1 DEF AskFor
  <2>2. CASE j \notin Exclusive
    BY <2>2 DEF AskFor
  <2> QED BY <2>1, <2>2
<1>4. ASSUME NEW g \in Clients, NEW j \in ClientJobs, Call(g, j) PROVE Safe'
  <2>1. /\ pc[g] = "idle" /\ pc' = [pc EXCEPT ![g] = AskFor(j)]
        /\ job' = [job EXCEPT ![g] = j]
        /\ UNCHANGED <<lockVars, handleVars, tick, spawned>>
    BY <1>4 DEF Call, At, Goto
  <2>2. g \in Procs /\ g # Compactor /\ j \in Jobs
    BY <1>4 DEF Procs, Jobs
  <2>3. PICK l \in {"rlock", "lock"} :
          /\ l = AskFor(j)
          /\ l = "rlock" => j \notin Exclusive
          /\ l = "lock" => j \in Exclusive
    BY <1>3, <2>2
  <2>4. l \in Labels /\ l \notin InLock \cup {"drain"} /\ l # "wal"
    BY <2>3 DEF Labels, InLock
  <2>5. pc[g] \notin InLock \cup {"drain"} /\ pc[g] # "wal"
    BY <2>1 DEF InLock
  <2>6. pc' = [pc EXCEPT ![g] = l] /\ tick' \subseteq Workers /\ spawned' \in BOOLEAN
    BY <1>1, <2>1, <2>3 DEF TypeOK
  <2>7. pc'[g] = l
    BY <1>1, <2>2, <2>6 DEF TypeOK
  <2>8. ~Inside(g)'
    BY <2>3, <2>7 DEF Inside
  <2>9. pc[g] = "wal" <=> l = "wal"
    BY <2>4, <2>5
  <2> QED BY <2>1, <2>2, <2>3, <2>4, <2>5, <2>6, <2>8, <2>9, SafeMove
<1>5. ASSUME NEW w \in Workers, TickerFires(w) PROVE Safe'
  <2>1. /\ UNCHANGED <<pc, job, lockVars, handleVars, spawned>> /\ tick' \subseteq Workers
    BY <1>1, <1>5 DEF TickerFires, TypeOK
  <2> QED BY <2>1 DEF Safe, LocksMatch, TypeOK, CloseInv, ClosedForGood, Inside
\* A goroutine that moves from one place to another without its lock changing.
<1>move. ASSUME NEW g \in Procs, NEW l \in Labels, pc' = [pc EXCEPT ![g] = l],
                UNCHANGED <<job, lockVars, handleVars>>,
                tick' \subseteq Workers, spawned' \in BOOLEAN,
                \/ pc[g] \notin InLock \cup {"drain"} /\ l \notin InLock \cup {"drain"}
                \/ pc[g] \in InLock /\ l \in InLock,
                pc[g] # "wal", l # "wal", Inside(g)' => Inside(g),
                l = "rlock" => job[g] \notin Exclusive,
                l = "lock" => job[g] \in Exclusive
         PROVE  Safe'
  <2>1. job' = [job EXCEPT ![g] = job[g]] /\ job[g] \in Jobs
    BY <1>2, <1>move
  <2> QED BY <1>move, <2>1, SafeMove
<1>6. CASE StartCompact
  <2>1. /\ Compactor \in Procs /\ pc[Compactor] = "idle"
        /\ pc' = [pc EXCEPT ![Compactor] = "rlock"] /\ spawned' = FALSE
        /\ UNCHANGED <<job, lockVars, handleVars, tick>>
    BY <1>6 DEF StartCompact, At, Goto, Procs
  <2>2. job[Compactor] \notin Exclusive
    BY <1>1 DEF LocksMatch, Exclusive
  <2>3. tick' \subseteq Workers /\ ~Inside(Compactor)'
    BY <1>1, <2>1 DEF TypeOK, Inside
  <2> QED BY <2>1, <2>2, <2>3, <1>move DEF Labels, InLock
<1>7. CASE CompactFiles
  <2>1. /\ Compactor \in Procs /\ pc[Compactor] = "files"
        /\ pc' = [pc EXCEPT ![Compactor] = "idle"]
        /\ UNCHANGED <<job, lockVars, handleVars, tick, spawned>>
    BY <1>7 DEF CompactFiles, At, Goto, Procs
  <2>2. tick' \subseteq Workers /\ spawned' \in BOOLEAN /\ ~Inside(Compactor)'
    BY <1>1, <2>1 DEF TypeOK, Inside
  <2> QED BY <2>1, <2>2, <1>move DEF Labels, InLock
<1>8. ASSUME NEW w \in Workers, SelectTick(w) PROVE Safe'
  <2>1. /\ w \in Procs /\ pc[w] = "select"
        /\ pc' = [pc EXCEPT ![w] = AskFor(job[w])]
        /\ UNCHANGED <<job, lockVars, handleVars, spawned>> /\ tick' = tick \ {w}
    BY <1>8 DEF SelectTick, At, Goto, Procs
  <2>2. job[w] \in Jobs
    BY <1>2, <2>1
  <2>3. PICK l \in {"rlock", "lock"} :
          /\ l = AskFor(job[w])
          /\ l = "rlock" => job[w] \notin Exclusive
          /\ l = "lock" => job[w] \in Exclusive
    BY <1>3, <2>2
  <2>4. pc' = [pc EXCEPT ![w] = l] /\ tick' \subseteq Workers /\ spawned' \in BOOLEAN
    BY <1>1, <2>1, <2>3 DEF TypeOK
  <2>5. pc'[w] = l
    BY <1>1, <2>1, <2>4 DEF TypeOK
  <2>6. ~Inside(w)'
    BY <2>3, <2>5 DEF Inside
  <2> QED BY <2>1, <2>3, <2>4, <2>6, <1>move DEF Labels, InLock
<1>9. ASSUME NEW w \in Workers, SelectStop(w) PROVE Safe'
  <2>1. /\ w \in Procs /\ pc[w] = "select" /\ pc' = [pc EXCEPT ![w] = "exited"]
        /\ UNCHANGED <<job, lockVars, handleVars, tick, spawned>>
    BY <1>9 DEF SelectStop, At, Goto, Procs
  <2>2. tick' \subseteq Workers /\ spawned' \in BOOLEAN /\ ~Inside(w)'
    BY <1>1, <2>1 DEF TypeOK, Inside
  <2> QED BY <2>1, <2>2, <1>move DEF Labels, InLock
<1>10. ASSUME NEW g \in Procs, WorkersDone(g) PROVE Safe'
  <2>1. /\ pc[g] = "wait" /\ pc' = [pc EXCEPT ![g] = "walwait"]
        /\ UNCHANGED <<job, lockVars, handleVars, tick, spawned>>
    BY <1>10 DEF WorkersDone, At, Goto
  <2>2. tick' \subseteq Workers /\ spawned' \in BOOLEAN /\ Inside(g)
    BY <1>1, <2>1 DEF TypeOK, Inside
  <2> QED BY <2>1, <2>2, <1>move DEF Labels, InLock
<1>11. ASSUME NEW g \in Procs, Use(g) PROVE Safe'
  <2>1. /\ pc[g] = "using" /\ pc' = [pc EXCEPT ![g] = "unlock"]
        /\ UNCHANGED <<job, lockVars, handleVars, tick, spawned>>
    BY <1>11 DEF Use, At, Goto
  <2>2. tick' \subseteq Workers /\ spawned' \in BOOLEAN /\ Inside(g)
    BY <1>1, <2>1 DEF TypeOK, Inside
  <2> QED BY <2>1, <2>2, <1>move DEF Labels, InLock
<1>12. ASSUME NEW g \in Procs, Run(g) \/ Acquire(g) PROVE Safe'
  BY <1>10, <1>11, <1>12, SafeRLock, SafeLock, SafeUnlock, SafeCheck, SafeWAL
  DEF Run, Acquire
<1>13. CASE UNCHANGED vars
  BY <1>13 DEF vars, Safe, LocksMatch, TypeOK, CloseInv, ClosedForGood, Inside
<1> QED
  BY <1>4, <1>5, <1>6, <1>7, <1>8, <1>9, <1>12, <1>13 DEF Next, Begin

\* The locks of a handle are held exactly by the calls that are between taking
\* and releasing them, and once Close has begun to stop the handle nobody else
\* is inside it (close.go).
THEOREM SafeAlways == Spec => []Safe
<1> QED BY SafeInit, SafeStep, PTL DEF Spec

\* After db.closed is set, only the Close that set it uses the handle, and
\* stopCh is closed once.
THEOREM ClosedAlways == Spec => []ClosedForGood
<1>1. Safe => ClosedForGood
  BY DEF Safe
<1> QED BY <1>1, SafeAlways, PTL

==============================================================================
