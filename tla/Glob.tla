-------------------------------- MODULE Glob --------------------------------
(***************************************************************************)
(* pathMatch (internal/index/glob.go), the matcher behind DB.Keys: one     *)
(* pass over the name that remembers the last '*' and, when it is stuck,   *)
(* lets that star take one rune more.                                      *)
(*                                                                         *)
(* Indices start at 1; star = 0 is the code's starIdx = -1.                *)
(***************************************************************************)
EXTENDS Naturals, Sequences

CONSTANTS
    Runes,      \* runes without a meaning in a pattern
    NameRunes,  \* runes of a name
    Star,       \* '*'
    AnyRune,    \* '?'
    MaxPattern, \* bound on the length of a pattern
    MaxName     \* bound on the length of a name

ASSUME GlobConstants ==
    /\ Star # AnyRune /\ Runes \cap {Star, AnyRune} = {}
    /\ NameRunes \subseteq Runes \cup {Star, AnyRune}
    /\ MaxPattern \in Nat /\ MaxName \in Nat

VARIABLES p, n, pi, ni, star, match, answer

globVars == <<p, n, pi, ni, star, match, answer>>

Words(S, len) == UNION {[1..k -> S] : k \in 0..len}

GlobInit ==
    /\ p \in Words(Runes \cup {Star, AnyRune}, MaxPattern)
    /\ n \in Words(NameRunes, MaxName)
    /\ pi = 1 /\ ni = 1 /\ star = 0 /\ match = 1
    /\ answer = "none"

Running == answer = "none" /\ ni <= Len(n)

\* The test that comes first: a '*' of the name is taken for the same rune.
Same == pi <= Len(p) /\ (p[pi] = AnyRune \/ p[pi] = n[ni])

AtStar == pi <= Len(p) /\ p[pi] = Star

Advance ==
    /\ Running /\ Same
    /\ pi' = pi + 1 /\ ni' = ni + 1
    /\ UNCHANGED <<p, n, star, match, answer>>

TakeStar ==
    /\ Running /\ ~Same /\ AtStar
    /\ star' = pi /\ match' = ni
    /\ pi' = pi + 1
    /\ UNCHANGED <<p, n, ni, answer>>

\* A variant that lets the star take what it has taken already.
BacktrackInPlace ==
    /\ Running /\ ~Same /\ ~AtStar /\ star # 0
    /\ pi' = star + 1
    /\ ni' = match
    /\ UNCHANGED <<p, n, star, match, answer>>

Backtrack ==
    /\ Running /\ ~Same /\ ~AtStar /\ star # 0
    /\ pi' = star + 1
    /\ match' = match + 1
    /\ ni' = match + 1
    /\ UNCHANGED <<p, n, star, answer>>

Mismatch ==
    /\ Running /\ ~Same /\ ~AtStar /\ star = 0
    /\ answer' = "no"
    /\ UNCHANGED <<p, n, pi, ni, star, match>>

\* A variant that wants the pattern to end with the name.
FinishAtOnce ==
    /\ answer = "none" /\ ni > Len(n)
    /\ answer' = IF pi > Len(p) THEN "yes" ELSE "no"
    /\ UNCHANGED <<p, n, pi, ni, star, match>>

\* What is left of the pattern must be stars.
Finish ==
    /\ answer = "none" /\ ni > Len(n)
    /\ answer' = IF \A i \in pi..Len(p) : p[i] = Star THEN "yes" ELSE "no"
    /\ UNCHANGED <<p, n, pi, ni, star, match>>

GlobNext == Advance \/ TakeStar \/ Backtrack \/ Mismatch \/ Finish

GlobSpec == GlobInit /\ [][GlobNext]_globVars /\ WF_globVars(GlobNext)

-----------------------------------------------------------------------------
\* The lengths of the prefixes of name that the first i runes of pattern match,
\* when the first i - 1 match those of the lengths in S.
Extend(pattern, name, i, S) ==
    IF pattern[i] = Star
    THEN {j \in 0..Len(name) : \E k \in S : k <= j}
    ELSE {j \in 1..Len(name) : j - 1 \in S /\ pattern[i] \in {AnyRune, name[j]}}

\* The meaning of a pattern.
MatchedLengths(pattern, name) ==
    LET f[i \in 0..Len(pattern)] ==
            IF i = 0 THEN {0} ELSE Extend(pattern, name, i, f[i - 1])
    IN  f

Matches(pattern, name) == Len(name) \in MatchedLengths(pattern, name)[Len(pattern)]

\* A star of the pattern and a star of the name, and what comes before the one
\* matches what comes before the other.
StarsMeet ==
    \E i \in 1..Len(p), j \in 1..Len(n) :
        /\ p[i] = Star /\ n[j] = Star
        /\ j - 1 \in MatchedLengths(p, n)[i - 1]

(***************************************************************************)
(* The greedy matcher gives the answer of the definition for every pattern *)
(* and name (glob.go:12-36): giving up every star but the last never loses *)
(* a match.  A yes is always right.  A no is wrong only where the star of  *)
(* the pattern can be reached at a star of the name, which the first test  *)
(* then takes for the same rune (glob.go:13).                              *)
(***************************************************************************)
AnswerRight ==
    /\ answer = "yes" => Matches(p, n)
    /\ answer = "no" /\ Matches(p, n) => StarsMeet

\* Backtracking ends: pathMatch returns for every pattern and name.
Terminates == <>(answer # "none")

(***************************************************************************)
(* internal/index/iterator.go:25, "Keys returns all keys matching the glob *)
(* pattern (supports '*' and '?')": no match is missed, whatever the key.   *)
(***************************************************************************)
AllKeysMatched == answer # "none" /\ Matches(p, n) => answer = "yes"

=============================================================================
