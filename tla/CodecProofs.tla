---------------------------- MODULE CodecProofs ----------------------------
(***************************************************************************)
(* Proofs about Codec for numbers, records, segments and snapshots of any  *)
(* size.  The numbers first: a time and a varint are read as they were     *)
(* written, whatever follows.  Then one record, whole, cut and damaged,    *)
(* the segments made of records, and the snapshots.                        *)
(***************************************************************************)
EXTENDS Codec, SetLemmas, FiniteSetTheorems

-----------------------------------------------------------------------------
(* Numbers in digits *)

LEMMA Division ==
    ASSUME NEW x \in Int, NEW b \in Nat, b > 0
    PROVE  /\ x = b * (x \div b) + (x % b)
           /\ x \div b \in Int /\ x % b \in 0..(b - 1)
OBVIOUS

QuotientStep(b) == [w \in Nat \X Int |-> w[2] \div b]

LEMMA QuotientsIterate ==
    ASSUME NEW x \in Int, NEW b \in Nat, b > 0, NEW m \in Nat
    PROVE  Iterates(Quotients(x, b, m), Int, QuotientStep(b), x, 0, m)
<1> DEFINE Sol(f) == f = [i \in 0..m |-> IF i = 0 THEN x ELSE f[i - 1] \div b]
           q == Quotients(x, b, m)
<1>1. /\ QuotientStep(b) \in [Nat \X Int -> Int] /\ 0 \in Nat /\ 0 <= m
      /\ \A i \in Nat, y \in Int : QuotientStep(b)[<<i, y>>] = y \div b
      /\ \A i \in 1..m : i \in Nat
  BY Division DEF QuotientStep
<1>2. PICK f : Iterates(f, Int, QuotientStep(b), x, 0, m)
  BY <1>1, Recursion, Zenon
<1>3. Sol(f)
  <2>1. f \in [0..m -> Int] /\ f[0] = x /\ \A i \in 1..m : f[i] = QuotientStep(b)[<<i, f[i - 1]>>]
    BY <1>2 DEF Iterates
  <2>2. \A i \in 1..m : f[i - 1] \in Int
    BY <2>1
  <2>3. \A i \in 1..m : f[i] = f[i - 1] \div b
    BY <1>1, <2>1, <2>2, Zenon
  <2> QED BY <2>1, <2>3
<1>4. Sol(q)
  <2>1. q = CHOOSE g : Sol(g)
    BY DEF Quotients
  <2> HIDE DEF Sol, q
  <2> QED BY <1>3, <2>1
<1>5. q = [i \in 0..m |-> q[i]] /\ q[0] = x /\ \A i \in 1..m : q[i] = q[i - 1] \div b
  BY <1>4
<1>6. q = [i \in 0..m |-> q[i]]
  BY <1>5, Zenon
<1>7. Follows(q, Int, QuotientStep(b), x, 0, m)
  <2>1. \A i \in 1..m : q[i - 1] \in Int => q[i] = QuotientStep(b)[<<i, q[i - 1]>>]
    <3> HIDE DEF q
    <3> QED BY <1>1, <1>5, Zenon
  <2>2. q[0] = x
    BY <1>5, Zenon
  <2> HIDE DEF q
  <2> QED BY <2>1, <2>2 DEF Follows
<1> HIDE DEF q
<1>8. Iterates(q, Int, QuotientStep(b), x, 0, m)
  BY <1>1, <1>6, <1>7, FollowsIterates, Zenon
<1> QED BY <1>8 DEF q

LEMMA QuotientsDef ==
    ASSUME NEW x \in Int, NEW b \in Nat, b > 0, NEW m \in Nat
    PROVE  /\ Quotients(x, b, m) \in [0..m -> Int]
           /\ Quotients(x, b, m)[0] = x
           /\ \A i \in 1..m : Quotients(x, b, m)[i] = Quotients(x, b, m)[i - 1] \div b
<1> DEFINE q == Quotients(x, b, m)
<1>1. /\ q \in [0..m -> Int] /\ q[0] = x
      /\ \A i \in 1..m : q[i] = QuotientStep(b)[<<i, q[i - 1]>>]
  BY QuotientsIterate DEF Iterates
<1>2. ASSUME NEW i \in 1..m PROVE q[i] = q[i - 1] \div b
  <2>1. i \in Nat /\ q[i - 1] \in Int
    BY <1>1
  <2> QED BY <1>1, <2>1 DEF QuotientStep
<1> QED BY <1>1, <1>2

PowerStep(b) == [w \in Nat \X Nat |-> b * w[2]]

Powers(b, m) == CHOOSE pow : pow = [i \in 0..m |-> IF i = 0 THEN 1 ELSE b * pow[i - 1]]

LEMMA PowersIterate ==
    ASSUME NEW b \in Nat, NEW m \in Nat
    PROVE  Iterates(Powers(b, m), Nat, PowerStep(b), 1, 0, m)
<1> DEFINE Sol(f) == f = [i \in 0..m |-> IF i = 0 THEN 1 ELSE b * f[i - 1]]
           q == Powers(b, m)
<1>1. /\ PowerStep(b) \in [Nat \X Nat -> Nat] /\ 0 \in Nat /\ 0 <= m /\ 1 \in Nat
      /\ \A i \in Nat, y \in Nat : PowerStep(b)[<<i, y>>] = b * y
      /\ \A i \in 1..m : i \in Nat
  BY DEF PowerStep
<1>2. PICK f : Iterates(f, Nat, PowerStep(b), 1, 0, m)
  BY <1>1, Recursion, Zenon
<1>3. Sol(f)
  <2>1. f \in [0..m -> Nat] /\ f[0] = 1 /\ \A i \in 1..m : f[i] = PowerStep(b)[<<i, f[i - 1]>>]
    BY <1>2 DEF Iterates
  <2>2. \A i \in 1..m : f[i - 1] \in Nat
    BY <2>1
  <2>3. \A i \in 1..m : f[i] = b * f[i - 1]
    BY <1>1, <2>1, <2>2, Zenon
  <2> QED BY <2>1, <2>3
<1>4. Sol(q)
  <2>1. q = CHOOSE g : Sol(g)
    BY DEF Powers
  <2> HIDE DEF Sol, q
  <2> QED BY <1>3, <2>1
<1>5. q = [i \in 0..m |-> q[i]] /\ q[0] = 1 /\ \A i \in 1..m : q[i] = b * q[i - 1]
  BY <1>4
<1>6. q = [i \in 0..m |-> q[i]]
  BY <1>5, Zenon
<1>7. Follows(q, Nat, PowerStep(b), 1, 0, m)
  <2>1. \A i \in 1..m : q[i - 1] \in Nat => q[i] = PowerStep(b)[<<i, q[i - 1]>>]
    <3> HIDE DEF q
    <3> QED BY <1>1, <1>5, Zenon
  <2>2. q[0] = 1
    BY <1>5, Zenon
  <2> HIDE DEF q
  <2> QED BY <2>1, <2>2 DEF Follows
<1> HIDE DEF q
<1>8. Iterates(q, Nat, PowerStep(b), 1, 0, m)
  BY <1>1, <1>6, <1>7, FollowsIterates, Zenon
<1> QED BY <1>8 DEF q

LEMMA PowerDef ==
    ASSUME NEW b \in Nat, NEW m \in Nat
    PROVE  /\ Power(b, m) \in Nat /\ Power(b, 0) = 1
           /\ Power(b, m + 1) = b * Power(b, m)
<1>1. \A k \in Nat : Power(b, k) = Powers(b, k)[k]
  BY DEF Power, Powers
<1>2. \A k \in Nat : Iterates(Powers(b, k), Nat, PowerStep(b), 1, 0, k)
  BY PowersIterate
<1>3. /\ m \in Nat /\ m + 1 \in Nat /\ m <= m + 1 /\ 0 \in Nat /\ m \in 0..m
      /\ m + 1 \in 1..(m + 1) /\ (m + 1) - 1 = m /\ m \in 0..(m + 1)
  OBVIOUS
<1>4. Powers(b, m)[m] = Powers(b, m + 1)[m]
  <2>1. \A i \in 0..m : Powers(b, m)[i] = Powers(b, m + 1)[i]
    <3>1. /\ Iterates(Powers(b, m), Nat, PowerStep(b), 1, 0, m)
          /\ Iterates(Powers(b, m + 1), Nat, PowerStep(b), 1, 0, m + 1)
      BY <1>2, <1>3, Zenon
    <3> QED BY <1>3, <3>1, SolutionsAgree
  <2> QED BY <1>3, <2>1
<1>5. /\ Powers(b, m + 1)[m] \in Nat /\ Powers(b, 0)[0] = 1
      /\ Powers(b, m + 1)[m + 1] = PowerStep(b)[<<m + 1, Powers(b, m + 1)[m]>>]
  <2>1. Iterates(Powers(b, m + 1), Nat, PowerStep(b), 1, 0, m + 1) /\ Iterates(Powers(b, 0), Nat, PowerStep(b), 1, 0, 0)
    BY <1>2, <1>3
  <2> QED BY <1>3, <2>1 DEF Iterates
<1>6. Powers(b, m + 1)[m + 1] = b * Powers(b, m + 1)[m]
  BY <1>3, <1>5 DEF PowerStep
<1> QED BY <1>1, <1>3, <1>4, <1>5, <1>6

NumberStep(digits, b) ==
    [w \in Nat \X Int |->
       IF w[1] \in 1..Len(digits) THEN digits[Len(digits) + 1 - w[1]] + b * w[2] ELSE 0]

LEMMA NumberIterates ==
    ASSUME NEW digits \in Seq(Int), NEW b \in Nat, NEW top \in Int
    PROVE  \E num : /\ Iterates(num, Int, NumberStep(digits, b), top, 0, Len(digits))
                    /\ Number(digits, b, top) = num[Len(digits)]
<1> DEFINE m == Len(digits)
           step == NumberStep(digits, b)
           Sol(f) == f = [i \in 0..m |-> IF i = 0 THEN top
                                         ELSE digits[m + 1 - i] + b * f[i - 1]]
           q == CHOOSE g : Sol(g)
<1>0. m \in Nat /\ \A i \in 1..m : digits[m + 1 - i] \in Int
  BY DEF m
<1>1. /\ step \in [Nat \X Int -> Int] /\ 0 \in Nat /\ 0 <= m
      /\ \A i \in 1..m, y \in Int : step[<<i, y>>] = digits[m + 1 - i] + b * y
      /\ \A i \in 1..m : i \in Nat
  <2>1. \A w \in Nat \X Int : (IF w[1] \in 1..m THEN digits[m + 1 - w[1]] + b * w[2] ELSE 0) \in Int
    BY <1>0
  <2> QED BY <1>0, <2>1 DEF NumberStep
<1>2. PICK f : Iterates(f, Int, step, top, 0, m)
  <2> HIDE DEF step, m
  <2> QED BY <1>0, <1>1, Recursion, Zenon
<1>3. Sol(f)
  <2>1. f \in [0..m -> Int] /\ f[0] = top /\ \A i \in 1..m : f[i] = step[<<i, f[i - 1]>>]
    <3> HIDE DEF step, m
    <3> QED BY <1>2 DEF Iterates
  <2>2. \A i \in 1..m : f[i - 1] \in Int
    BY <2>1, SMTT(30)
  <2>3. \A i \in 1..m : f[i] = digits[m + 1 - i] + b * f[i - 1]
    <3> HIDE DEF step, m
    <3> QED BY <1>1, <2>1, <2>2, Zenon
  <2> HIDE DEF m, step
  <2> QED BY <2>1, <2>3
<1>4. Sol(q)
  <2> HIDE DEF Sol
  <2> QED BY <1>3
<1>5. q = [i \in 0..m |-> q[i]]
  <2>1. q = [i \in 0..m |-> IF i = 0 THEN top ELSE digits[m + 1 - i] + b * q[i - 1]]
    BY <1>4
  <2> HIDE DEF q, m
  <2> QED BY <2>1
<1>6. Follows(q, Int, step, top, 0, m)
  <2>1. q = [i \in 0..m |-> IF i = 0 THEN top ELSE digits[m + 1 - i] + b * q[i - 1]]
    BY <1>4
  <2>2. q[0] = top /\ \A i \in 1..m : q[i] = digits[m + 1 - i] + b * q[i - 1]
    <3> HIDE DEF q, m
    <3> QED BY <1>0, <2>1
  <2>3. \A i \in 1..m : q[i - 1] \in Int => q[i] = step[<<i, q[i - 1]>>]
    <3> HIDE DEF q, m, step
    <3> QED BY <1>1, <2>2, Zenon
  <2> HIDE DEF q, m, step
  <2> QED BY <2>2, <2>3 DEF Follows
<1>7. Iterates(q, Int, step, top, 0, m)
  <2> HIDE DEF q, m, step, Sol
  <2> QED BY <1>0, <1>1, <1>5, <1>6, FollowsIterates, Zenon
<1>8. Number(digits, b, top) = q[m]
  BY DEF Number
<1> HIDE DEF q
<1> QED BY <1>7, <1>8

\* A number is made of its digits again.
DigitsOf(digits, x, b) ==
    \A i \in 1..Len(digits) : digits[i] = Quotients(x, b, Len(digits))[i - 1] % b

LEMMA DigitsRead ==
    ASSUME NEW x \in Int, NEW b \in Nat, b > 0, NEW digits \in Seq(Int),
           DigitsOf(digits, x, b)
    PROVE  Number(digits, b, Quotients(x, b, Len(digits))[Len(digits)]) = x
<1> DEFINE m == Len(digits)
           q == Quotients(x, b, m)
           g == [i \in 0..m |-> q[m - i]]
<1>0. m \in Nat
  OBVIOUS
<1>1. q \in [0..m -> Int] /\ q[0] = x
  BY <1>0, QuotientsDef, Zenon
<1>q. \A i \in 1..m : q[i] = q[i - 1] \div b
  BY <1>0, QuotientsDef, Zenon
<1>2. ASSUME NEW i \in 1..m PROVE g[i] = NumberStep(digits, b)[<<i, g[i - 1]>>]
  <2> DEFINE y == q[m - i]
  <2>0. i \in 0..m /\ i - 1 \in 0..m /\ m - i \in 0..m
    BY <1>0
  <2>1. /\ g[i] = y /\ g[i - 1] = q[m - (i - 1)]
        /\ m - (i - 1) \in 1..m /\ (m - (i - 1)) - 1 = m - i /\ y \in Int
    <3> HIDE DEF q, m
    <3> QED BY <1>0, <1>1, <2>0
  <2>2. g[i - 1] = y \div b
    BY <1>q, <2>1, Zenon
  <2>3. digits[m + 1 - i] = y % b
    <3>1. m + 1 - i \in 1..m /\ (m + 1 - i) - 1 = m - i
      OBVIOUS
    <3> QED BY <3>1 DEF DigitsOf
  <2>4. y = b * (y \div b) + (y % b) /\ y \div b \in Int
    BY <2>1, Division, Zenon
  <2>5. NumberStep(digits, b)[<<i, g[i - 1]>>] = digits[m + 1 - i] + b * g[i - 1]
    <3>1. i \in Nat /\ g[i - 1] \in Int /\ i \in 1..Len(digits)
      BY <2>2, <2>4
    <3> HIDE DEF g
    <3> QED BY <3>1 DEF NumberStep
  <2> HIDE DEF g, y
  <2> QED BY <2>1, <2>2, <2>3, <2>4, <2>5
<1>3. g[0] = q[m] /\ g[m] = x /\ g \in [0..m -> Int] /\ q[m] \in Int
  BY <1>0, <1>1
<1>4. Iterates(g, Int, NumberStep(digits, b), q[m], 0, m)
  <2> HIDE DEF g, q
  <2> QED BY <1>2, <1>3 DEF Iterates
<1>5. PICK num : /\ Iterates(num, Int, NumberStep(digits, b), q[m], 0, m)
                 /\ Number(digits, b, q[m]) = num[m]
  <2> HIDE DEF q
  <2> QED BY <1>3, NumberIterates
<1>6. num[m] = g[m]
  <2> HIDE DEF g, q, m
  <2>1. m <= m /\ 0 \in Nat /\ m \in 0..m
    BY <1>0
  <2> QED BY <1>0, <1>4, <1>5, <2>1, SolutionsAgree
<1> QED BY <1>3, <1>5, <1>6

-----------------------------------------------------------------------------
(* Cells, times and varints *)

Plain == [byte : Bytes, of : {<< >>}]

LEMMA Sizes ==
    /\ Base \in Nat /\ Base > 0 /\ Base = 2 * Half /\ Half \in Nat /\ Half >= 2 /\ Half > 0
    /\ Bytes \subseteq Nat
BY CodecConstants DEF Base, Bytes

LEMMA BytePlain ==
    ASSUME NEW x \in Bytes
    PROVE  Byte(x) \in Plain /\ Byte(x).byte = x /\ Byte(x).of = << >>
BY DEF Byte, Plain

LEMMA OfPlain ==
    ASSUME NEW c \in Plain
    PROVE  c.byte \in Bytes /\ c.byte \in Nat /\ c.of = << >> /\ c = Byte(c.byte)
BY Sizes DEF Plain, Byte

LEMMA WordPlain ==
    ASSUME NEW w \in Seq(Bytes)
    PROVE  Word(w) \in Seq(Plain) /\ Len(Word(w)) = Len(w)
           /\ \A i \in 1..Len(w) : Word(w)[i] = Byte(w[i])
BY BytePlain DEF Word

\* A word is read as it was written.
LEMMA ReadWord ==
    ASSUME NEW w \in Seq(Bytes), NEW cells, NEW k \in Nat,
           \A i \in 1..Len(w) : cells[k + i] = Byte(w[i])
    PROVE  Read(cells, k + 1, k + Len(w)) = w
<1>1. (k + Len(w)) - (k + 1) + 1 = Len(w) /\ \A i \in 1..Len(w) : k + 1 + i - 1 = k + i
  OBVIOUS
<1>2. Read(cells, k + 1, k + Len(w)) = [i \in 1..Len(w) |-> cells[k + i].byte]
  BY <1>1 DEF Read
<1>3. \A i \in 1..Len(w) : cells[k + i].byte = w[i]
  BY BytePlain
<1>4. w = [i \in 1..Len(w) |-> w[i]]
  OBVIOUS
<1> QED BY <1>2, <1>3, <1>4

LEMMA SmallDivision ==
    ASSUME NEW h \in Nat, NEW b \in Nat, b > 0, b = 2 * h, NEW y \in -h..(h - 1)
    PROVE  y \div b = IF y % b >= h THEN -1 ELSE 0
<1> DEFINE d == y \div b
           r == y % b
<1>1. y = b * d + r /\ d \in Int /\ r \in 0..(b - 1)
  BY Division
<1> HIDE DEF d, r
<1>2. CASE y >= 0
  <2>1. ~(d >= 1)
    BY <1>1, <1>2
  <2>2. ~(d <= -1)
    BY <1>1, <1>2
  <2> QED BY <1>1, <2>1, <2>2, <1>2 DEF d, r
<1>3. CASE y < 0
  <2>1. ~(d >= 0)
    BY <1>1, <1>3
  <2>2. ~(d <= -2)
    BY <1>1, <1>3
  <2>3. d = -1
    BY <1>1, <2>1, <2>2
  <2>4. r = y + b
    BY <1>1, <2>3
  <2> QED BY <2>3, <2>4, <1>3 DEF d, r
<1> QED BY <1>2, <1>3

LEMMA SignOf ==
    ASSUME NEW y \in -Half..(Half - 1)
    PROVE  y \div Base = IF y % Base >= Half THEN -1 ELSE 0
BY Sizes, SmallDivision, Zenon

LEMMA TimeRead ==
    ASSUME NEW t \in Int, NEW k \in Nat \ {0}, Fits(t, k)
    PROVE  PutTime(t, k) \in Seq(Plain) /\ Len(PutTime(t, k)) = k /\ Time(PutTime(t, k)) = t
<1> DEFINE q == Quotients(t, Base, k)
           cells == PutTime(t, k)
           digits == Read(cells, 1, Len(cells))
<1>0. k \in Nat
  OBVIOUS
<1>1. q \in [0..k -> Int] /\ q[0] = t
  BY Sizes, QuotientsDef, Zenon
<1>q. \A i \in 1..k : q[i] = q[i - 1] \div Base
  BY <1>0, Sizes, QuotientsDef
<1>2. cells = [i \in 1..k |-> Byte(q[i - 1] % Base)]
  BY DEF PutTime
<1>3. ASSUME NEW i \in 1..k PROVE q[i - 1] % Base \in Bytes
  BY <1>1, Sizes, Division DEF Bytes
<1>4. cells \in Seq(Plain) /\ Len(cells) = k
  <2>1. \A i \in 1..k : Byte(q[i - 1] % Base) \in Plain
    BY <1>3, BytePlain
  <2> HIDE DEF cells
  <2> QED BY <1>2, <2>1
<1>5. \A i \in 1..k : cells[i].byte = q[i - 1] % Base
  <2> HIDE DEF cells, q
  <2> QED BY <1>2, <1>3, BytePlain
<1>6. digits = [i \in 1..k |-> cells[i].byte]
  <2>1. k - 1 + 1 = k /\ \A i \in 1..k : 1 + i - 1 = i
    OBVIOUS
  <2> HIDE DEF cells
  <2> QED BY <1>4, <2>1 DEF Read
<1>7. digits \in Seq(Int) /\ Len(digits) = k
  <2>1. \A i \in 1..k : cells[i].byte \in Int
    <3> HIDE DEF cells
    <3>1. \A i \in 1..k : cells[i] \in Plain
      BY <1>4
    <3> QED BY <3>1, OfPlain
  <2> HIDE DEF cells, digits
  <2> QED BY <1>6, <2>1
<1>8. DigitsOf(digits, t, Base)
  <2> HIDE DEF cells, digits, q
  <2> QED BY <1>5, <1>6, <1>7 DEF DigitsOf, q
<1>9. q[k] = IF Last(cells).byte >= Half THEN -1 ELSE 0
  <2>1. q[k - 1] \in -Half..(Half - 1)
    BY DEF Fits
  <2>2. q[k] = q[k - 1] \div Base
    <3>1. k \in 1..k
      OBVIOUS
    <3> QED BY <1>q, <3>1
  <2>3. Last(cells).byte = q[k - 1] % Base
    <3>1. k \in 1..k
      OBVIOUS
    <3> HIDE DEF cells, q
    <3> QED BY <1>4, <1>5, <3>1 DEF Last
  <2>4. q[k - 1] \div Base = IF q[k - 1] % Base >= Half THEN -1 ELSE 0
    <3> HIDE DEF q
    <3> QED BY <2>1, SignOf, Zenon
  <2> HIDE DEF q, cells
  <2> QED BY <2>2, <2>3, <2>4
<1>10. Number(digits, Base, q[k]) = t
  <2>1. Base \in Nat /\ Base > 0
    BY Sizes
  <2> HIDE DEF digits, cells
  <2> QED BY <1>7, <1>8, <2>1, DigitsRead
<1>11. Time(cells) = t
  <2> HIDE DEF cells, q
  <2> QED BY <1>9, <1>10 DEF Time
<1> QED BY <1>4, <1>11

LEMMA DivisionAtLeast ==
    ASSUME NEW y \in Nat, NEW b \in Nat, b > 0, NEW c \in Nat
    PROVE  y \div b \in Nat /\ (y \div b >= c <=> y >= c * b)
<1> DEFINE d == y \div b
           r == y % b
<1>1. y = b * d + r /\ d \in Int /\ r \in 0..(b - 1)
  BY Division
<1> HIDE DEF d, r
<1>2. d \in Nat
  <2>1. ~(d <= -1)
    BY <1>1
  <2> QED BY <1>1, <2>1
<1>3. CASE d >= c
  <2>1. b * d >= c * b
    BY <1>2, <1>3
  <2> QED BY <1>1, <1>2, <1>3, <2>1 DEF d
<1>4. CASE ~(d >= c)
  <2>1. d + 1 <= c
    BY <1>2, <1>4
  <2>2. b * (d + 1) <= c * b
    BY <1>2, <2>1
  <2>3. b * (d + 1) = b * d + b
    BY <1>2
  <2>4. y < c * b
    BY <1>1, <1>2, <2>2, <2>3
  <2> QED BY <1>2, <1>4, <2>4 DEF d
<1> QED BY <1>3, <1>4

Above(x, v, k) == x \in Nat /\ \A c \in Nat : x >= c <=> v >= c * Power(Half, k)

LEMMA QuotientsAbove ==
    ASSUME NEW v \in Nat, NEW m \in Nat
    PROVE  \A i \in 0..m : Above(Quotients(v, Half, m)[i], v, i)
<1> DEFINE q == Quotients(v, Half, m)
           T == {k \in Nat : k <= m => Above(q[k], v, k)}
<1>0. Half \in Nat /\ Half > 0 /\ v \in Int
  BY Sizes
<1>1. q[0] = v
  BY <1>0, QuotientsDef, Zenon
<1>q. \A i \in 1..m : q[i] = q[i - 1] \div Half
  BY <1>0, QuotientsDef, Zenon
<1>2. 0 \in T
  <2>1. Power(Half, 0) = 1
    BY <1>0, PowerDef
  <2>2. \A c \in Nat : c * Power(Half, 0) = c
    BY <2>1
  <2> HIDE DEF q
  <2> QED BY <1>1, <2>2 DEF Above
<1>3. ASSUME NEW k \in Nat, k \in T PROVE k + 1 \in T
  <2>1. SUFFICES ASSUME k + 1 <= m PROVE Above(q[k + 1], v, k + 1)
    OBVIOUS
  <2>2. k + 1 \in 1..m /\ (k + 1) - 1 = k /\ Above(q[k], v, k)
    BY <1>3, <2>1
  <2> DEFINE x == q[k]
             y == q[k + 1]
             b == Power(Half, k)
  <2>3. y = x \div Half
    <3> HIDE DEF q
    <3> QED BY <1>q, <2>2, Zenon
  <2>4. x \in Nat /\ b \in Nat /\ Power(Half, k + 1) = Half * b
    <3>1. x \in Nat
      BY <2>2 DEF Above
    <3> QED BY <1>0, <3>1, PowerDef
  <2>5. y \in Nat
    <3> HIDE DEF x, y
    <3> QED BY <1>0, <2>3, <2>4, DivisionAtLeast, Zenon
  <2>6. ASSUME NEW c \in Nat PROVE y >= c <=> v >= c * Power(Half, k + 1)
    <3>1. y >= c <=> x >= c * Half
      <4> HIDE DEF x, y
      <4> QED BY <1>0, <2>3, <2>4, DivisionAtLeast, Zenon
    <3>2. c * Half \in Nat
      BY <1>0
    <3>3. x >= c * Half <=> v >= (c * Half) * b
      <4> HIDE DEF b
      <4> QED BY <2>2, <3>2 DEF Above, b
    <3>4. (c * Half) * b = c * (Half * b)
      <4> HIDE DEF b
      <4> QED BY <1>0, <2>4
    <3> HIDE DEF x, y, b
    <3> QED BY <2>4, <3>1, <3>3, <3>4
  <2> QED BY <2>5, <2>6 DEF Above
<1>4. \A k \in Nat : k >= 0 => k \in T
  <2> HIDE DEF T
  <2> QED BY <1>2, <1>3, AllFrom
<1> QED BY <1>4

LEMMA SmallMod ==
    ASSUME NEW b \in Nat, b > 0, NEW r \in 0..(b - 1)
    PROVE  r % b = r /\ (b + r) % b = r
<1>1. r = b * (r \div b) + (r % b) /\ r \div b \in Int /\ r % b \in 0..(b - 1)
  BY Division
<1>2. b + r = b * ((b + r) \div b) + ((b + r) % b) /\ (b + r) \div b \in Int /\ (b + r) % b \in 0..(b - 1)
  BY Division
<1> DEFINE d == r \div b
           e == (b + r) \div b
           x == r % b
           y == (b + r) % b
<1> HIDE DEF d, e, x, y
<1>3. r = b * d + x /\ d \in Int /\ x \in 0..(b - 1)
  BY <1>1 DEF d, x
<1>4. b + r = b * e + y /\ e \in Int /\ y \in 0..(b - 1)
  BY <1>2 DEF e, y
<1>5. ~(d >= 1) /\ ~(d <= -1)
  BY <1>3
<1>6. d = 0 /\ x = r
  BY <1>3, <1>5
<1>7. ~(e >= 2) /\ ~(e <= 0)
  BY <1>4
<1>8. e = 1 /\ y = r
  BY <1>4, <1>7
<1> QED BY <1>6, <1>8 DEF x, y

Q(v) == Quotients(v, Half, MaxVarintLen)

Varint(v, m) ==
    /\ m \in 1..MaxVarintLen /\ m # MaxVarintLen
    /\ uvarintSize(v) = m
    /\ PutUvarint(v) = [i \in 1..m |-> Byte(IF i < m THEN Half + (Q(v)[i - 1] % Half)
                                            ELSE Q(v)[i - 1])]
    /\ Q(v)[m] = 0
    /\ \A i \in 0..m : Q(v)[i] \in Nat
    /\ Q(v)[m - 1] \in 0..(Half - 1)

LEMMA VarintSize ==
    ASSUME NEW v \in 0..MaxInt
    PROVE  Varint(v, uvarintSize(v))
<1> DEFINE q == Q(v)
           Z == {i \in 1..MaxVarintLen : q[i] = 0}
           m == Min(Z)
<1>0. /\ MaxVarintLen \in Nat /\ MaxVarintLen >= 2 /\ Half \in Nat /\ Half > 0
      /\ v \in Nat /\ v \in Int
  BY CodecConstants, Sizes
<1>1. \A i \in 0..MaxVarintLen : Above(q[i], v, i)
  <2> QED BY <1>0, QuotientsAbove, Zenon DEF Q
<1>q. \A i \in 1..MaxVarintLen : q[i] = q[i - 1] \div Half
  BY <1>0, QuotientsDef, Zenon DEF Q
<1>2. \A i \in 0..MaxVarintLen : q[i] \in Nat /\ (q[i] >= 1 <=> v >= Power(Half, i))
  <2>1. ASSUME NEW i \in 0..MaxVarintLen PROVE q[i] \in Nat /\ (q[i] >= 1 <=> v >= Power(Half, i))
    <3>1. 1 * Power(Half, i) = Power(Half, i)
      BY <1>0, PowerDef
    <3> HIDE DEF q
    <3> QED BY <1>1, <3>1 DEF Above
  <2> QED BY <2>1
<1>3. MaxVarintLen - 1 \in Z
  <2>1. v < Power(Half, MaxVarintLen - 1) /\ Power(Half, MaxVarintLen - 1) \in Nat
    BY <1>0, PowerDef DEF MaxInt
  <2>2. MaxVarintLen - 1 \in 0..MaxVarintLen /\ MaxVarintLen - 1 \in 1..MaxVarintLen
    BY <1>0
  <2>3. ~(q[MaxVarintLen - 1] >= 1) /\ q[MaxVarintLen - 1] \in Nat
    BY <1>2, <2>1, <2>2
  <2> HIDE DEF q
  <2> QED BY <2>2, <2>3
<1>4. m \in Z /\ \A i \in Z : m <= i
  <2>1. Z \in SUBSET Nat
    BY <1>0
  <2> HIDE DEF Z
  <2> QED BY <1>3, <2>1, MinIn
<1>5. m \in Nat /\ m >= 1 /\ m <= MaxVarintLen - 1 /\ q[m] = 0
  <2> HIDE DEF q, m
  <2> QED BY <1>0, <1>3, <1>4
<1> HIDE DEF m
<1>6. \A i \in m..MaxVarintLen : q[i] = 0
  <2> DEFINE T == {k \in Nat : k <= MaxVarintLen => q[k] = 0}
  <2>1. m \in T
    BY <1>5
  <2>2. ASSUME NEW k \in Nat, k >= m, k \in T PROVE k + 1 \in T
    <3>1. SUFFICES ASSUME k + 1 <= MaxVarintLen PROVE q[k + 1] = 0
      OBVIOUS
    <3>2. k + 1 \in 1..MaxVarintLen /\ (k + 1) - 1 = k /\ q[k] = 0 /\ 0 \in 0..(Half - 1)
      BY <1>0, <2>2, <3>1
    <3>3. q[k + 1] = 0 \div Half
      <4> HIDE DEF q
      <4> QED BY <1>q, <3>2, Zenon
    <3>4. 0 \div Half \in Nat /\ ~(0 \div Half >= 1)
      BY <1>0, DivisionAtLeast
    <3> HIDE DEF q
    <3> QED BY <3>3, <3>4
  <2>3. \A k \in Nat : k >= m => k \in T
    <3> HIDE DEF T
    <3> QED BY <1>5, <2>1, <2>2, AllFrom
  <2> QED BY <1>0, <1>5, <2>3
<1>7. {i \in 1..(MaxVarintLen - 1) : v >= Power(Half, i)} = 1..(m - 1)
  <2>1. ASSUME NEW i \in 1..(MaxVarintLen - 1) PROVE v >= Power(Half, i) <=> i \in 1..(m - 1)
    <3>1. i \in 0..MaxVarintLen /\ i \in 1..MaxVarintLen /\ (i \in m..MaxVarintLen <=> i \notin 1..(m - 1))
      BY <1>0, <1>5
    <3>2. q[i] = 0 => i \notin 1..(m - 1)
      <4> HIDE DEF q
      <4> QED BY <1>4, <1>5, <3>1
    <3> HIDE DEF q
    <3> QED BY <1>2, <1>6, <3>1, <3>2
  <2> HIDE DEF q
  <2> QED BY <1>0, <1>5, <2>1
<1>8. uvarintSize(v) = m
  <2>1. Cardinality(1..(m - 1)) = m - 1
    BY <1>5, FS_Interval
  <2>2. uvarintSize(v) = 1 + Cardinality({i \in 1..(MaxVarintLen - 1) : v >= Power(Half, i)})
    BY DEF uvarintSize
  <2>3. uvarintSize(v) = 1 + Cardinality(1..(m - 1))
    BY <1>7, <2>2, Zenon
  <2> QED BY <1>5, <2>1, <2>3
<1>9. q[m - 1] \in 0..(Half - 1)
  <2>1. m - 1 \in 0..MaxVarintLen /\ m \in 1..MaxVarintLen /\ q[m - 1] \in Nat
    <3>1. m - 1 \in 0..MaxVarintLen /\ m \in 1..MaxVarintLen
      BY <1>0, <1>5
    <3> HIDE DEF q
    <3> QED BY <1>2, <3>1
  <2>2. q[m - 1] \div Half = 0
    <3> HIDE DEF q
    <3> QED BY <1>q, <1>5, <2>1, Zenon
  <2>3. ~(q[m - 1] >= 1 * Half)
    <3> HIDE DEF q
    <3> QED BY <1>0, <2>1, <2>2, DivisionAtLeast
  <2> HIDE DEF q
  <2> QED BY <1>0, <2>1, <2>3
<1>10. PutUvarint(v) = [i \in 1..m |-> Byte(IF i < m THEN Half + (q[i - 1] % Half) ELSE q[i - 1])]
  BY DEF PutUvarint, m, Q
<1>11. \A i \in 0..m : q[i] \in Nat
  <2> HIDE DEF q
  <2> QED BY <1>0, <1>2, <1>5
<1> QED BY <1>0, <1>5, <1>8, <1>9, <1>10, <1>11 DEF Varint

LEMMA PutUvarintShape ==
    ASSUME NEW v \in 0..MaxInt, NEW m, m = uvarintSize(v)
    PROVE  /\ m \in 1..MaxVarintLen /\ m # MaxVarintLen /\ m \in Nat
           /\ PutUvarint(v) \in Seq(Plain) /\ Len(PutUvarint(v)) = m
           /\ \A i \in 1..m : /\ i < m <=> PutUvarint(v)[i].byte >= Half
                              /\ PutUvarint(v)[i].byte % Half = Q(v)[i - 1] % Half
<1> DEFINE s == PutUvarint(v)
           byte(i) == IF i < m THEN Half + (Q(v)[i - 1] % Half) ELSE Q(v)[i - 1]
<1>0. MaxVarintLen \in Nat /\ MaxVarintLen >= 2
  BY CodecConstants
<1>1. /\ m \in 1..MaxVarintLen /\ m # MaxVarintLen
      /\ s = [i \in 1..m |-> Byte(byte(i))]
      /\ \A i \in 0..m : Q(v)[i] \in Nat
      /\ Q(v)[m - 1] \in 0..(Half - 1)
  <2> HIDE DEF s, byte
  <2> QED BY VarintSize DEF Varint, s, byte
<1>2. m \in Nat
  BY <1>0, <1>1
<1>3. ASSUME NEW i \in 1..m
      PROVE  /\ byte(i) \in Bytes /\ (i < m <=> byte(i) >= Half)
             /\ byte(i) % Half = Q(v)[i - 1] % Half
  <2> DEFINE x == Q(v)[i - 1]
  <2>1. x \in Nat /\ x \in Int /\ Half \in Nat /\ Half > 0
    <3>1. i - 1 \in 0..m
      BY <1>2
    <3> QED BY <1>1, <3>1, Sizes
  <2>2. x % Half \in 0..(Half - 1)
    <3> HIDE DEF x
    <3> QED BY <2>1, Division
  <2>3. CASE i < m
    <3>1. (Half + (x % Half)) % Half = x % Half
      <4> DEFINE r == x % Half
      <4> HIDE DEF r, x
      <4> QED BY <2>1, <2>2, SmallMod DEF r
    <3> DEFINE r == x % Half
    <3>2. byte(i) = Half + r
      BY <2>3
    <3>3. byte(i) \in Bytes /\ byte(i) >= Half
      <4> HIDE DEF r, x, byte
      <4> QED BY <2>1, <2>2, <3>2, Sizes DEF Bytes, r
    <3> QED BY <2>3, <3>1, <3>3
  <2>4. CASE ~(i < m)
    <3>1. i = m
      BY <1>2, <2>4
    <3>2. byte(i) = x /\ x \in 0..(Half - 1)
      BY <1>1, <3>1
    <3> QED BY <2>1, <2>4, <3>2, Sizes DEF Bytes
  <2> QED BY <2>3, <2>4
<1>4. s \in Seq(Plain) /\ Len(s) = m
  <2>1. \A i \in 1..m : Byte(byte(i)) \in Plain
    BY <1>3, BytePlain
  <2> HIDE DEF s, byte
  <2> QED BY <1>1, <1>2, <2>1
<1>5. ASSUME NEW i \in 1..m PROVE s[i].byte = byte(i)
  <2> HIDE DEF s, byte
  <2> QED BY <1>1, <1>3, BytePlain
<1> HIDE DEF s, byte
<1>6. \A i \in 1..m : (i < m <=> s[i].byte >= Half) /\ s[i].byte % Half = Q(v)[i - 1] % Half
  BY <1>3, <1>5
<1> QED BY <1>1, <1>2, <1>4, <1>6 DEF s

\* A number is read as it was written, whatever follows it.
StartsWith(cells, s) == Len(s) <= Len(cells) /\ \A i \in 1..Len(s) : cells[i] = s[i]

LEMMA UvarintRead ==
    ASSUME NEW v \in 0..MaxInt, NEW cells, Len(cells) \in Nat, StartsWith(cells, PutUvarint(v))
    PROVE  Uvarint(cells) = [val |-> v, n |-> uvarintSize(v)]
<1> DEFINE m == uvarintSize(v)
           last == {i \in 1..MaxVarintLen : i <= Len(cells) /\ cells[i].byte < Half}
           digits == [i \in 1..m |-> cells[i].byte % Half]
<1>0. /\ MaxVarintLen \in Nat /\ v \in Int /\ v \in Nat /\ Half \in Nat /\ Half > 0 /\ 0 \in Nat
  BY CodecConstants, Sizes
<1>1. /\ m \in 1..MaxVarintLen /\ m # MaxVarintLen /\ m \in Nat
      /\ Len(PutUvarint(v)) = m /\ PutUvarint(v) \in Seq(Plain)
      /\ \A i \in 1..m : /\ i < m <=> PutUvarint(v)[i].byte >= Half
                         /\ PutUvarint(v)[i].byte % Half = Q(v)[i - 1] % Half
  BY PutUvarintShape, Zenon
<1> HIDE DEF m
<1>2. m <= Len(cells) /\ \A i \in 1..m : cells[i] = PutUvarint(v)[i]
  BY <1>1 DEF StartsWith
<1>3. \A i \in 1..m : cells[i].byte \in Nat
  <2>1. \A i \in 1..m : cells[i] \in Plain
    BY <1>1, <1>2
  <2> QED BY <2>1, OfPlain
<1>4. \A i \in 1..m : i < m <=> ~(cells[i].byte < Half)
  BY <1>0, <1>1, <1>2, <1>3
<1>5. Min(last) = m /\ last # {}
  <2>1. last \in SUBSET Nat /\ m \in last
    BY <1>0, <1>1, <1>2, <1>4
  <2>2. ASSUME NEW y \in last PROVE m <= y
    <3>1. y \in 1..MaxVarintLen /\ cells[y].byte < Half
      OBVIOUS
    <3>2. CASE y < m
      <4>1. y \in 1..m
        BY <1>0, <1>1, <3>1, <3>2
      <4> QED BY <1>4, <3>1, <3>2, <4>1
    <3> QED BY <1>0, <1>1, <3>1, <3>2
  <2> HIDE DEF last
  <2> QED BY <2>1, <2>2, MinIs
<1>6. \A i \in 1..m : digits[i] = Q(v)[i - 1] % Half
  BY <1>1, <1>2
<1>7. digits \in Seq(Int) /\ Len(digits) = m
  <2>1. ASSUME NEW i \in 1..m PROVE cells[i].byte % Half \in Int
    BY <1>0, <1>3, Division
  <2> QED BY <1>1, <2>1
<1>8. \A i \in 0..m : Quotients(v, Half, m)[i] = Q(v)[i]
  <2>1. /\ Iterates(Quotients(v, Half, m), Int, QuotientStep(Half), v, 0, m)
        /\ Iterates(Q(v), Int, QuotientStep(Half), v, 0, MaxVarintLen)
    BY <1>0, <1>1, QuotientsIterate, Zenon DEF Q
  <2>2. m <= MaxVarintLen
    BY <1>0, <1>1
  <2> QED BY <1>0, <1>1, <2>1, <2>2, SolutionsAgree
<1>9. DigitsOf(digits, v, Half) /\ Quotients(v, Half, m)[m] = 0
  <2>1. \A i \in 1..m : i - 1 \in 0..m
    BY <1>1
  <2>2. m \in 0..m /\ Q(v)[m] = 0
    BY <1>1, VarintSize DEF Varint, m
  <2> HIDE DEF digits
  <2> QED BY <1>6, <1>7, <1>8, <2>1, <2>2, Zenon DEF DigitsOf
<1>10. Number(digits, Half, 0) = v
  <2> HIDE DEF digits
  <2> QED BY <1>0, <1>7, <1>9, DigitsRead
<1> HIDE DEF last
<1>11. Uvarint(cells) = IF last = {} \/ (Min(last) = MaxVarintLen /\ cells[Min(last)].byte > 1)
                        THEN [val |-> 0, n |-> 0]
                        ELSE [val |-> Number([i \in 1..Min(last) |-> cells[i].byte % Half], Half, 0),
                              n |-> Min(last)]
  BY DEF Uvarint, last
<1> QED BY <1>1, <1>5, <1>10, <1>11, Zenon DEF m

\* A number whose end is missing is not read.
LEMMA UvarintCut ==
    ASSUME NEW v \in 0..MaxInt, NEW cells, Len(cells) \in Nat, Len(cells) < Len(PutUvarint(v)),
           StartsWith(PutUvarint(v), cells)
    PROVE  Uvarint(cells).n = 0
<1> DEFINE m == uvarintSize(v)
           last == {i \in 1..MaxVarintLen : i <= Len(cells) /\ cells[i].byte < Half}
<1>0. MaxVarintLen \in Nat /\ Half \in Nat
  BY CodecConstants, Sizes
<1>1. /\ m \in Nat /\ Len(PutUvarint(v)) = m /\ PutUvarint(v) \in Seq(Plain)
      /\ \A i \in 1..m : i < m <=> PutUvarint(v)[i].byte >= Half
  BY PutUvarintShape, Zenon
<1> HIDE DEF m
<1>2. ASSUME NEW i \in last PROVE FALSE
  <2>1. i \in 1..m /\ i < m /\ cells[i] = PutUvarint(v)[i] /\ cells[i].byte < Half
    BY <1>0, <1>1 DEF StartsWith
  <2>2. PutUvarint(v)[i].byte \in Nat
    <3>1. PutUvarint(v)[i] \in Plain
      BY <1>1, <2>1
    <3> QED BY <3>1, OfPlain
  <2> QED BY <1>0, <1>1, <2>1, <2>2
<1>3. last = {}
  BY <1>2
<1> QED BY <1>3 DEF Uvarint

-----------------------------------------------------------------------------
(* Where a part of a sequence lies *)

\* part lies in whole behind the first k elements.
At(whole, k, x) ==
    k + Len(x) <= Len(whole) /\ \A i \in 1..Len(x) : whole[k + i] = x[i]

LEMMA Concatenated ==
    ASSUME NEW S, NEW s \in Seq(S), NEW t \in Seq(S)
    PROVE  /\ s \o t \in Seq(S) /\ Len(s \o t) = Len(s) + Len(t)
           /\ At(s \o t, 0, s) /\ At(s \o t, Len(s), t)
BY DEF At

LEMMA AtPrefix ==
    ASSUME NEW S, NEW s \in Seq(S), NEW t \in Seq(S), NEW x \in Seq(S), NEW k \in Nat, At(s, k, x)
    PROVE  At(s \o t, k, x)
<1>1. /\ Len(s \o t) = Len(s) + Len(t) /\ Len(s) \in Nat /\ Len(t) \in Nat /\ Len(x) \in Nat
      /\ \A i \in 1..Len(s) : (s \o t)[i] = s[i]
  OBVIOUS
<1>2. \A i \in 1..Len(x) : k + i \in 1..Len(s)
  BY <1>1 DEF At
<1> QED BY <1>1, <1>2 DEF At

LEMMA AtIn ==
    ASSUME NEW s, NEW t, NEW x, Len(s) \in Nat, Len(t) \in Nat, Len(x) \in Nat,
           NEW k \in Nat, NEW j \in Nat, At(s, k, t), At(t, j, x)
    PROVE  At(s, k + j, x)
<1>1. ASSUME NEW i \in 1..Len(x) PROVE s[k + j + i] = x[i]
  <2>1. j + i \in 1..Len(t) /\ k + j + i = k + (j + i)
    BY DEF At
  <2> QED BY <2>1 DEF At
<1> QED BY <1>1 DEF At

LEMMA AtTail ==
    ASSUME NEW S, NEW s \in Seq(S), NEW x, Len(x) \in Nat, NEW k \in Nat, NEW j \in 0..k, At(s, k, x)
    PROVE  At(SubSeq(s, j + 1, Len(s)), k - j, x)
<1>1. k <= Len(s) /\ Len(s) \in Nat
  BY DEF At
<1>2. /\ Len(SubSeq(s, j + 1, Len(s))) = Len(s) - j
      /\ \A i \in 1..(Len(s) - j) : SubSeq(s, j + 1, Len(s))[i] = s[j + i]
  BY <1>1
<1>3. \A i \in 1..Len(x) : k - j + i \in 1..(Len(s) - j) /\ j + (k - j + i) = k + i
  BY <1>1 DEF At
<1> QED BY <1>1, <1>2, <1>3 DEF At

LEMMA AtCut ==
    ASSUME NEW S, NEW s \in Seq(S), NEW x \in Seq(S), NEW k \in Nat, At(s, k, x)
    PROVE  SubSeq(s, k + 1, k + Len(x)) = x
<1>1. /\ Len(x) \in Nat /\ Len(s) \in Nat /\ k + Len(x) <= Len(s)
      /\ \A i \in 1..Len(x) : s[k + i] = x[i]
  BY DEF At
<1>2. /\ SubSeq(s, k + 1, k + Len(x)) = [i \in 1..Len(x) |-> s[k + i]]
  <2>1. (k + Len(x)) - (k + 1) + 1 = Len(x) /\ \A i \in 1..Len(x) : (k + 1) + i - 1 = k + i
    BY <1>1
  <2> QED BY <1>1, <2>1
<1>3. x = [i \in 1..Len(x) |-> x[i]]
  OBVIOUS
<1> QED BY <1>1, <1>2, <1>3

-----------------------------------------------------------------------------
(* Records in a segment *)

Cells == [byte : Bytes, of : Seq(Plain)]

LEMMA PlainIsCell == Plain \subseteq Cells /\ Seq(Plain) \subseteq Seq(Cells)
<1>1. << >> \in Seq(Plain)
  OBVIOUS
<1>2. Plain \subseteq Cells
  BY <1>1 DEF Plain, Cells
<1> QED BY <1>2

LEMMA OfCell ==
    ASSUME NEW c \in Cells
    PROVE  c.byte \in Bytes /\ c.byte \in Int /\ c.of \in Seq(Plain)
<1>1. c.byte \in Bytes /\ c.of \in Seq(Plain)
  BY DEF Cells
<1> QED BY <1>1, Sizes DEF Bytes

LEMMA Wrapping ==
    /\ MaxInt \in Nat /\ HeadLen \in Nat /\ HeadLen >= 3 /\ TimeBytes \in Nat /\ TimeBytes > 0
    /\ HeadLen = 1 + 2 * TimeBytes
    /\ \A x \in 0..MaxInt : Wrap(x) = x
<1>1. HeadLen \in Nat /\ HeadLen >= 3 /\ TimeBytes \in Nat /\ TimeBytes > 0 /\ HeadLen = 1 + 2 * TimeBytes
  BY CodecConstants DEF HeadLen
<1>2. \A k \in Nat : Power(Half, k) \in Nat /\ Power(Half, k) >= 1
  <2> DEFINE T == {k \in Nat : Power(Half, k) >= 1}
  <2>0. Half \in Nat /\ Half >= 2 /\ \A k \in Nat : Power(Half, k) \in Nat
    BY Sizes, PowerDef
  <2>1. 0 \in T
    BY <2>0, PowerDef
  <2>2. ASSUME NEW k \in Nat, k \in T PROVE k + 1 \in T
    <3>1. Power(Half, k + 1) = Half * Power(Half, k)
      BY <2>0, PowerDef
    <3> DEFINE x == Power(Half, k)
    <3>2. x \in Nat /\ x >= 1
      BY <2>0, <2>2
    <3>3. Half * x >= 1
      <4> HIDE DEF x
      <4> QED BY <2>0, <3>2
    <3> QED BY <3>1, <3>3
  <2>3. \A k \in Nat : k >= 0 => k \in T
    <3> HIDE DEF T
    <3> QED BY <2>1, <2>2, AllFrom
  <2> QED BY <2>0, <2>3
<1>3. MaxInt \in Nat
  <2>1. MaxVarintLen - 1 \in Nat
    BY CodecConstants
  <2> QED BY <1>2, <2>1 DEF MaxInt
<1>4. ASSUME NEW x \in 0..MaxInt PROVE Wrap(x) = x
  <2> DEFINE b == 2 * MaxInt + 2
             y == x + MaxInt + 1
  <2>1. b \in Nat /\ b > 0 /\ y \in 0..(b - 1)
    BY <1>3
  <2>2. y % b = y
    <3> HIDE DEF b, y
    <3> QED BY <2>1, SmallMod
  <2> QED BY <1>3, <2>2 DEF Wrap
<1> QED BY <1>1, <1>3, <1>4

LEMMA OfRecord ==
    ASSUME NEW r \in Records
    PROVE  /\ r.type \in Bytes /\ r.ts \in Int /\ r.exp \in Int
           /\ r.key \in Seq(Bytes) /\ r.val \in Seq(Bytes)
           /\ Fits(r.ts, TimeBytes) /\ Fits(r.exp, TimeBytes)
           /\ r = [type |-> r.type, ts |-> r.ts, exp |-> r.exp, key |-> r.key, val |-> r.val]
           /\ uvarintSize(payloadLen(r)) + payloadLen(r) <= MaxInt
BY DEF Records

\* The varint of a length, and the size it is reckoned with.
SizeIs(k) ==
    /\ uvarintSize(k) \in Nat /\ uvarintSize(k) >= 1 /\ uvarintSize(k) <= MaxVarintLen
    /\ PutUvarint(k) \in Seq(Plain)
    /\ Len(PutUvarint(k)) = uvarintSize(k)

LEMMA LengthsFit ==
    ASSUME NEW r \in Records
    PROVE  /\ Len(r.key) \in 0..MaxInt /\ Len(r.val) \in 0..MaxInt /\ payloadLen(r) \in 0..MaxInt
           /\ SizeIs(Len(r.key)) /\ SizeIs(Len(r.val)) /\ SizeIs(payloadLen(r))
<1> DEFINE k == Len(r.key)
           v == Len(r.val)
           Z(x) == uvarintSize(x) \in Int /\ uvarintSize(x) >= 1
<1>0. k \in Nat /\ v \in Nat
  BY OfRecord
<1>1. \A x \in Nat : uvarintSize(x) \in Int /\ uvarintSize(x) >= 1
  <2>1. \A x \in Nat : IsFiniteSet({i \in 1..(MaxVarintLen - 1) : x >= Power(Half, i)})
    <3>1. IsFiniteSet(1..(MaxVarintLen - 1))
      BY CodecConstants, FS_Interval
    <3>2. \A x \in Nat : {i \in 1..(MaxVarintLen - 1) : x >= Power(Half, i)} \subseteq 1..(MaxVarintLen - 1)
      OBVIOUS
    <3> QED BY <3>1, <3>2, FS_Subset
  <2>2. \A x \in Nat : Cardinality({i \in 1..(MaxVarintLen - 1) : x >= Power(Half, i)}) \in Nat
    BY <2>1, FS_CardinalityType
  <2> QED BY <2>2 DEF uvarintSize
<1>2. payloadLen(r) = HeadLen + uvarintSize(k) + uvarintSize(v) + k + v + 1
  BY DEF payloadLen
<1> HIDE DEF k, v
<1>3. payloadLen(r) \in Nat /\ payloadLen(r) > k /\ payloadLen(r) > v
  BY <1>0, <1>1, <1>2, Wrapping
<1>4. k \in 0..MaxInt /\ v \in 0..MaxInt /\ payloadLen(r) \in 0..MaxInt
  <2>1. uvarintSize(payloadLen(r)) \in Int /\ uvarintSize(payloadLen(r)) >= 1
    BY <1>1, <1>3
  <2>2. uvarintSize(payloadLen(r)) + payloadLen(r) <= MaxInt
    BY OfRecord
  <2> QED BY <1>0, <1>3, <2>1, <2>2, Wrapping
<1>5. \A x \in 0..MaxInt : SizeIs(x)
  BY PutUvarintShape DEF SizeIs
<1> QED BY <1>4, <1>5 DEF k, v

\* The parts of a record.
Layout(whole, r) ==
    LET a == uvarintSize(Len(r.key))
        b == uvarintSize(Len(r.val))
    IN  /\ At(whole, 0, <<Byte(r.type)>>)
        /\ At(whole, 1, PutTime(r.ts, TimeBytes))
        /\ At(whole, 1 + TimeBytes, PutTime(r.exp, TimeBytes))
        /\ At(whole, HeadLen, PutUvarint(Len(r.key)))
        /\ At(whole, HeadLen + a, PutUvarint(Len(r.val)))
        /\ At(whole, HeadLen + a + b, Word(r.key))
        /\ At(whole, HeadLen + a + b + Len(r.key), Word(r.val))

LEMMA ContentLayout ==
    ASSUME NEW r \in Records
    PROVE  /\ Content(r) \in Seq(Plain) /\ Len(Content(r)) = payloadLen(r) - 1
           /\ Len(Content(r)) \in Nat /\ Len(Content(r)) > HeadLen
           /\ Layout(Content(r), r)
<1> DEFINE s1 == <<Byte(r.type)>>
           s2 == PutTime(r.ts, TimeBytes)
           s3 == PutTime(r.exp, TimeBytes)
           s4 == PutUvarint(Len(r.key))
           s5 == PutUvarint(Len(r.val))
           s6 == Word(r.key)
           s7 == Word(r.val)
           a == uvarintSize(Len(r.key))
           b == uvarintSize(Len(r.val))
           t2 == s1 \o s2
           t3 == t2 \o s3
           t4 == t3 \o s4
           t5 == t4 \o s5
           t6 == t5 \o s6
           t7 == t6 \o s7
<1>1. /\ s1 \in Seq(Plain) /\ Len(s1) = 1
      /\ s2 \in Seq(Plain) /\ Len(s2) = TimeBytes
      /\ s3 \in Seq(Plain) /\ Len(s3) = TimeBytes
  <2>1. Byte(r.type) \in Plain
    BY OfRecord, BytePlain
  <2>2. TimeBytes \in Nat \ {0}
    BY Wrapping
  <2>3. /\ s2 \in Seq(Plain) /\ Len(s2) = TimeBytes
        /\ s3 \in Seq(Plain) /\ Len(s3) = TimeBytes
    BY <2>2, OfRecord, TimeRead, Zenon
  <2>4. s1 \in Seq(Plain) /\ Len(s1) = 1
    BY <2>1
  <2> QED BY <2>3, <2>4
<1>2. /\ s4 \in Seq(Plain) /\ Len(s4) = a /\ a \in Nat /\ a >= 1
      /\ s5 \in Seq(Plain) /\ Len(s5) = b /\ b \in Nat /\ b >= 1
  BY LengthsFit DEF SizeIs
<1>3. /\ s6 \in Seq(Plain) /\ Len(s6) = Len(r.key) /\ Len(r.key) \in Nat
      /\ s7 \in Seq(Plain) /\ Len(s7) = Len(r.val) /\ Len(r.val) \in Nat
  BY OfRecord, WordPlain
<1>4. Content(r) = t7
  BY DEF Content
<1> HIDE DEF s1, s2, s3, s4, s5, s6, s7, a, b
<1>5. /\ t2 \in Seq(Plain) /\ Len(t2) = 1 + TimeBytes /\ At(t2, 0, s1) /\ At(t2, 1, s2)
  <2>1. t2 \in Seq(Plain) /\ Len(t2) = Len(s1) + Len(s2) /\ At(t2, 0, s1) /\ At(t2, Len(s1), s2)
    BY <1>1, Concatenated
  <2> HIDE DEF t2
  <2> QED BY <1>1, <2>1
<1> HIDE DEF t2
<1>6. /\ t3 \in Seq(Plain) /\ Len(t3) = HeadLen
      /\ At(t3, 0, s1) /\ At(t3, 1, s2) /\ At(t3, 1 + TimeBytes, s3)
  <2>1. t3 \in Seq(Plain) /\ Len(t3) = Len(t2) + Len(s3) /\ At(t3, Len(t2), s3)
    BY <1>1, <1>5, Concatenated
  <2>2. At(t3, 0, s1) /\ At(t3, 1, s2)
    BY <1>1, <1>5, AtPrefix
  <2> HIDE DEF t3
  <2> QED BY <1>1, <1>5, <2>1, <2>2, Wrapping
<1> HIDE DEF t3
<1>7. /\ t4 \in Seq(Plain) /\ Len(t4) = HeadLen + a
      /\ At(t4, 0, s1) /\ At(t4, 1, s2) /\ At(t4, 1 + TimeBytes, s3) /\ At(t4, HeadLen, s4)
  <2>1. t4 \in Seq(Plain) /\ Len(t4) = Len(t3) + Len(s4) /\ At(t4, Len(t3), s4)
    BY <1>2, <1>6, Concatenated
  <2>2. 1 + TimeBytes \in Nat
    BY Wrapping
  <2>3. At(t4, 0, s1) /\ At(t4, 1, s2) /\ At(t4, 1 + TimeBytes, s3)
    BY <1>1, <1>2, <1>6, <2>2, AtPrefix
  <2> HIDE DEF t4
  <2> QED BY <1>2, <1>6, <2>1, <2>3
<1> HIDE DEF t4
<1>8. /\ t5 \in Seq(Plain) /\ Len(t5) = HeadLen + a + b
      /\ At(t5, 0, s1) /\ At(t5, 1, s2) /\ At(t5, 1 + TimeBytes, s3) /\ At(t5, HeadLen, s4)
      /\ At(t5, HeadLen + a, s5)
  <2>1. t5 \in Seq(Plain) /\ Len(t5) = Len(t4) + Len(s5) /\ At(t5, Len(t4), s5)
    BY <1>2, <1>7, Concatenated
  <2>2. 1 + TimeBytes \in Nat /\ HeadLen \in Nat
    BY Wrapping
  <2>3. At(t5, 0, s1) /\ At(t5, 1, s2) /\ At(t5, 1 + TimeBytes, s3) /\ At(t5, HeadLen, s4)
    BY <1>1, <1>2, <1>7, <2>2, AtPrefix
  <2> HIDE DEF t5
  <2> QED BY <1>2, <1>7, <2>1, <2>3
<1> HIDE DEF t5
<1>9. /\ t6 \in Seq(Plain) /\ Len(t6) = HeadLen + a + b + Len(r.key)
      /\ At(t6, 0, s1) /\ At(t6, 1, s2) /\ At(t6, 1 + TimeBytes, s3) /\ At(t6, HeadLen, s4)
      /\ At(t6, HeadLen + a, s5) /\ At(t6, HeadLen + a + b, s6)
  <2>1. t6 \in Seq(Plain) /\ Len(t6) = Len(t5) + Len(s6) /\ At(t6, Len(t5), s6)
    BY <1>3, <1>8, Concatenated
  <2>2. 1 + TimeBytes \in Nat /\ HeadLen \in Nat /\ HeadLen + a \in Nat
    BY <1>2, Wrapping
  <2>3. /\ At(t6, 0, s1) /\ At(t6, 1, s2) /\ At(t6, 1 + TimeBytes, s3) /\ At(t6, HeadLen, s4)
        /\ At(t6, HeadLen + a, s5)
    BY <1>1, <1>2, <1>3, <1>8, <2>2, AtPrefix
  <2> HIDE DEF t6
  <2> QED BY <1>3, <1>8, <2>1, <2>3
<1> HIDE DEF t6
<1>10. /\ t7 \in Seq(Plain) /\ Len(t7) = HeadLen + a + b + Len(r.key) + Len(r.val)
       /\ At(t7, 0, s1) /\ At(t7, 1, s2) /\ At(t7, 1 + TimeBytes, s3) /\ At(t7, HeadLen, s4)
       /\ At(t7, HeadLen + a, s5) /\ At(t7, HeadLen + a + b, s6)
       /\ At(t7, HeadLen + a + b + Len(r.key), s7)
  <2>1. t7 \in Seq(Plain) /\ Len(t7) = Len(t6) + Len(s7) /\ At(t7, Len(t6), s7)
    BY <1>3, <1>9, Concatenated
  <2>2. 1 + TimeBytes \in Nat /\ HeadLen \in Nat /\ HeadLen + a \in Nat /\ HeadLen + a + b \in Nat
    BY <1>2, Wrapping
  <2>3. /\ At(t7, 0, s1) /\ At(t7, 1, s2) /\ At(t7, 1 + TimeBytes, s3) /\ At(t7, HeadLen, s4)
        /\ At(t7, HeadLen + a, s5) /\ At(t7, HeadLen + a + b, s6)
    BY <1>1, <1>2, <1>3, <1>9, <2>2, AtPrefix
  <2> HIDE DEF t7
  <2> QED BY <1>3, <1>9, <2>1, <2>3
<1> HIDE DEF t7
<1>11. payloadLen(r) = HeadLen + a + b + Len(r.key) + Len(r.val) + 1
  BY DEF payloadLen, a, b
<1>12. Len(t7) = payloadLen(r) - 1 /\ Len(t7) \in Nat /\ Len(t7) > HeadLen
  <2>1. Len(t7) = HeadLen + a + b + Len(r.key) + Len(r.val)
    BY <1>10
  <2>2. HeadLen \in Nat
    BY Wrapping
  <2>3. a \in Nat /\ a >= 1 /\ b \in Nat
    BY <1>2
  <2>4. Len(r.key) \in Nat /\ Len(r.val) \in Nat
    BY <1>3
  <2> DEFINE x == Len(t7)
             y == payloadLen(r)
             k == Len(r.key)
             v == Len(r.val)
  <2>5. x = HeadLen + a + b + k + v /\ y = HeadLen + a + b + k + v + 1
    BY <1>11, <2>1, Zenon
  <2>6. k \in Nat /\ v \in Nat
    BY <2>4
  <2>7. x = y - 1 /\ x \in Nat /\ x > HeadLen
    <3> HIDE DEF x, y, k, v
    <3> QED BY <2>2, <2>3, <2>5, <2>6
  <2> QED BY <2>7
<1>13. Layout(t7, r)
  BY <1>10 DEF Layout, s1, s2, s3, s4, s5, s6, s7, a, b
<1> QED BY <1>4, <1>10, <1>12, <1>13

\* What starts with the content of a record is taken for that record.
LEMMA RecordRead ==
    ASSUME NEW r \in Records, NEW payload \in Seq(Cells), At(payload, 0, Content(r))
    PROVE  /\ keyLen(payload) = [val |-> Len(r.key), n |-> uvarintSize(Len(r.key))]
           /\ valueLen(payload) = [val |-> Len(r.val), n |-> uvarintSize(Len(r.val))]
           /\ End(payload) = Len(Content(r))
           /\ SubSeq(payload, 1, End(payload)) = Content(r)
           /\ RecordOf(payload) = r
<1> DEFINE a == uvarintSize(Len(r.key))
           b == uvarintSize(Len(r.val))
           k == Len(r.key)
           v == Len(r.val)
           c == Content(r)
<1>1. /\ c \in Seq(Plain) /\ Len(c) \in Nat /\ Len(c) = payloadLen(r) - 1 /\ Layout(c, r)
  BY ContentLayout
<1>2. /\ a \in Nat /\ a >= 1 /\ b \in Nat /\ b >= 1 /\ k \in 0..MaxInt /\ v \in 0..MaxInt
      /\ PutUvarint(k) \in Seq(Plain) /\ Len(PutUvarint(k)) = a
      /\ PutUvarint(v) \in Seq(Plain) /\ Len(PutUvarint(v)) = b
      /\ k \in Nat /\ v \in Nat
  BY LengthsFit, Wrapping DEF SizeIs
<1>3. /\ r.key \in Seq(Bytes) /\ r.val \in Seq(Bytes) /\ r.type \in Bytes
      /\ r.ts \in Int /\ r.exp \in Int /\ Fits(r.ts, TimeBytes) /\ Fits(r.exp, TimeBytes)
      /\ TimeBytes \in Nat \ {0} /\ HeadLen \in Nat /\ HeadLen = 1 + 2 * TimeBytes
  BY OfRecord, Wrapping
<1>4. /\ Len(PutTime(r.ts, TimeBytes)) = TimeBytes /\ PutTime(r.ts, TimeBytes) \in Seq(Plain)
      /\ Len(PutTime(r.exp, TimeBytes)) = TimeBytes /\ PutTime(r.exp, TimeBytes) \in Seq(Plain)
      /\ Time(PutTime(r.ts, TimeBytes)) = r.ts /\ Time(PutTime(r.exp, TimeBytes)) = r.exp
  BY <1>3, TimeRead, Zenon
<1>5. /\ Word(r.key) \in Seq(Plain) /\ Len(Word(r.key)) = k
      /\ \A i \in 1..k : Word(r.key)[i] = Byte(r.key[i])
      /\ Word(r.val) \in Seq(Plain) /\ Len(Word(r.val)) = v
      /\ \A i \in 1..v : Word(r.val)[i] = Byte(r.val[i])
  BY <1>3, WordPlain
<1> DEFINE L(j, x) == At(payload, j, x)
<1>6. \A j \in Nat, x \in Seq(Plain) : At(c, j, x) => L(j, x)
  <2> TAKE j \in Nat, x \in Seq(Plain)
  <2>1. Len(payload) \in Nat /\ Len(x) \in Nat /\ 0 \in Nat /\ 0 + j = j
    OBVIOUS
  <2> QED BY <1>1, <2>1, AtIn
<1> HIDE DEF c, a, b
<1>7. /\ L(0, <<Byte(r.type)>>)
      /\ L(1, PutTime(r.ts, TimeBytes)) /\ L(1 + TimeBytes, PutTime(r.exp, TimeBytes))
      /\ L(HeadLen, PutUvarint(k)) /\ L(HeadLen + a, PutUvarint(v))
      /\ L(HeadLen + a + b, Word(r.key)) /\ L(HeadLen + a + b + k, Word(r.val))
  <2>1. <<Byte(r.type)>> \in Seq(Plain)
    BY <1>3, BytePlain
  <2>2. 0 \in Nat /\ 1 \in Nat /\ 1 + TimeBytes \in Nat /\ HeadLen + a \in Nat /\ HeadLen + a + b \in Nat
        /\ HeadLen + a + b + k \in Nat
    <3>1. a \in Nat /\ b \in Nat /\ k \in Nat
      BY <1>2
    <3>2. HeadLen \in Nat /\ TimeBytes \in Nat
      BY <1>3
    <3> HIDE DEF k
    <3> QED BY <3>1, <3>2
  <2>3. /\ At(c, 0, <<Byte(r.type)>>)
        /\ At(c, 1, PutTime(r.ts, TimeBytes)) /\ At(c, 1 + TimeBytes, PutTime(r.exp, TimeBytes))
        /\ At(c, HeadLen, PutUvarint(k)) /\ At(c, HeadLen + a, PutUvarint(v))
        /\ At(c, HeadLen + a + b, Word(r.key)) /\ At(c, HeadLen + a + b + k, Word(r.val))
    BY <1>1 DEF Layout, a, b
  <2> HIDE DEF L, k, v
  <2> QED BY <1>2, <1>3, <1>4, <1>5, <1>6, <2>1, <2>2, <2>3
<1>8. \A j \in Nat, x \in Seq(Plain) : L(j, x) =>
          StartsWith(SubSeq(payload, j + 1, Len(payload)), x) /\ Len(SubSeq(payload, j + 1, Len(payload))) \in Nat
  <2> TAKE j \in Nat, x \in Seq(Plain)
  <2> SUFFICES ASSUME L(j, x) PROVE StartsWith(SubSeq(payload, j + 1, Len(payload)), x)
                                   /\ Len(SubSeq(payload, j + 1, Len(payload))) \in Nat
    OBVIOUS
  <2>1. At(SubSeq(payload, j + 1, Len(payload)), j - j, x)
    <3>1. Len(x) \in Nat /\ j \in 0..j
      OBVIOUS
    <3> QED BY <3>1, AtTail
  <2>2. j - j = 0 /\ Len(SubSeq(payload, j + 1, Len(payload))) \in Nat
    <3>1. j <= Len(payload)
      BY DEF At
    <3> QED BY <3>1
  <2> QED BY <2>1, <2>2, SMTT(30) DEF At, StartsWith
<1> HIDE DEF L, k, v
<1>9. keyLen(payload) = [val |-> k, n |-> a]
  BY <1>2, <1>3, <1>7, <1>8, UvarintRead DEF keyLen, a, k
<1>10. valueLen(payload) = [val |-> v, n |-> b]
  <2>1. HeadLen + keyLen(payload).n = HeadLen + a /\ HeadLen + a \in Nat
    BY <1>2, <1>3, <1>9
  <2> QED BY <1>2, <1>7, <1>8, <2>1, UvarintRead DEF valueLen, b, v
<1>11. KeyOff(payload) = HeadLen + a + b
  BY <1>9, <1>10 DEF KeyOff
<1>12. ValueOff(payload) = HeadLen + a + b + k
  BY <1>2, <1>9, <1>11, Wrapping DEF ValueOff
<1>13. End(payload) = HeadLen + a + b + k + v
  BY <1>2, <1>10, <1>12, Wrapping DEF End
<1>14. Len(c) = HeadLen + a + b + k + v
  <2>1. payloadLen(r) = HeadLen + a + b + k + v + 1
    BY DEF payloadLen, a, b, k, v
  <2> QED BY <1>1, <1>2, <1>3, <2>1
<1>15. SubSeq(payload, 1, End(payload)) = c
  <2>1. c \in Seq(Cells)
    BY <1>1, PlainIsCell
  <2>2. SubSeq(payload, 0 + 1, 0 + Len(c)) = c
    BY <2>1, AtCut DEF c
  <2> QED BY <1>1, <1>13, <1>14, <2>2
<1>16. payload[1].byte = r.type
  <2>1. payload[1] = Byte(r.type)
    <3>1. Len(<<Byte(r.type)>>) = 1 /\ <<Byte(r.type)>>[1] = Byte(r.type)
      OBVIOUS
    <3> QED BY <1>7, <3>1 DEF L, At
  <2> QED BY <1>3, <2>1, BytePlain
<1>17. /\ Time(SubSeq(payload, 2, TimeBytes + 1)) = r.ts
       /\ Time(SubSeq(payload, TimeBytes + 2, HeadLen)) = r.exp
  <2>1. /\ PutTime(r.ts, TimeBytes) \in Seq(Cells) /\ PutTime(r.exp, TimeBytes) \in Seq(Cells)
        /\ 1 \in Nat /\ 1 + TimeBytes \in Nat
    BY <1>3, <1>4, PlainIsCell
  <2>2. SubSeq(payload, 1 + 1, 1 + TimeBytes) = PutTime(r.ts, TimeBytes)
    BY <1>4, <1>7, <2>1, AtCut DEF L
  <2>3. SubSeq(payload, (1 + TimeBytes) + 1, (1 + TimeBytes) + TimeBytes) = PutTime(r.exp, TimeBytes)
    <3> DEFINE o == 1 + TimeBytes
    <3>1. o \in Nat /\ At(payload, o, PutTime(r.exp, TimeBytes))
      BY <1>7, <2>1 DEF L
    <3>2. SubSeq(payload, o + 1, o + Len(PutTime(r.exp, TimeBytes))) = PutTime(r.exp, TimeBytes)
      <4> HIDE DEF o
      <4> QED BY <2>1, <3>1, AtCut
    <3> QED BY <1>4, <3>2
  <2>4. 1 + 1 = 2 /\ 1 + TimeBytes = TimeBytes + 1 /\ (1 + TimeBytes) + 1 = TimeBytes + 2
        /\ (1 + TimeBytes) + TimeBytes = HeadLen
    BY <1>3
  <2>5. SubSeq(payload, 2, TimeBytes + 1) = PutTime(r.ts, TimeBytes)
    BY <2>2, <2>4
  <2>6. SubSeq(payload, TimeBytes + 2, HeadLen) = PutTime(r.exp, TimeBytes)
    BY <2>3, <2>4
  <2> QED BY <1>4, <2>5, <2>6
<1>18. Read(payload, KeyOff(payload) + 1, ValueOff(payload)) = r.key
  <2> DEFINE o == HeadLen + a + b
  <2>1. o \in Nat
    BY <1>2, <1>3
  <2>2. \A i \in 1..Len(r.key) : payload[o + i] = Byte(r.key[i])
    BY <1>5, <1>7 DEF L, At, k
  <2>3. Read(payload, o + 1, o + Len(r.key)) = r.key
    <3> HIDE DEF o
    <3> QED BY <1>3, <2>1, <2>2, ReadWord
  <2> QED BY <1>11, <1>12, <2>3 DEF k
<1>19. Read(payload, ValueOff(payload) + 1, End(payload)) = r.val
  <2> DEFINE o == HeadLen + a + b + k
  <2>1. o \in Nat
    BY <1>2, <1>3
  <2>2. \A i \in 1..Len(r.val) : payload[o + i] = Byte(r.val[i])
    BY <1>5, <1>7 DEF L, At, v
  <2>3. Read(payload, o + 1, o + Len(r.val)) = r.val
    <3> HIDE DEF o
    <3> QED BY <1>3, <2>1, <2>2, ReadWord
  <2> QED BY <1>12, <1>13, <2>3 DEF v
<1>20. RecordOf(payload) = r
  <2>1. RecordOf(payload) = [type |-> r.type, ts |-> r.ts, exp |-> r.exp, key |-> r.key, val |-> r.val]
    BY <1>16, <1>17, <1>18, <1>19 DEF RecordOf
  <2> QED BY <2>1, OfRecord
<1> QED BY <1>9, <1>10, <1>13, <1>14, <1>15, <1>20 DEF a, b, k, v, c

LEMMA UvarintType ==
    ASSUME NEW cells \in Seq(Cells)
    PROVE  /\ Uvarint(cells).n \in Nat /\ Uvarint(cells).n <= Len(cells)
           /\ Uvarint(cells).val \in Int
<1> DEFINE last == {i \in 1..MaxVarintLen : i <= Len(cells) /\ cells[i].byte < Half}
           m == Min(last)
           digits == [i \in 1..m |-> cells[i].byte % Half]
<1>0. MaxVarintLen \in Nat /\ Half \in Nat /\ Half > 0 /\ Len(cells) \in Nat
  BY CodecConstants, Sizes
<1>1. Uvarint(cells) = IF last = {} \/ (m = MaxVarintLen /\ cells[m].byte > 1)
                       THEN [val |-> 0, n |-> 0]
                       ELSE [val |-> Number(digits, Half, 0), n |-> m]
  BY DEF Uvarint
<1>2. CASE Uvarint(cells) = [val |-> 0, n |-> 0]
  BY <1>0, <1>2
<1>3. CASE last # {} /\ Uvarint(cells) = [val |-> Number(digits, Half, 0), n |-> m]
  <2>1. m \in last
    <3>1. last \in SUBSET Nat
      BY <1>0
    <3> HIDE DEF last
    <3> QED BY <1>3, <3>1, MinIn
  <2>2. m \in Nat /\ m <= Len(cells)
    <3> HIDE DEF m
    <3> QED BY <1>0, <2>1
  <2>3. ASSUME NEW i \in 1..m PROVE cells[i].byte % Half \in Int
    <3>1. cells[i] \in Cells
      <4> HIDE DEF m
      <4> QED BY <1>0, <2>2
    <3>2. cells[i].byte \in Int
      BY <3>1, OfCell
    <3> QED BY <1>0, <3>2, Division
  <2>4. digits \in Seq(Int)
    <3> HIDE DEF m
    <3> QED BY <2>2, <2>3
  <2>5. Number(digits, Half, 0) \in Int
    <3> HIDE DEF digits
    <3>1. PICK num : /\ Iterates(num, Int, NumberStep(digits, Half), 0, 0, Len(digits))
                     /\ Number(digits, Half, 0) = num[Len(digits)]
      BY <1>0, <2>4, NumberIterates
    <3>2. Len(digits) \in 0..Len(digits)
      BY <2>4
    <3> QED BY <3>1, <3>2 DEF Iterates
  <2> HIDE DEF m, digits
  <2> QED BY <1>3, <2>2, <2>5
<1> HIDE DEF last, m, digits
<1> QED BY <1>1, <1>2, <1>3

LEMMA WrapType == \A x \in Int : Wrap(x) \in Int
<1> TAKE x \in Int
<1> DEFINE b == 2 * MaxInt + 2
           y == x + MaxInt + 1
<1>1. b \in Nat /\ b > 0 /\ y \in Int
  BY Wrapping
<1>2. y % b \in Int
  <2> HIDE DEF b, y
  <2> QED BY <1>1, Division
<1> QED BY <1>2, Wrapping DEF Wrap

\* The checksum of something.
LEMMA Checksummed ==
    ASSUME NEW c, NEW s, s # << >>
    PROVE  Checksum(c, s) = [byte |-> c, of |-> s]
BY DEF Checksum

LEMMA EncodedRecord ==
    ASSUME NEW r \in Records, NEW c \in Bytes
    PROVE  LET e == EncodeWALRecord(c, r)
               m == uvarintSize(payloadLen(r))
           IN  /\ e \in Seq(Cells) /\ Len(e) = m + payloadLen(r) /\ Len(e) \in Nat /\ Len(e) <= MaxInt
               /\ At(e, 0, PutUvarint(payloadLen(r)))
               /\ At(e, m, Content(r))
               /\ e[Len(e)] = [byte |-> c, of |-> Content(r)]
               /\ \A i \in 1..(Len(e) - 1) : e[i].of = << >>
<1> DEFINE e == EncodeWALRecord(c, r)
           l == payloadLen(r)
           m == uvarintSize(l)
           s1 == PutUvarint(l)
           s2 == Content(r)
           s3 == <<Checksum(c, s2)>>
           t == s1 \o s2
<1>1. s1 \in Seq(Plain) /\ Len(s1) = m /\ m \in Nat /\ l \in 0..MaxInt /\ m + l <= MaxInt
  BY LengthsFit, OfRecord DEF SizeIs
<1>2. s2 \in Seq(Plain) /\ Len(s2) = l - 1 /\ Len(s2) \in Nat /\ Len(s2) > 0
  BY ContentLayout, Wrapping
<1>3. s3 = <<[byte |-> c, of |-> s2]>> /\ s3 \in Seq(Cells) /\ Len(s3) = 1
  <2>1. s2 # << >>
    BY <1>2
  <2>2. Checksum(c, s2) = [byte |-> c, of |-> s2]
    BY <2>1, Checksummed
  <2>3. Checksum(c, s2) \in Cells
    BY <1>2, <2>2 DEF Cells
  <2> HIDE DEF s2
  <2> QED BY <2>2, <2>3
<1>4. e = t \o s3
  BY DEF EncodeWALRecord
<1> HIDE DEF e, l, m, s1, s2, s3
<1>5. /\ t \in Seq(Plain) /\ Len(t) = Len(s1) + Len(s2) /\ At(t, 0, s1) /\ At(t, Len(s1), s2)
  BY <1>1, <1>2, Concatenated
<1>6. s1 \in Seq(Cells) /\ s2 \in Seq(Cells) /\ t \in Seq(Cells)
  BY <1>1, <1>2, <1>5, PlainIsCell
<1> HIDE DEF t
<1>7. /\ e \in Seq(Cells) /\ Len(e) = Len(t) + 1 /\ At(e, 0, t) /\ At(e, Len(t), s3)
  BY <1>3, <1>4, <1>6, Concatenated
<1>8. At(e, 0, s1) /\ At(e, m, s2)
  BY <1>1, <1>3, <1>4, <1>5, <1>6, AtPrefix
<1>9. Len(t) = m + l - 1 /\ Len(e) = m + l /\ Len(e) \in Nat /\ l \in Nat /\ Len(e) = Len(t) + 1 /\ Len(t) \in Nat
  <2>1. l \in Nat
    BY <1>1, Wrapping
  <2> QED BY <1>1, <1>2, <1>5, <1>7, <2>1
<1>10. e[Len(e)] = [byte |-> c, of |-> s2]
  BY <1>3, <1>7, <1>9 DEF At
<1>11. ASSUME NEW i \in 1..(Len(e) - 1) PROVE e[i].of = << >>
  <2>1. i \in 1..Len(t) /\ 0 + i = i
    BY <1>9
  <2>2. e[i] = t[i] /\ t[i] \in Plain
    BY <1>5, <1>7, <2>1 DEF At
  <2> QED BY <2>2, OfPlain
<1>12. Len(e) <= MaxInt
  BY <1>1, <1>9
<1> QED BY <1>7, <1>8, <1>9, <1>10, <1>11, <1>12 DEF e, l, m, s1, s2

\* The length of a record that is there decides where it ends.
LEMMA LengthRead ==
    ASSUME NEW r \in Records, NEW cells \in Seq(Cells), StartsWith(cells, PutUvarint(payloadLen(r)))
    PROVE  /\ Uvarint(cells).n = uvarintSize(payloadLen(r))
           /\ Consumed(cells) = uvarintSize(payloadLen(r)) + payloadLen(r)
<1>1. Len(cells) \in Nat /\ payloadLen(r) \in 0..MaxInt
  BY LengthsFit
<1>2. Uvarint(cells) = [val |-> payloadLen(r), n |-> uvarintSize(payloadLen(r))]
  BY <1>1, UvarintRead
<1> DEFINE m == uvarintSize(payloadLen(r))
           l == payloadLen(r)
<1>3. m \in Nat /\ l \in 0..MaxInt /\ m + l <= MaxInt
  BY LengthsFit, OfRecord DEF SizeIs
<1>4. Wrap(m + l) = m + l
  <2> HIDE DEF m, l
  <2> QED BY <1>3, Wrapping
<1> QED BY <1>2, <1>4 DEF Consumed

LEMMA WholeRecord ==
    ASSUME NEW r \in Records, NEW cells \in Seq(Cells), crc \in Bytes,
           At(cells, 0, EncodeWALRecord(crc, r))
    PROVE  /\ DecodeWALRecord(cells) = [how |-> "ok", rec |-> r]
           /\ Consumed(cells) = Len(EncodeWALRecord(crc, r))
<1> DEFINE e == EncodeWALRecord(crc, r)
           l == payloadLen(r)
           m == uvarintSize(l)
           c == Content(r)
           payload == SubSeq(cells, m + 1, m + l)
<1>1. /\ e \in Seq(Cells) /\ Len(e) = m + l /\ Len(e) \in Nat /\ Len(e) <= MaxInt
      /\ At(e, 0, PutUvarint(l)) /\ At(e, m, c)
      /\ e[Len(e)] = [byte |-> crc, of |-> c]
  BY EncodedRecord
<1>2. /\ m \in Nat /\ m >= 1 /\ l \in Nat /\ PutUvarint(l) \in Seq(Plain) /\ l <= MaxInt
      /\ Len(PutUvarint(l)) \in Nat
  BY LengthsFit, Wrapping DEF SizeIs
<1>3. c \in Seq(Plain) /\ Len(c) = l - 1 /\ Len(c) \in Nat /\ Len(c) > HeadLen
  BY ContentLayout
<1> HIDE DEF e, l, m, c
<1>4. /\ m + l <= Len(cells) /\ Len(cells) \in Nat /\ \A i \in 1..(m + l) : cells[i] = e[i]
  BY <1>1 DEF At, e
<1>5. At(cells, 0, PutUvarint(l)) /\ At(cells, m, c)
  <2>1. At(cells, 0 + 0, PutUvarint(l))
    BY <1>1, <1>2, <1>4, AtIn DEF e
  <2>2. At(cells, 0 + m, c)
    BY <1>1, <1>2, <1>3, <1>4, AtIn DEF e
  <2> QED BY <1>2, <2>1, <2>2
<1>6. Uvarint(cells).n = m /\ Consumed(cells) = m + l
  <2>1. StartsWith(cells, PutUvarint(l))
    BY <1>2, <1>5 DEF At, StartsWith
  <2> QED BY <2>1, LengthRead DEF l, m
<1>7. /\ payload \in Seq(Cells) /\ Len(payload) = l
      /\ \A i \in 1..l : payload[i] = cells[m + i]
  BY <1>2, <1>4
<1> HIDE DEF payload
<1>8. At(payload, 0, c)
  <2> DEFINE n == Len(c)
  <2>1. n \in Nat /\ n <= l /\ \A i \in 1..n : i \in 1..l /\ 0 + i = i
    <3> HIDE DEF n
    <3> QED BY <1>2, <1>3 DEF n
  <2>2. \A i \in 1..n : cells[m + i] = c[i]
    BY <1>5 DEF At
  <2>3. \A i \in 1..n : payload[0 + i] = c[i]
    <3> HIDE DEF n
    <3> QED BY <1>7, <2>1, <2>2
  <2>4. 0 + n <= Len(payload)
    BY <1>2, <1>7, <2>1
  <2> QED BY <2>3, <2>4 DEF At
<1>9. /\ keyLen(payload) = [val |-> Len(r.key), n |-> uvarintSize(Len(r.key))]
      /\ valueLen(payload) = [val |-> Len(r.val), n |-> uvarintSize(Len(r.val))]
      /\ End(payload) = Len(c) /\ SubSeq(payload, 1, End(payload)) = c /\ RecordOf(payload) = r
  BY <1>7, <1>8, RecordRead DEF c
<1>10. Intact(payload)
  <2>1. payload[l] = e[m + l]
    <3>1. l \in 1..l /\ m + l \in 1..(m + l)
      BY <1>2, <1>3
    <3>2. payload[l] = cells[m + l]
      BY <1>7, <3>1
    <3> QED BY <1>4, <3>1, <3>2
  <2>2. payload[l] = [byte |-> crc, of |-> c]
    BY <1>1, <2>1
  <2>3. Checksum(crc, c) = [byte |-> crc, of |-> c]
    <3>1. c # << >>
      BY <1>3, Wrapping
    <3> QED BY <3>1, Checksummed
  <2>4. End(payload) + 1 = l
    BY <1>2, <1>3, <1>9
  <2> QED BY <1>9, <2>2, <2>3, <2>4 DEF Intact
<1>11. DecodePayload(payload) = [how |-> "ok", rec |-> r]
  <2>1. keyLen(payload).n # 0 /\ valueLen(payload).n # 0
    BY <1>9, LengthsFit DEF SizeIs
  <2>2. ~(Len(payload) < Wrap(End(payload) + 1)) /\ ~(Len(payload) < End(payload) + 1)
    <3>1. End(payload) + 1 = l /\ l \in 0..MaxInt
      BY <1>2, <1>3, <1>9
    <3> QED BY <1>2, <1>7, <3>1, Wrapping
  <2>3. ~(Wrap(keyLen(payload).val) < 0) /\ ~(Wrap(valueLen(payload).val) < 0)
    BY <1>9, LengthsFit, Wrapping
  <2> QED BY <1>9, <1>10, <2>1, <2>2, <2>3 DEF DecodePayload
<1>12. DecodeWALRecord(cells) = DecodePayload(payload)
  <2>1. ~(m = 0 \/ Len(cells) < m + l) /\ ~(m + l < m) /\ ~((m + l) - m < HeadLen + 1)
    BY <1>2, <1>3, <1>4, Wrapping
  <2> QED BY <1>6, <2>1 DEF DecodeWALRecord, payload
<1> QED BY <1>1, <1>6, <1>11, <1>12 DEF e

\* Only what lies in front of a checksum that covers it is read as a record.
LEMMA DecodeSound ==
    ASSUME NEW cells \in Seq(Cells), DecodeWALRecord(cells).how = "ok"
    PROVE  /\ Uvarint(cells).n \in Nat /\ Uvarint(cells).n >= 1
           /\ Consumed(cells) \in Nat /\ Consumed(cells) <= Len(cells)
           /\ \E x \in 1..Consumed(cells) :
                /\ cells[x].of # << >> /\ x = Uvarint(cells).n + Len(cells[x].of) + 1
                /\ \A r \in Records : cells[x].of = Content(r) => DecodeWALRecord(cells).rec = r
<1> DEFINE n == Uvarint(cells).n
           end == Consumed(cells)
           payload == SubSeq(cells, n + 1, end)
           d == DecodePayload(payload)
<1>1. n \in Nat /\ n <= Len(cells) /\ Uvarint(cells).val \in Int /\ Len(cells) \in Nat
  BY UvarintType
<1>2. end \in Int
  <2>1. n + Uvarint(cells).val \in Int
    BY <1>1
  <2> QED BY <2>1, WrapType DEF Consumed
<1>3. n # 0 /\ ~(Len(cells) < end) /\ ~(end < n) /\ ~(end - n < HeadLen + 1) /\ DecodeWALRecord(cells) = d
  <2> HIDE DEF payload, d
  <2> QED BY DEF DecodeWALRecord, Bad, payload, d
<1> HIDE DEF n, end
<1>4. payload \in Seq(Cells) /\ Len(payload) = end - n /\ \A i \in 1..(end - n) : payload[i] = cells[n + i]
  BY <1>1, <1>2, <1>3
<1> HIDE DEF payload
<1> DEFINE k == keyLen(payload)
           v == valueLen(payload)
           e == End(payload)
<1>5. /\ k.n # 0 /\ v.n # 0 /\ ~(Wrap(k.val) < 0) /\ ~(Wrap(v.val) < 0)
      /\ ~(Len(payload) < e + 1) /\ Intact(payload) /\ d = [how |-> "ok", rec |-> RecordOf(payload)]
  <2>1. d.how = "ok"
    BY <1>3
  <2> QED BY <2>1 DEF DecodePayload, Bad
<1>6. k.n \in Nat /\ k.val \in Int /\ v.n \in Nat /\ v.val \in Int
  <2>1. ASSUME NEW i \in Nat PROVE SubSeq(payload, i + 1, Len(payload)) \in Seq(Cells)
    BY <1>4
  <2>2. HeadLen \in Nat
    BY Wrapping
  <2>3. k.n \in Nat /\ k.val \in Int
    BY <2>1, <2>2, UvarintType DEF keyLen
  <2>4. HeadLen + k.n \in Nat
    BY <2>2, <2>3
  <2> HIDE DEF k
  <2> QED BY <2>1, <2>3, <2>4, UvarintType DEF valueLen, k
<1>7. e \in Nat /\ e >= HeadLen /\ e + 1 <= end - n
  <2>1. Wrap(k.val) \in Int /\ Wrap(v.val) \in Int
    BY <1>6, WrapType
  <2>2. e = HeadLen + k.n + v.n + Wrap(k.val) + Wrap(v.val)
    BY DEF End, ValueOff, KeyOff
  <2>3. k.n \in Nat /\ v.n \in Nat /\ Wrap(k.val) >= 0 /\ Wrap(v.val) >= 0 /\ HeadLen \in Nat
    BY <1>5, <1>6, <2>1, Wrapping
  <2>4. ~(end - n < e + 1)
    BY <1>4, <1>5
  <2> DEFINE k1 == k.n
             v1 == v.n
             k2 == Wrap(k.val)
             v2 == Wrap(v.val)
  <2>5. e = HeadLen + k1 + v1 + k2 + v2
    BY <2>2
  <2>6. k1 \in Nat /\ v1 \in Nat /\ k2 \in Nat /\ v2 \in Nat
    <3> HIDE DEF k, v
    <3> QED BY <2>1, <2>3
  <2> HIDE DEF e, k1, v1, k2, v2
  <2> QED BY <1>1, <1>2, <2>3, <2>4, <2>5, <2>6
<1> DEFINE c == SubSeq(payload, 1, e)
           x == n + e + 1
<1>8. c \in Seq(Cells) /\ Len(c) = e /\ \A i \in 1..e : c[i] = payload[i]
  <2> HIDE DEF e
  <2> QED BY <1>4, <1>7
<1>9. payload[e + 1] = [byte |-> crc, of |-> c]
  <2>1. payload[e + 1] = Checksum(crc, c)
    BY <1>5 DEF Intact
  <2>2. c # << >>
    <3> HIDE DEF c, e
    <3> QED BY <1>7, <1>8, Wrapping
  <2> QED BY <2>1, <2>2, Checksummed
<1>10. x \in 1..end /\ cells[x].of = c /\ Len(c) = e /\ c # << >> /\ end \in Nat
  <2>1. x \in 1..end /\ e + 1 \in 1..(end - n) /\ n + (e + 1) = x
    <3> HIDE DEF e
    <3> QED BY <1>1, <1>2, <1>3, <1>7
  <2>2. cells[x] = payload[e + 1]
    <3> HIDE DEF x, e
    <3> QED BY <1>4, <2>1
  <2> HIDE DEF c, e, x
  <2> QED BY <1>2, <1>3, <1>7, <1>8, <1>9, <2>1, <2>2, Wrapping
<1>11. ASSUME NEW r \in Records, c = Content(r) PROVE RecordOf(payload) = r
  <2>1. At(payload, 0, Content(r))
    <3>1. 0 + e <= Len(payload) /\ \A i \in 1..e : 0 + i = i
      <4> HIDE DEF e
      <4> QED BY <1>4, <1>7
    <3>2. \A i \in 1..e : payload[0 + i] = c[i]
      <4> HIDE DEF c, e
      <4> QED BY <1>8, <3>1
    <3> HIDE DEF c, e
    <3> QED BY <1>8, <1>11, <3>1, <3>2 DEF At
  <2> QED BY <1>4, <2>1, RecordRead
<1> HIDE DEF k, v, e, c, x, d
<1>12. cells[x].of # << >> /\ x = n + Len(cells[x].of) + 1
  BY <1>10 DEF x
<1>13. \A r \in Records : cells[x].of = Content(r) => DecodeWALRecord(cells).rec = r
  BY <1>3, <1>5, <1>10, <1>11
<1>14. \E y \in 1..end : /\ cells[y].of # << >> /\ y = n + Len(cells[y].of) + 1
                         /\ \A r \in Records : cells[y].of = Content(r) => DecodeWALRecord(cells).rec = r
  <2>1. x \in 1..end
    BY <1>10
  <2> QED BY <1>12, <1>13, <2>1, Zenon
<1>15. n \in Nat /\ n >= 1 /\ end \in Nat /\ end <= Len(cells)
  BY <1>1, <1>2, <1>3, <1>10
<1> QED BY <1>14, <1>15, Zenon DEF n, end

\* A record whose end is missing is not read, and nothing goes wrong.
LEMMA CutRecord ==
    ASSUME NEW r \in Records, NEW cells \in Seq(Cells), crc \in Bytes,
           Len(cells) < Len(EncodeWALRecord(crc, r)), StartsWith(EncodeWALRecord(crc, r), cells)
    PROVE  DecodeWALRecord(cells) = Bad
<1> DEFINE e == EncodeWALRecord(crc, r)
           l == payloadLen(r)
           m == uvarintSize(l)
           s == PutUvarint(l)
<1>1. /\ e \in Seq(Cells) /\ Len(e) = m + l /\ Len(e) \in Nat /\ At(e, 0, s)
      /\ Len(cells) \in Nat
  <2>1. Len(cells) \in Nat
    OBVIOUS
  <2>2. /\ e \in Seq(Cells) /\ Len(e) = m + l /\ Len(e) \in Nat /\ At(e, 0, s)
    BY EncodedRecord
  <2> QED BY <2>1, <2>2
<1>2. m \in Nat /\ m >= 1 /\ l \in 0..MaxInt /\ s \in Seq(Plain) /\ Len(s) = m
  BY LengthsFit DEF SizeIs
<1> HIDE DEF e, l, m, s
<1>3. \A i \in 1..m : e[i] = s[i]
  BY <1>1, <1>2 DEF At
<1>4. Len(cells) <= Len(e) /\ \A i \in 1..Len(cells) : e[i] = cells[i]
  BY DEF StartsWith, e
<1>5. CASE Len(cells) < m
  <2>1. StartsWith(s, cells)
    BY <1>1, <1>2, <1>3, <1>4, <1>5 DEF StartsWith
  <2>2. Uvarint(cells).n = 0
    BY <1>1, <1>2, <1>5, <2>1, UvarintCut DEF s
  <2> QED BY <2>2 DEF DecodeWALRecord
<1>6. CASE Len(cells) >= m
  <2>1. StartsWith(cells, s)
    BY <1>1, <1>2, <1>3, <1>4, <1>6 DEF StartsWith
  <2>2. Consumed(cells) = m + l
    BY <2>1, LengthRead DEF m, l, s
  <2> QED BY <1>1, <2>2 DEF DecodeWALRecord, e
<1> QED BY <1>1, <1>2, <1>5, <1>6

-----------------------------------------------------------------------------
(* Sequences joined *)

JoinStep(S, ss) ==
    [w \in Nat \X Seq(S) |-> IF w[1] \in 1..Len(ss) THEN w[2] \o ss[w[1]] ELSE << >>]

LEMMA JoinSteps ==
    ASSUME NEW S, NEW ss \in Seq(Seq(S))
    PROVE  /\ JoinStep(S, ss) \in [Nat \X Seq(S) -> Seq(S)]
           /\ \A i \in 1..Len(ss), y \in Seq(S) : JoinStep(S, ss)[<<i, y>>] = y \o ss[i]
<1> DEFINE X == Seq(S)
           J(i, y) == y \o ss[i]
           m == Len(ss)
<1>1. /\ \A i \in 1..m, y \in X : J(i, y) \in X
      /\ << >> \in X
  OBVIOUS
<1>2. JoinStep(S, ss) = [w \in Nat \X X |-> IF w[1] \in 1..m THEN J(w[1], w[2]) ELSE << >>]
  BY DEF JoinStep
<1>3. \A i \in 1..m : i \in Nat
  OBVIOUS
<1> HIDE DEF X, J, m
<1>4. JoinStep(S, ss) \in [Nat \X X -> X]
  BY <1>1, <1>2
<1>5. \A i \in 1..m, y \in X : JoinStep(S, ss)[<<i, y>>] = J(i, y)
  BY <1>2, <1>3
<1> QED BY <1>4, <1>5 DEF X, J, m

LEMMA FlattenIterates ==
    ASSUME NEW S, NEW ss \in Seq(Seq(S)), ss # << >>
    PROVE  \E f : /\ Iterates(f, Seq(S), JoinStep(S, ss), ss[1], 1, Len(ss))
                  /\ FlattenSeq(ss) = f[Len(ss)]
<1> DEFINE m == Len(ss)
           step == JoinStep(S, ss)
           X == Seq(S)
           Sol(f) == f = [i \in 1..m |-> IF i = 1 THEN ss[1] ELSE f[i - 1] \o ss[i]]
           q == CHOOSE g : g = [i \in 1..m |-> IF i = 1 THEN ss[i] ELSE g[i - 1] \o ss[i]]
<1>0. m \in Nat /\ m >= 1 /\ ss[1] \in X /\ \A i \in 1..m : ss[i] \in X
  OBVIOUS
<1>1. /\ step \in [Nat \X X -> X] /\ 1 \in Nat /\ 1 <= m
      /\ \A i \in 1..m, y \in X : step[<<i, y>>] = y \o ss[i]
      /\ \A i \in 1..m : i \in Nat
  <2>1. 1 <= m /\ \A i \in 1..m : i \in Nat
    BY <1>0
  <2> QED BY <2>1, JoinSteps
<1>2. PICK f : Iterates(f, X, step, ss[1], 1, m)
  <2> HIDE DEF step, m, X
  <2> QED BY <1>0, <1>1, Recursion, Zenon
<1>3. Sol(f)
  <2>1. f \in [1..m -> X] /\ f[1] = ss[1] /\ \A i \in 2..m : f[i] = step[<<i, f[i - 1]>>]
    <3> HIDE DEF step, m, X
    <3> QED BY <1>2 DEF Iterates
  <2>2. \A i \in 2..m : f[i - 1] \in X /\ i \in 1..m
    <3>1. \A i \in 2..m : i - 1 \in 1..m /\ i \in 1..m
      BY <1>0
    <3> HIDE DEF X, m
    <3> QED BY <2>1, <3>1
  <2>3. \A i \in 2..m : f[i] = f[i - 1] \o ss[i]
    <3> HIDE DEF step, m, X
    <3> QED BY <1>1, <2>1, <2>2, Zenon
  <2> DEFINE K(i) == f[i - 1] \o ss[i]
  <2>4. \A i \in 1..m : i = 1 \/ i \in 2..m
    BY <1>0
  <2>5. f = [i \in 1..m |-> IF i = 1 THEN ss[1] ELSE K(i)]
    <3>1. \A i \in 2..m : f[i] = K(i)
      BY <2>3, Zenon
    <3> HIDE DEF m, X, K
    <3> QED BY <2>1, <2>4, <3>1
  <2> QED BY <2>5, Zenon
<1>4. Sol(q)
  <2>1. \A g : Sol(g) <=> g = [i \in 1..m |-> IF i = 1 THEN ss[i] ELSE g[i - 1] \o ss[i]]
    <3> TAKE g
    <3>1. \A i \in 1..m : (IF i = 1 THEN ss[1] ELSE g[i - 1] \o ss[i]) = (IF i = 1 THEN ss[i] ELSE g[i - 1] \o ss[i])
      <4> HIDE DEF m, X
      <4> QED OBVIOUS
    <3>2. [i \in 1..m |-> IF i = 1 THEN ss[1] ELSE g[i - 1] \o ss[i]]
             = [i \in 1..m |-> IF i = 1 THEN ss[i] ELSE g[i - 1] \o ss[i]]
      <4> HIDE DEF m
      <4> QED BY <3>1, Zenon
    <3> QED BY <3>2, Zenon
  <2>2. f = [i \in 1..m |-> IF i = 1 THEN ss[i] ELSE f[i - 1] \o ss[i]]
    BY <1>3, <2>1, Zenon
  <2>3. q = [i \in 1..m |-> IF i = 1 THEN ss[i] ELSE q[i - 1] \o ss[i]]
    BY <2>2, Zenon
  <2> HIDE DEF q, Sol
  <2> QED BY <2>1, <2>3, Zenon
<1>5. q = [i \in 1..m |-> IF i = 1 THEN ss[1] ELSE q[i - 1] \o ss[i]]
  BY <1>4, Zenon
<1>6. q = [i \in 1..m |-> q[i]] /\ q[1] = ss[1] /\ \A i \in 2..m : q[i] = q[i - 1] \o ss[i]
  <2> DEFINE K(i) == q[i - 1] \o ss[i]
  <2>1. q = [i \in 1..m |-> IF i = 1 THEN ss[1] ELSE K(i)]
    BY <1>5, Zenon
  <2>2. \A i \in 2..m : i \in 1..m /\ i # 1
    OBVIOUS
  <2>3. q = [i \in 1..m |-> q[i]] /\ q[1] = ss[1] /\ \A i \in 2..m : q[i] = K(i)
    <3> HIDE DEF q, m, X, K
    <3> QED BY <1>0, <2>1, <2>2
  <2> QED BY <2>3, Zenon
<1>7. Follows(q, X, step, ss[1], 1, m)
  <2>1. \A i \in 2..m : i \in 1..m
    OBVIOUS
  <2>2. \A i \in 2..m : q[i - 1] \in X => q[i] = step[<<i, q[i - 1]>>]
    <3> HIDE DEF q, m, step, X
    <3> QED BY <1>1, <1>6, <2>1, Zenon
  <2>3. q[1] = ss[1]
    BY <1>6, Zenon
  <2>4. 1 + 1 = 2
    OBVIOUS
  <2> HIDE DEF q, m, step, X
  <2> QED BY <2>2, <2>3, <2>4, Zenon DEF Follows
<1>8. Iterates(q, X, step, ss[1], 1, m)
  <2> HIDE DEF q, m, step, X, Sol
  <2> QED BY <1>0, <1>1, <1>6, <1>7, FollowsIterates, Zenon
<1>9. FlattenSeq(ss) = q[m]
  <2>1. ~(Len(ss) = 0)
    BY <1>0
  <2> HIDE DEF m, X
  <2> QED BY <2>1 DEF FlattenSeq, m
<1> HIDE DEF q
<1> QED BY <1>8, <1>9

LEMMA Flattened ==
    ASSUME NEW S, NEW ss \in Seq(Seq(S)), NEW x \in Seq(S)
    PROVE  /\ FlattenSeq(<< >>) = << >>
           /\ FlattenSeq(ss) \in Seq(S)
           /\ FlattenSeq(Append(ss, x)) = FlattenSeq(ss) \o x
<1> DEFINE X == Seq(S)
           t == Append(ss, x)
           m == Len(ss)
<1>1. FlattenSeq(<< >>) = << >>
  BY DEF FlattenSeq
<1>2. FlattenSeq(ss) \in X
  <2>1. CASE ss = << >>
    <3>1. << >> \in X
      OBVIOUS
    <3> QED BY <1>1, <2>1, <3>1, Zenon
  <2>2. CASE ss # << >>
    <3>1. PICK f : /\ Iterates(f, X, JoinStep(S, ss), ss[1], 1, m)
                   /\ FlattenSeq(ss) = f[m]
      BY <2>2, FlattenIterates
    <3>2. m \in 1..m
      BY <2>2
    <3> HIDE DEF X, m
    <3> QED BY <3>1, <3>2 DEF Iterates
  <2> QED BY <2>1, <2>2
<1>3. /\ t \in Seq(X) /\ Len(t) = m + 1 /\ t # << >> /\ t[m + 1] = x /\ \A i \in 1..m : t[i] = ss[i]
      /\ m \in Nat
  <2>1. ss \in Seq(X) /\ x \in X
    OBVIOUS
  <2> HIDE DEF X
  <2> QED BY <2>1
<1>4. PICK g : /\ Iterates(g, X, JoinStep(S, t), t[1], 1, m + 1)
               /\ FlattenSeq(t) = g[m + 1]
  <2> HIDE DEF t
  <2> QED BY <1>3, FlattenIterates
<1>5. CASE ss = << >>
  <2>1. m = 0 /\ FlattenSeq(t) = x
    <3>1. m = 0
      BY <1>5
    <3>2. g[1] = t[1] /\ t[1] = x
      <4> HIDE DEF t, m
      <4> QED BY <1>3, <1>4, <3>1 DEF Iterates
    <3> QED BY <1>4, <3>1, <3>2
  <2>2. << >> \o x = x
    OBVIOUS
  <2> HIDE DEF t
  <2> QED BY <1>1, <1>2, <1>5, <2>1, <2>2 DEF t
<1>6. CASE ss # << >>
  <2>1. PICK f : /\ Iterates(f, X, JoinStep(S, ss), ss[1], 1, m)
                 /\ FlattenSeq(ss) = f[m]
    BY <1>6, FlattenIterates
  <2>2. m >= 1
    BY <1>6
  <2>j. /\ \A i \in 1..m, y \in X : JoinStep(S, ss)[<<i, y>>] = y \o ss[i]
        /\ \A i \in 1..(m + 1), y \in X : JoinStep(S, t)[<<i, y>>] = y \o t[i]
    <3>1. /\ \A i \in 1..Len(ss), y \in Seq(S) : JoinStep(S, ss)[<<i, y>>] = y \o ss[i]
          /\ \A i \in 1..Len(t), y \in Seq(S) : JoinStep(S, t)[<<i, y>>] = y \o t[i]
      <4> HIDE DEF t
      <4> QED BY <1>3, JoinSteps
    <3>2. Len(t) = m + 1
      BY <1>3
    <3> HIDE DEF t
    <3> QED BY <3>1, <3>2, Zenon
  <2>3. Iterates(f, X, JoinStep(S, t), t[1], 1, m)
    <3>1. /\ f \in [1..m -> X] /\ f[1] = ss[1]
          /\ \A i \in 2..m : f[i] = JoinStep(S, ss)[<<i, f[i - 1]>>]
      <4> HIDE DEF X, m
      <4> QED BY <2>1 DEF Iterates
    <3>2. \A i \in 2..m : f[i - 1] \in X /\ i \in 1..m /\ i \in 1..(m + 1) /\ t[i] = ss[i]
      <4> HIDE DEF X, m, t
      <4> QED BY <1>3, <3>1
    <3>3. \A i \in 2..m : f[i] = JoinStep(S, t)[<<i, f[i - 1]>>]
      <4> TAKE i \in 2..m
      <4>1. f[i - 1] \in X /\ i \in 1..m /\ i \in 1..(m + 1) /\ t[i] = ss[i]
        BY <3>2, Zenon
      <4>2. f[i] = JoinStep(S, ss)[<<i, f[i - 1]>>]
        BY <3>1, Zenon
      <4>3. JoinStep(S, ss)[<<i, f[i - 1]>>] = f[i - 1] \o ss[i]
        BY <2>j, <4>1, Zenon
      <4>4. JoinStep(S, t)[<<i, f[i - 1]>>] = f[i - 1] \o t[i]
        BY <2>j, <4>1, Zenon
      <4> HIDE DEF X, m, t
      <4> QED BY <4>1, <4>2, <4>3, <4>4, Zenon
    <3>4. t[1] = ss[1]
      <4> HIDE DEF t, X, m
      <4> QED BY <1>3, <2>2
    <3> HIDE DEF X, t, m
    <3> QED BY <3>1, <3>3, <3>4 DEF Iterates
  <2>4. f[m] = g[m]
    <3>1. 1 \in Nat /\ m \in Nat /\ m + 1 \in Nat /\ m <= m + 1 /\ m \in 1..m
      BY <1>3, <2>2
    <3> HIDE DEF X, t, m
    <3>2. \A i \in 1..m : f[i] = g[i]
      BY <1>4, <2>3, <3>1, SolutionsAgree
    <3> QED BY <3>1, <3>2
  <2>5. g[m] \in X /\ g[m + 1] = JoinStep(S, t)[<<m + 1, g[m]>>]
    <3>1. m \in 1..(m + 1) /\ m + 1 \in 2..(m + 1) /\ (m + 1) - 1 = m
      BY <1>3, <2>2
    <3> HIDE DEF X, t, m
    <3> QED BY <1>4, <3>1 DEF Iterates
  <2>6. g[m + 1] = g[m] \o x
    <3>1. m + 1 \in 1..(m + 1)
      BY <1>3
    <3> HIDE DEF X, t, m
    <3> QED BY <1>3, <2>j, <2>5, <3>1
  <2> HIDE DEF t, X, m
  <2> QED BY <1>1, <1>2, <1>4, <2>1, <2>4, <2>6 DEF t, X
<1> QED BY <1>5, <1>6

\* What the elements of s are written as, one behind the other, and where the
\* first k end.
Join(s, enc) == FlattenSeq([i \in DOMAIN s |-> enc[s[i]]])

Upto(s, enc, k) == Len(Join(SubSeq(s, 1, k), enc))

Grows(T, enc, s) == \A r \in T : Join(Append(s, r), enc) = Join(s, enc) \o enc[r]

LEMMA JoinGrows ==
    ASSUME NEW S, NEW T, NEW enc \in [T -> Seq(S)], NEW s \in Seq(T)
    PROVE  /\ Join(<< >>, enc) = << >>
           /\ Join(s, enc) \in Seq(S)
           /\ Grows(T, enc, s)
<1> DEFINE X == Seq(S)
           ss == [i \in DOMAIN s |-> enc[s[i]]]
<1>1. DOMAIN s = 1..Len(s) /\ Len(s) \in Nat /\ \A i \in 1..Len(s) : s[i] \in T
  OBVIOUS
<1>2. ss \in Seq(X) /\ Len(ss) = Len(s)
  <2>1. \A i \in 1..Len(s) : enc[s[i]] \in X
    <3> HIDE DEF X
    <3> QED BY <1>1 DEF X
  <2> HIDE DEF X
  <2> QED BY <1>1, <2>1
<1>3. Join(s, enc) = FlattenSeq(ss)
  BY DEF Join
<1>4. << >> \in X
  OBVIOUS
<1>5. Join(<< >>, enc) = << >>
  <2>1. Join(<< >>, enc) = FlattenSeq([i \in DOMAIN << >> |-> enc[<< >>[i]]])
    BY DEF Join
  <2>2. [i \in DOMAIN << >> |-> enc[<< >>[i]]] = << >>
    <3> DEFINE h(i) == enc[<< >>[i]]
    <3>1. DOMAIN << >> = {}
      OBVIOUS
    <3>2. [i \in {} |-> h(i)] = << >>
      <4> HIDE DEF h
      <4> QED OBVIOUS
    <3> HIDE DEF h
    <3>3. [i \in DOMAIN << >> |-> h(i)] = << >>
      BY <3>1, <3>2, Zenon
    <3> QED BY <3>3, Zenon DEF h
  <2>3. FlattenSeq(<< >>) = << >>
    BY DEF FlattenSeq
  <2> QED BY <2>1, <2>2, <2>3
<1>6. Join(s, enc) \in X
  <2> HIDE DEF ss
  <2> QED BY <1>2, <1>3, <1>4, Flattened
<1>7. ASSUME NEW r \in T PROVE Join(Append(s, r), enc) = Join(s, enc) \o enc[r]
  <2> DEFINE t == Append(s, r)
             tt == [i \in DOMAIN t |-> enc[t[i]]]
  <2>1. /\ DOMAIN t = 1..(Len(s) + 1) /\ t[Len(s) + 1] = r
        /\ \A i \in 1..Len(s) : t[i] = s[i]
    OBVIOUS
  <2>2. enc[r] \in X
    OBVIOUS
  <2>3. tt = Append(ss, enc[r])
    <3>1. Append(ss, enc[r]) = [i \in 1..(Len(s) + 1) |-> IF i <= Len(s) THEN ss[i] ELSE enc[r]]
      <4> HIDE DEF X, ss
      <4> QED BY <1>1, <1>2, <2>2
    <3>2. \A i \in 1..Len(s) : ss[i] = enc[s[i]]
      BY <1>1
    <3>3. \A i \in 1..(Len(s) + 1) : (i <= Len(s) => i \in 1..Len(s)) /\ (~(i <= Len(s)) => i = Len(s) + 1)
      BY <1>1
    <3> HIDE DEF t, ss
    <3> QED BY <1>1, <2>1, <3>1, <3>2, <3>3
  <2>4. FlattenSeq(Append(ss, enc[r])) = FlattenSeq(ss) \o enc[r]
    <3> HIDE DEF ss
    <3> QED BY <1>2, <2>2, Flattened
  <2>5. Join(t, enc) = FlattenSeq(tt)
    BY DEF Join
  <2> HIDE DEF t, tt, ss
  <2> QED BY <1>3, <2>3, <2>4, <2>5 DEF t
<1> HIDE DEF X, ss
<1> QED BY <1>5, <1>6, <1>7 DEF X, Grows

LEMMA FirstOf ==
    ASSUME NEW T, NEW s \in Seq(T), NEW k \in 0..Len(s)
    PROVE  /\ SubSeq(s, 1, k) \in Seq(T) /\ Len(SubSeq(s, 1, k)) = k
           /\ \A i \in 1..k : SubSeq(s, 1, k)[i] = s[i]
           /\ \A i \in 0..k : SubSeq(SubSeq(s, 1, k), 1, i) = SubSeq(s, 1, i)
           /\ SubSeq(s, 1, 0) = << >> /\ SubSeq(s, 1, Len(s)) = s
           /\ k + 1 <= Len(s) => SubSeq(s, 1, k + 1) = Append(SubSeq(s, 1, k), s[k + 1])
OBVIOUS

LEMMA UptoDef ==
    ASSUME NEW S, NEW T, NEW enc \in [T -> Seq(S)], NEW s \in Seq(T)
    PROVE  /\ Upto(s, enc, 0) = 0 /\ Upto(s, enc, Len(s)) = Len(Join(s, enc))
           /\ \A k \in 0..Len(s) : Upto(s, enc, k) \in Nat
           /\ \A k \in 1..Len(s) :
                /\ s[k] \in T /\ Len(enc[s[k]]) \in Nat
                /\ Upto(s, enc, k) = Upto(s, enc, k - 1) + Len(enc[s[k]])
                /\ At(Join(SubSeq(s, 1, k), enc), 0, Join(SubSeq(s, 1, k - 1), enc))
                /\ At(Join(SubSeq(s, 1, k), enc), Upto(s, enc, k - 1), enc[s[k]])
<1>1. SubSeq(s, 1, 0) = << >> /\ SubSeq(s, 1, Len(s)) = s
  OBVIOUS
<1>2. /\ Len(Join(<< >>, enc)) = 0
      /\ \A t \in Seq(T) : Join(t, enc) \in Seq(S) /\ \A r \in T : Join(Append(t, r), enc) = Join(t, enc) \o enc[r]
  <2>1. Join(<< >>, enc) = << >>
    BY JoinGrows, Zenon
  <2>2. Len(<< >>) = 0
    OBVIOUS
  <2>3. \A t \in Seq(T) : Join(t, enc) \in Seq(S) /\ \A r \in T : Join(Append(t, r), enc) = Join(t, enc) \o enc[r]
    <3> TAKE t \in Seq(T)
    <3>1. Join(t, enc) \in Seq(S)
      BY JoinGrows, Zenon
    <3>2. Grows(T, enc, t)
      BY JoinGrows, Zenon
    <3> QED BY <3>1, <3>2, Zenon DEF Grows
  <2> QED BY <2>1, <2>2, <2>3, Zenon
<1>3. ASSUME NEW k \in 0..Len(s) PROVE Join(SubSeq(s, 1, k), enc) \in Seq(S) /\ Upto(s, enc, k) \in Nat
  <2>1. SubSeq(s, 1, k) \in Seq(T)
    BY FirstOf
  <2>2. Join(SubSeq(s, 1, k), enc) \in Seq(S)
    BY <1>2, <2>1
  <2> QED BY <2>2 DEF Upto
<1>4. ASSUME NEW k \in 1..Len(s)
      PROVE  /\ s[k] \in T /\ Len(enc[s[k]]) \in Nat
             /\ Upto(s, enc, k) = Upto(s, enc, k - 1) + Len(enc[s[k]])
             /\ At(Join(SubSeq(s, 1, k), enc), 0, Join(SubSeq(s, 1, k - 1), enc))
             /\ At(Join(SubSeq(s, 1, k), enc), Upto(s, enc, k - 1), enc[s[k]])
  <2>1. k - 1 \in 0..Len(s) /\ (k - 1) + 1 = k /\ (k - 1) + 1 <= Len(s) /\ s[k] \in T
    OBVIOUS
  <2>2. SubSeq(s, 1, k) = Append(SubSeq(s, 1, k - 1), s[k]) /\ SubSeq(s, 1, k - 1) \in Seq(T)
    BY <2>1, FirstOf
  <2>3. Join(SubSeq(s, 1, k), enc) = Join(SubSeq(s, 1, k - 1), enc) \o enc[s[k]]
    BY <1>2, <2>1, <2>2, Zenon
  <2>4. enc[s[k]] \in Seq(S) /\ Join(SubSeq(s, 1, k - 1), enc) \in Seq(S)
    BY <1>3, <2>1
  <2> DEFINE x == Join(SubSeq(s, 1, k - 1), enc)
             y == enc[s[k]]
  <2>5. Len(x \o y) = Len(x) + Len(y) /\ At(x \o y, 0, x) /\ At(x \o y, Len(x), y) /\ Len(y) \in Nat
    <3> HIDE DEF x, y
    <3> QED BY <2>4, Concatenated DEF x, y
  <2> QED BY <2>1, <2>3, <2>5 DEF Upto
<1> QED BY <1>1, <1>2, <1>3, <1>4 DEF Upto

\* The elements lie one behind the other, and nothing else does.
LEMMA Joined ==
    ASSUME NEW S, NEW T, NEW enc \in [T -> Seq(S)], NEW s \in Seq(T)
    PROVE  /\ \A j, k \in 0..Len(s) : j <= k =>
                /\ Upto(s, enc, j) <= Upto(s, enc, k)
                /\ At(Join(SubSeq(s, 1, k), enc), 0, Join(SubSeq(s, 1, j), enc))
           /\ \A k \in 1..Len(s) : At(Join(s, enc), Upto(s, enc, k - 1), enc[s[k]])
           /\ \A x \in 1..Len(Join(s, enc)) : \E k \in 1..Len(s) :
                x > Upto(s, enc, k - 1) /\ x <= Upto(s, enc, k)
<1> DEFINE u(k) == Upto(s, enc, k)
           J(k) == Join(SubSeq(s, 1, k), enc)
           n == Len(s)
<1>0. n \in Nat
  OBVIOUS
<1>1. /\ u(0) = 0 /\ u(n) = Len(Join(s, enc)) /\ J(n) = Join(s, enc)
      /\ \A k \in 0..n : u(k) \in Nat /\ J(k) \in Seq(S) /\ Len(J(k)) = u(k)
      /\ \A k \in 1..n : /\ s[k] \in T /\ Len(enc[s[k]]) \in Nat
                         /\ u(k) = u(k - 1) + Len(enc[s[k]])
                         /\ At(J(k), 0, J(k - 1))
                         /\ At(J(k), u(k - 1), enc[s[k]])
  <2>1. \A k \in 0..n : J(k) \in Seq(S) /\ Len(J(k)) = u(k)
    <3> TAKE k \in 0..n
    <3>1. SubSeq(s, 1, k) \in Seq(T)
      BY FirstOf, Zenon
    <3> QED BY <3>1, JoinGrows, Zenon DEF Upto
  <2>2. J(n) = Join(s, enc)
    <3>1. n \in 0..Len(s)
      BY <1>0
    <3>2. SubSeq(s, 1, n) = s
      BY <3>1, FirstOf, Zenon
    <3> QED BY <3>2, Zenon
  <2>3. /\ u(0) = 0 /\ u(n) = Len(Join(s, enc))
        /\ \A k \in 0..n : u(k) \in Nat
        /\ \A k \in 1..n : /\ s[k] \in T /\ Len(enc[s[k]]) \in Nat
                           /\ u(k) = u(k - 1) + Len(enc[s[k]])
                           /\ At(J(k), 0, J(k - 1))
                           /\ At(J(k), u(k - 1), enc[s[k]])
    BY UptoDef, Zenon
  <2> HIDE DEF n, u, J
  <2> QED BY <2>1, <2>2, <2>3, Zenon
<1> HIDE DEF u, J
<1>2. ASSUME NEW j \in 0..n
      PROVE  \A k \in 0..n : j <= k => u(j) <= u(k) /\ At(J(k), 0, J(j))
  <2> DEFINE D == {k \in Nat : k <= n => u(j) <= u(k) /\ At(J(k), 0, J(j))}
  <2>1. j \in D
    BY <1>1 DEF At
  <2>2. ASSUME NEW k \in Nat, k >= j, k \in D PROVE k + 1 \in D
    <3>1. SUFFICES ASSUME k + 1 <= n PROVE u(j) <= u(k + 1) /\ At(J(k + 1), 0, J(j))
      OBVIOUS
    <3>2. k + 1 \in 1..n /\ k \in 0..n /\ k + 1 \in 0..n /\ (k + 1) - 1 = k
      BY <3>1
    <3>3. u(j) <= u(k) /\ At(J(k), 0, J(j))
      BY <2>2, <3>2
    <3>4. u(k + 1) = u(k) + Len(enc[s[k + 1]]) /\ At(J(k + 1), 0, J(k)) /\ Len(enc[s[k + 1]]) \in Nat
      BY <1>1, <3>2
    <3>5. u(j) \in Nat /\ u(k) \in Nat /\ u(k + 1) \in Nat /\ Len(J(k + 1)) \in Nat /\ Len(J(k)) \in Nat /\ Len(J(j)) \in Nat
      BY <1>1, <3>2
    <3>6. At(J(k + 1), 0 + 0, J(j))
      BY <3>3, <3>4, <3>5, AtIn
    <3> QED BY <3>3, <3>4, <3>5, <3>6
  <2>3. \A k \in Nat : k >= j => k \in D
    <3>1. j \in Nat
      OBVIOUS
    <3> HIDE DEF D
    <3> QED BY <2>1, <2>2, <3>1, AllFrom
  <2> QED BY <2>3
<1>3. ASSUME NEW k \in 1..n PROVE At(Join(s, enc), u(k - 1), enc[s[k]])
  <2>1. k \in 0..n /\ n \in 0..n /\ k <= n /\ k - 1 \in 0..n
    BY <1>0
  <2>2. At(J(n), 0, J(k)) /\ At(J(k), u(k - 1), enc[s[k]])
    BY <1>1, <1>2, <2>1
  <2>3. Len(J(n)) \in Nat /\ Len(J(k)) \in Nat /\ Len(enc[s[k]]) \in Nat /\ u(k - 1) \in Nat
    BY <1>1, <2>1
  <2>4. At(J(n), 0 + u(k - 1), enc[s[k]])
    BY <2>2, <2>3, AtIn
  <2> QED BY <1>1, <2>3, <2>4
<1>4. ASSUME NEW x \in 1..Len(Join(s, enc))
      PROVE  \E k \in 1..n : x > u(k - 1) /\ x <= u(k)
  <2> DEFINE D == {k \in 0..n : x <= u(k)}
  <2>1. n \in D /\ 0 \notin D
    BY <1>0, <1>1
  <2>2. PICK k \in D : \A y \in D : k <= y
    <3>1. D \subseteq 0..n
      BY Zenon
    <3>2. n \in D
      BY <2>1
    <3> HIDE DEF D
    <3>3. D \in SUBSET Nat /\ D # {}
      BY <1>0, <3>1, <3>2
    <3> QED BY <3>3, LeastIn
  <2>3. k \in 1..n /\ k - 1 \in 0..n /\ k - 1 \notin D
    BY <1>0, <2>1, <2>2
  <2>4. u(k - 1) \in Nat /\ ~(x <= u(k - 1))
    BY <1>1, <2>3
  <2> QED BY <2>3, <2>4
<1> QED BY <1>2, <1>3, <1>4 DEF u, J

-----------------------------------------------------------------------------
(* The records of a segment *)

RecordCode(c) == [r \in Records |-> EncodeWALRecord(c, r)]

LogEnd(c, s, k) == Upto(s, RecordCode(c), k)

LEMMA LogJoined ==
    ASSUME NEW c \in Bytes, NEW s \in Seq(Records)
    PROVE  /\ RecordCode(c) \in [Records -> Seq(Cells)]
           /\ EncodeLog(c, s) = Join(s, RecordCode(c))
<1>1. \A r \in Records : EncodeWALRecord(c, r) \in Seq(Cells)
  BY EncodedRecord
<1>2. RecordCode(c) \in [Records -> Seq(Cells)]
  BY <1>1 DEF RecordCode
<1>3. \A i \in DOMAIN s : RecordCode(c)[s[i]] = EncodeWALRecord(c, s[i])
  <2>1. \A i \in DOMAIN s : s[i] \in Records
    OBVIOUS
  <2> QED BY <2>1 DEF RecordCode
<1>4. [i \in DOMAIN s |-> EncodeWALRecord(c, s[i])] = [i \in DOMAIN s |-> RecordCode(c)[s[i]]]
  BY <1>3, Zenon
<1> QED BY <1>2, <1>4 DEF EncodeLog, Join

LEMMA LogLayout ==
    ASSUME NEW c \in Bytes, NEW s \in Seq(Records)
    PROVE  /\ EncodeLog(c, s) \in Seq(Cells) /\ Len(EncodeLog(c, s)) \in Nat /\ Len(s) \in Nat
           /\ LogEnd(c, s, 0) = 0 /\ LogEnd(c, s, Len(s)) = Len(EncodeLog(c, s))
           /\ \A k \in 0..Len(s) :
                /\ LogEnd(c, s, k) \in Nat /\ LogEnd(c, s, k) <= Len(EncodeLog(c, s))
                /\ LogEnd(c, s, k) = Len(EncodeLog(c, SubSeq(s, 1, k)))
                /\ At(EncodeLog(c, s), 0, EncodeLog(c, SubSeq(s, 1, k)))
           /\ \A k \in 1..Len(s) :
                /\ s[k] \in Records /\ Len(EncodeWALRecord(c, s[k])) \in Nat
                /\ LogEnd(c, s, k) = LogEnd(c, s, k - 1) + Len(EncodeWALRecord(c, s[k]))
                /\ At(EncodeLog(c, s), LogEnd(c, s, k - 1), EncodeWALRecord(c, s[k]))
           /\ \A j, k \in 0..Len(s) : j < k => LogEnd(c, s, j) < LogEnd(c, s, k)
<1> DEFINE enc == RecordCode(c)
           e == EncodeLog(c, s)
           n == Len(s)
           u(k) == LogEnd(c, s, k)
           J(k) == Join(SubSeq(s, 1, k), enc)
<1>1. enc \in [Records -> Seq(Cells)] /\ e = Join(s, enc) /\ n \in Nat
  BY LogJoined
<1>2. \A k \in 0..n : EncodeLog(c, SubSeq(s, 1, k)) = J(k) /\ SubSeq(s, 1, k) \in Seq(Records)
  <2> TAKE k \in 0..n
  <2>1. SubSeq(s, 1, k) \in Seq(Records)
    BY FirstOf, Zenon
  <2> QED BY <2>1, LogJoined, Zenon
<1>3. /\ u(0) = 0 /\ u(n) = Len(e)
      /\ \A k \in 0..n : u(k) \in Nat
      /\ \A k \in 1..n : /\ s[k] \in Records /\ Len(enc[s[k]]) \in Nat
                         /\ u(k) = u(k - 1) + Len(enc[s[k]])
  <2> HIDE DEF enc, e
  <2>1. /\ Upto(s, enc, 0) = 0 /\ Upto(s, enc, Len(s)) = Len(Join(s, enc))
        /\ \A k \in 0..Len(s) : Upto(s, enc, k) \in Nat
    BY <1>1, UptoDef
  <2>2. \A k \in 1..Len(s) :
            /\ s[k] \in Records /\ Len(enc[s[k]]) \in Nat
            /\ Upto(s, enc, k) = Upto(s, enc, k - 1) + Len(enc[s[k]])
    BY <1>1, UptoDef
  <2>3. \A k : u(k) = Upto(s, enc, k)
    BY DEF LogEnd, enc
  <2> HIDE DEF u
  <2> QED BY <1>1, <2>1, <2>2, <2>3
<1>4. /\ \A j, k \in 0..n : j <= k => u(j) <= u(k) /\ At(J(k), 0, J(j))
      /\ \A k \in 1..n : At(e, u(k - 1), enc[s[k]])
  <2> HIDE DEF enc, e
  <2>1. \A j, k \in 0..Len(s) : j <= k =>
            /\ Upto(s, enc, j) <= Upto(s, enc, k)
            /\ At(Join(SubSeq(s, 1, k), enc), 0, Join(SubSeq(s, 1, j), enc))
    BY <1>1, Joined, Zenon
  <2>2. \A k \in 1..Len(s) : At(Join(s, enc), Upto(s, enc, k - 1), enc[s[k]])
    BY <1>1, Joined, Zenon
  <2>3. \A k : u(k) = Upto(s, enc, k)
    BY DEF LogEnd, enc
  <2> HIDE DEF u
  <2> QED BY <1>1, <2>1, <2>2, <2>3
<1>5. J(n) = e
  <2>1. SubSeq(s, 1, n) = s
    OBVIOUS
  <2> QED BY <1>1, <2>1, Zenon
<1>6. \A k \in 1..n : enc[s[k]] = EncodeWALRecord(c, s[k]) /\ Len(enc[s[k]]) >= 1
  <2> TAKE k \in 1..n
  <2>1. s[k] \in Records
    BY <1>3
  <2>2. enc[s[k]] = EncodeWALRecord(c, s[k])
    BY <2>1 DEF RecordCode
  <2>3. /\ Len(EncodeWALRecord(c, s[k])) = uvarintSize(payloadLen(s[k])) + payloadLen(s[k])
        /\ payloadLen(s[k]) \in 0..MaxInt /\ uvarintSize(payloadLen(s[k])) \in Nat
        /\ uvarintSize(payloadLen(s[k])) >= 1
    BY <2>1, EncodedRecord, LengthsFit DEF SizeIs
  <2> QED BY <2>2, <2>3
<1> HIDE DEF enc, e, u, J, n
<1>7. \A k \in 0..n : u(k) <= Len(e) /\ u(k) = Len(EncodeLog(c, SubSeq(s, 1, k)))
                     /\ At(e, 0, EncodeLog(c, SubSeq(s, 1, k)))
  <2> TAKE k \in 0..n
  <2>1. n \in 0..n /\ k <= n
    BY <1>1
  <2>2. u(k) <= u(n) /\ At(J(n), 0, J(k))
    BY <1>4, <2>1, Zenon
  <2>3. u(k) = Len(J(k))
    BY DEF u, J, LogEnd, Upto, enc
  <2> QED BY <1>2, <1>3, <1>5, <2>2, <2>3
<1>8. \A j, k \in 0..n : j < k => u(j) < u(k)
  <2> TAKE j, k \in 0..n
  <2>1. SUFFICES ASSUME j < k PROVE u(j) < u(k)
    OBVIOUS
  <2>2. k \in 1..n /\ k - 1 \in 0..n /\ j <= k - 1
    BY <1>1, <2>1
  <2>3. u(k) = u(k - 1) + Len(enc[s[k]]) /\ Len(enc[s[k]]) >= 1 /\ Len(enc[s[k]]) \in Nat
    BY <1>3, <1>6, <2>2
  <2>4. u(j) <= u(k - 1) /\ u(j) \in Nat /\ u(k - 1) \in Nat
    BY <1>3, <1>4, <2>2
  <2> QED BY <2>3, <2>4
<1>9. e \in Seq(Cells) /\ Len(e) \in Nat
  <2>1. e \in Seq(Cells)
    BY <1>1, JoinGrows, Zenon
  <2> QED BY <2>1
<1>10. \A k \in 1..n : /\ s[k] \in Records /\ Len(EncodeWALRecord(c, s[k])) \in Nat
                       /\ u(k) = u(k - 1) + Len(EncodeWALRecord(c, s[k]))
                       /\ At(e, u(k - 1), EncodeWALRecord(c, s[k]))
  BY <1>3, <1>4, <1>6
<1> QED BY <1>1, <1>3, <1>7, <1>8, <1>9, <1>10, Zenon DEF e, u, n

\* Every checksum in a segment ends a record, and covers what it holds.
LEMMA LogChecksums ==
    ASSUME NEW c \in Bytes, NEW s \in Seq(Records), NEW x \in 1..Len(EncodeLog(c, s)),
           EncodeLog(c, s)[x].of # << >>
    PROVE  /\ x >= Len(EncodeLog(c, s)[x].of) + 2
           /\ \E k \in 1..Len(s) : x = LogEnd(c, s, k) /\ EncodeLog(c, s)[x].of = Content(s[k])
<1> DEFINE e == EncodeLog(c, s)
           u(k) == LogEnd(c, s, k)
           enc == RecordCode(c)
<1>1. PICK k \in 1..Len(s) : x > u(k - 1) /\ x <= u(k)
  <2>1. enc \in [Records -> Seq(Cells)] /\ e = Join(s, enc)
    BY LogJoined
  <2>2. \A y \in 1..Len(Join(s, enc)) : \E k \in 1..Len(s) : y > Upto(s, enc, k - 1) /\ y <= Upto(s, enc, k)
    <3> HIDE DEF enc
    <3> QED BY <2>1, Joined, Zenon
  <2> QED BY <2>1, <2>2, Zenon DEF LogEnd
<1> DEFINE r == s[k]
           w == EncodeWALRecord(c, r)
           i == x - u(k - 1)
<1>2. /\ r \in Records /\ Len(w) \in Nat /\ u(k) = u(k - 1) + Len(w) /\ At(e, u(k - 1), w)
      /\ u(k - 1) \in Nat
  <2>1. k - 1 \in 0..Len(s)
    OBVIOUS
  <2>2. u(k - 1) \in Nat
    BY <2>1, LogLayout, Zenon
  <2>3. /\ r \in Records /\ Len(w) \in Nat /\ u(k) = u(k - 1) + Len(w) /\ At(e, u(k - 1), w)
    BY LogLayout, Zenon
  <2> QED BY <2>2, <2>3
<1>3. i \in 1..Len(w) /\ e[x] = w[i]
  <2>1. i \in 1..Len(w) /\ u(k - 1) + i = x
    <3> HIDE DEF u, w
    <3> QED BY <1>1, <1>2
  <2>2. e[u(k - 1) + i] = w[i]
    <3> HIDE DEF u, w, e, i
    <3> QED BY <1>2, <2>1 DEF At
  <2> QED BY <2>1, <2>2
<1>4. /\ w[Len(w)] = [byte |-> c, of |-> Content(r)]
      /\ \A j \in 1..(Len(w) - 1) : w[j].of = << >>
      /\ Len(w) = uvarintSize(payloadLen(r)) + payloadLen(r)
  BY <1>2, EncodedRecord
<1>5. e[x].of # << >>
  OBVIOUS
<1> HIDE DEF e, u, w
<1>6. i = Len(w)
  <2>1. i \in 1..(Len(w) - 1) \/ i = Len(w)
    <3> HIDE DEF i
    <3> QED BY <1>2, <1>3
  <2> HIDE DEF i
  <2> QED BY <1>3, <1>4, <1>5, <2>1
<1>7. x = u(k) /\ e[x].of = Content(r)
  <2>1. e[x].of = Content(r)
    <3> HIDE DEF i
    <3> QED BY <1>3, <1>4, <1>6
  <2> QED BY <1>2, <1>6, <2>1
<1>8. x >= Len(Content(r)) + 2
  <2>1. Len(Content(r)) = payloadLen(r) - 1 /\ uvarintSize(payloadLen(r)) >= 1
        /\ uvarintSize(payloadLen(r)) \in Nat /\ payloadLen(r) \in 0..MaxInt
    BY <1>2, ContentLayout, LengthsFit DEF SizeIs
  <2> DEFINE a == payloadLen(r)
             b == uvarintSize(payloadLen(r))
             m == Len(Content(r))
  <2>2. m = a - 1 /\ b >= 1 /\ b \in Nat /\ a \in Int /\ Len(w) = b + a
    BY <1>4, <2>1, Wrapping
  <2> HIDE DEF a, b, r
  <2> QED BY <1>2, <1>6, <2>2
<1> QED BY <1>7, <1>8 DEF e, u

\* Each checksum has the number of its record.
Labels(cells, recs, lab) ==
    \A x \in 1..Len(cells) : cells[x].of # << >> =>
        /\ lab[x] \in 1..Len(recs) /\ cells[x].of = Content(recs[lab[x]])
        /\ \A y \in 1..Len(cells) : y < x /\ cells[y].of # << >> => lab[y] < lab[x]

LEMMA LogLabels ==
    ASSUME NEW c \in Bytes, NEW s \in Seq(Records)
    PROVE  \E lab : Labels(EncodeLog(c, s), s, lab)
<1> DEFINE e == EncodeLog(c, s)
           u(k) == LogEnd(c, s, k)
           Ends(x, k) == x = u(k) /\ e[x].of = Content(s[k])
           lab == [x \in 1..Len(e) |-> CHOOSE k \in 1..Len(s) : Ends(x, k)]
<1>1. ASSUME NEW x \in 1..Len(e), e[x].of # << >>
      PROVE  lab[x] \in 1..Len(s) /\ x = u(lab[x]) /\ e[x].of = Content(s[lab[x]])
  <2>1. \E k \in 1..Len(s) : Ends(x, k)
    BY <1>1, LogChecksums, Zenon
  <2>2. lab[x] = CHOOSE k \in 1..Len(s) : Ends(x, k)
    <3> HIDE DEF Ends, e
    <3> QED OBVIOUS
  <2>3. lab[x] \in 1..Len(s) /\ Ends(x, lab[x])
    <3> HIDE DEF Ends, lab
    <3> QED BY <2>1, <2>2
  <2> HIDE DEF lab
  <2> QED BY <2>3
<1>2. \A j, k \in 0..Len(s) : u(j) \in Nat /\ (j < k => u(j) < u(k))
  BY LogLayout, Zenon
<1>3. Len(s) \in Nat /\ Len(e) \in Nat
  BY LogLayout, Zenon
<1> HIDE DEF u, lab
<1>4. ASSUME NEW x \in 1..Len(e), e[x].of # << >>, NEW y \in 1..Len(e), y < x, e[y].of # << >>
      PROVE  lab[y] < lab[x]
  <2> DEFINE i == lab[x]
             j == lab[y]
  <2>1. i \in 0..Len(s) /\ j \in 0..Len(s) /\ x = u(i) /\ y = u(j)
    BY <1>1, <1>3, <1>4
  <2>2. u(i) \in Nat /\ u(j) \in Nat /\ (i < j => u(i) < u(j)) /\ u(j) < u(i)
    BY <1>2, <1>4, <2>1
  <2>3. i # j /\ ~(i < j)
    <3> HIDE DEF i, j
    <3> QED BY <2>2
  <2> HIDE DEF i, j
  <2> QED BY <1>3, <2>1, <2>3 DEF i, j
<1>5. Labels(e, s, lab)
  BY <1>1, <1>4 DEF Labels
<1> QED BY <1>5

LEMMA LabelsKept ==
    ASSUME NEW whole, NEW recs, NEW lab, Labels(whole, recs, lab), NEW cells,
           \A x \in 1..Len(cells) : cells[x].of # << >> => x \in 1..Len(whole) /\ cells[x] = whole[x]
    PROVE  Labels(cells, recs, lab)
<1> SUFFICES ASSUME NEW x \in 1..Len(cells), cells[x].of # << >>
             PROVE  /\ lab[x] \in 1..Len(recs) /\ cells[x].of = Content(recs[lab[x]])
                    /\ \A y \in 1..Len(cells) : y < x /\ cells[y].of # << >> => lab[y] < lab[x]
  BY DEF Labels
<1>1. x \in 1..Len(whole) /\ cells[x] = whole[x]
  OBVIOUS
<1>2. /\ lab[x] \in 1..Len(recs) /\ whole[x].of = Content(recs[lab[x]])
      /\ \A y \in 1..Len(whole) : y < x /\ whole[y].of # << >> => lab[y] < lab[x]
  BY <1>1 DEF Labels
<1> QED BY <1>1, <1>2

LEMMA LabelsJoined ==
    ASSUME NEW a \in Seq(Cells), NEW b \in Seq(Cells), NEW s \in Seq(Records), NEW t \in Seq(Records),
           NEW la, NEW lb, Labels(a, s, la), Labels(b, t, lb)
    PROVE  \E lab : Labels(a \o b, s \o t, lab)
<1> DEFINE m == Len(a)
           n == Len(b)
           k == Len(s)
           l == Len(t)
           whole == a \o b
           recs == s \o t
           lab == [x \in 1..(m + n) |-> IF x <= m THEN la[x] ELSE k + lb[x - m]]
<1>1. /\ m \in Nat /\ n \in Nat /\ k \in Nat /\ l \in Nat
      /\ Len(whole) = m + n /\ Len(recs) = k + l
      /\ \A x \in 1..m : whole[x] = a[x]
      /\ \A x \in (m + 1)..(m + n) : whole[x] = b[x - m]
      /\ \A x \in 1..k : recs[x] = s[x]
      /\ \A x \in 1..l : recs[k + x] = t[x]
  <2>1. /\ Len(whole) = m + n /\ \A x \in 1..m : whole[x] = a[x]
        /\ \A x \in (m + 1)..(m + n) : whole[x] = b[x - m]
    OBVIOUS
  <2>2. Len(recs) = k + l /\ \A x \in 1..k : recs[x] = s[x]
    OBVIOUS
  <2>3. \A x \in 1..l : recs[k + x] = t[x]
    OBVIOUS
  <2> QED BY <2>1, <2>2, <2>3
<1> HIDE DEF whole, recs, m, n, k, l
<1>2. /\ \A x \in 1..m : lab[x] = la[x]
      /\ \A x \in (m + 1)..(m + n) : lab[x] = k + lb[x - m]
  BY <1>1
<1>3. \A x \in 1..m : a[x].of # << >> =>
        /\ la[x] \in 1..k /\ a[x].of = Content(s[la[x]])
        /\ \A y \in 1..m : y < x /\ a[y].of # << >> => la[y] < la[x]
  BY DEF Labels, m, k
<1>4. \A x \in 1..n : b[x].of # << >> =>
        /\ lb[x] \in 1..l /\ b[x].of = Content(t[lb[x]])
        /\ \A y \in 1..n : y < x /\ b[y].of # << >> => lb[y] < lb[x]
  BY DEF Labels, n, l
<1> HIDE DEF lab
<1>5. ASSUME NEW x \in 1..(m + n), whole[x].of # << >>
      PROVE  /\ lab[x] \in 1..(k + l) /\ whole[x].of = Content(recs[lab[x]])
             /\ \A y \in 1..(m + n) : y < x /\ whole[y].of # << >> => lab[y] < lab[x]
  <2>1. CASE x <= m
    <3>1. x \in 1..m
      BY <1>1, <2>1
    <3>2. whole[x] = a[x] /\ lab[x] = la[x] /\ la[x] \in 1..k /\ a[x].of = Content(s[la[x]])
      BY <1>1, <1>2, <1>3, <1>5, <3>1
    <3>3. \A y \in 1..(m + n) : y < x => y \in 1..m
      BY <1>1, <3>1
    <3>4. \A y \in 1..(m + n) : y < x /\ whole[y].of # << >> => lab[y] < lab[x]
      BY <1>1, <1>2, <1>3, <1>5, <3>1, <3>2, <3>3
    <3>5. la[x] \in 1..(k + l)
      BY <1>1, <3>2
    <3> QED BY <1>1, <3>2, <3>4, <3>5
  <2>2. CASE ~(x <= m)
    <3> DEFINE z == x - m
    <3>1. x \in (m + 1)..(m + n) /\ z \in 1..n
      BY <1>1, <2>2
    <3>2. whole[x] = b[z] /\ lab[x] = k + lb[z] /\ lb[z] \in 1..l /\ b[z].of = Content(t[lb[z]])
      <4>1. whole[x] = b[z] /\ lab[x] = k + lb[z]
        BY <1>1, <1>2, <3>1
      <4> HIDE DEF z
      <4> QED BY <1>4, <1>5, <3>1, <4>1
    <3>3. recs[k + lb[z]] = t[lb[z]] /\ k + lb[z] \in 1..(k + l) /\ k + lb[z] > k
      <4> DEFINE w == lb[z]
      <4>1. w \in 1..l
        BY <3>2
      <4>2. recs[k + w] = t[w] /\ k + w \in 1..(k + l) /\ k + w > k
        <5> HIDE DEF w, z
        <5> QED BY <1>1, <4>1
      <4> HIDE DEF z
      <4> QED BY <4>2
    <3>4. ASSUME NEW y \in 1..(m + n), y < x, whole[y].of # << >> PROVE lab[y] < lab[x]
      <4>1. CASE y <= m
        <5>1. y \in 1..m
          BY <1>1, <4>1
        <5>2. lab[y] = la[y] /\ la[y] \in 1..k
          BY <1>1, <1>2, <1>3, <3>4, <5>1
        <5> HIDE DEF z
        <5> QED BY <1>1, <3>2, <3>3, <5>2, SMTT(30)
      <4>2. CASE ~(y <= m)
        <5> DEFINE v == y - m
        <5>1. y \in (m + 1)..(m + n) /\ v \in 1..n /\ v < z
          BY <1>1, <3>4, <4>2
        <5>2. lab[y] = k + lb[v] /\ whole[y] = b[v]
          BY <1>1, <1>2, <5>1
        <5> HIDE DEF v, z
        <5>3. lb[v] \in 1..l /\ lb[v] < lb[z]
          BY <1>4, <1>5, <3>1, <3>2, <3>4, <5>1, <5>2
        <5>4. k + lb[v] < k + lb[z]
          <6> DEFINE d == lb[v]
                     w == lb[z]
          <6>1. k \in Nat /\ d \in 1..l /\ w \in 1..l /\ d < w /\ l \in Nat
            BY <1>1, <3>2, <5>3
          <6> HIDE DEF d, w
          <6>2. k + d < k + w
            BY <6>1
          <6> QED BY <6>2 DEF d, w
        <5> QED BY <3>2, <5>2, <5>4, Zenon
      <4> QED BY <4>1, <4>2
    <3> HIDE DEF z
    <3> QED BY <1>1, <3>2, <3>3, <3>4
  <2> QED BY <2>1, <2>2
<1>6. Labels(whole, recs, lab)
  BY <1>1, <1>5 DEF Labels
<1> QED BY <1>6 DEF whole, recs

\* What CodecInit makes of a segment, and no step changes.
StaticLog ==
    /\ crc \in Bytes /\ file \in Seq(Cells)
    /\ written \in Seq(Records) /\ fault.after \in Seq(Records)
    /\ fault.sound \in Nat /\ fault.sound <= Len(file)
    /\ fault.sound <= Len(EncodeLog(crc, written))
    /\ \A i \in 1..fault.sound : file[i] = EncodeLog(crc, written)[i]
    /\ \E lab : Labels(file, written \o fault.after, lab)
    /\ fault.kind = "cut" =>
         file = SubSeq(EncodeLog(crc, written), 1, fault.sound) \o EncodeLog(crc, fault.after)

\* Cells that are those of whole, up to some place, and behind it bytes.
LEMMA OneFault ==
    ASSUME NEW whole, whole = EncodeLog(crc, written), crc \in Bytes, written \in Seq(Records),
           fault.after = << >>, fault.kind # "cut",
           fault.sound \in Nat, fault.sound <= Len(file), fault.sound <= Len(whole),
           file \in Seq(Cells), \A i \in 1..fault.sound : file[i] = whole[i],
           \A x \in 1..Len(file) : file[x].of # << >> => x \in 1..Len(whole) /\ file[x] = whole[x]
    PROVE  StaticLog
<1>1. << >> \in Seq(Records) /\ written \o << >> = written
  OBVIOUS
<1>2. PICK lab : Labels(whole, written, lab)
  BY LogLabels
<1>3. Labels(file, written, lab)
  BY <1>2, LabelsKept
<1> QED BY <1>1, <1>3 DEF StaticLog

LEMMA InitStatic == CodecInit /\ format = "log" => StaticLog
<1> SUFFICES ASSUME CodecInit, format = "log" PROVE StaticLog
  OBVIOUS
<1> DEFINE whole == EncodeLog(crc, written)
<1>1. crc \in Bytes /\ written \in Logs /\ (Cut(whole) \/ Damaged(whole) \/ Zeroed(whole) \/ Garbage(whole))
  BY CodecConstants DEF CodecInit
<1>2. written \in Seq(Records) /\ Later \subseteq Seq(Records)
  BY <1>1, CodecConstants
<1>3. whole \in Seq(Cells) /\ Len(whole) \in Nat
  BY <1>1, <1>2, LogLayout
<1>b. \A b \in Bytes : Byte(b) \in Cells /\ Byte(b).of = << >>
  BY BytePlain, PlainIsCell, OfPlain
<1> HIDE DEF whole
<1>4. CASE Cut(whole)
  <2>1. PICK n \in 0..Len(whole), s \in Later :
            /\ fault = [kind |-> "cut", sound |-> n, after |-> s]
            /\ file = SubSeq(whole, 1, n) \o EncodeLog(crc, s)
    BY <1>4 DEF Cut
  <2> DEFINE a == SubSeq(whole, 1, n)
             b == EncodeLog(crc, s)
  <2>2. a \in Seq(Cells) /\ Len(a) = n /\ n \in Nat /\ n <= Len(whole) /\ \A i \in 1..n : a[i] = whole[i]
    BY <1>3
  <2>3. s \in Seq(Records) /\ b \in Seq(Cells)
    BY <1>1, <1>2, LogLayout
  <2>4. PICK lw : Labels(whole, written, lw)
    BY <1>1, <1>2, LogLabels DEF whole
  <2>5. PICK lb : Labels(b, s, lb)
    BY <1>1, <2>3, LogLabels
  <2> HIDE DEF a, b
  <2>6. Labels(a, written, lw)
    <3>1. \A x \in 1..Len(a) : x \in 1..Len(whole) /\ a[x] = whole[x]
      BY <1>3, <2>2
    <3> QED BY <2>4, <3>1, LabelsKept
  <2>7. \E lab : Labels(a \o b, written \o s, lab)
    BY <1>2, <2>2, <2>3, <2>5, <2>6, LabelsJoined
  <2>8. a \o b \in Seq(Cells) /\ n <= Len(a \o b) /\ \A i \in 1..n : (a \o b)[i] = a[i]
    BY <2>2, <2>3
  <2>9. file = a \o b /\ fault.sound = n /\ fault.after = s
    BY <2>1 DEF a, b
  <2> QED BY <1>1, <1>2, <2>2, <2>3, <2>7, <2>8, <2>9 DEF StaticLog, whole, a, b
<1>5. CASE Damaged(whole)
  <2>1. PICK i \in DOMAIN whole, b \in Bytes :
            /\ fault = [kind |-> "damaged", sound |-> i - 1, after |-> << >>]
            /\ file = [whole EXCEPT ![i] = Byte(b)]
    BY <1>5 DEF Damaged
  <2>2. /\ file \in Seq(Cells) /\ Len(file) = Len(whole) /\ i \in 1..Len(whole)
        /\ file[i] = Byte(b) /\ \A x \in 1..Len(whole) : x # i => file[x] = whole[x]
    BY <1>3, <1>b, <2>1
  <2>3. /\ fault.sound = i - 1 /\ fault.after = << >> /\ fault.kind # "cut"
    BY <2>1
  <2>4. i - 1 \in Nat /\ i - 1 <= Len(file) /\ i - 1 <= Len(whole) /\ \A x \in 1..(i - 1) : file[x] = whole[x]
    BY <1>3, <2>2
  <2>5. \A x \in 1..Len(file) : file[x].of # << >> => x \in 1..Len(whole) /\ file[x] = whole[x]
    BY <1>b, <2>2
  <2> QED BY <1>1, <1>2, <2>2, <2>3, <2>4, <2>5, OneFault DEF whole
<1>6. CASE Zeroed(whole)
  <2>1. PICK n \in 0..Len(whole) :
            /\ fault = [kind |-> "zeroed", sound |-> n, after |-> << >>]
            /\ file = [i \in DOMAIN whole |-> IF i <= n THEN whole[i] ELSE Byte(0)]
    BY <1>6 DEF Zeroed
  <2>2. 0 \in Bytes
    BY Sizes DEF Bytes
  <2>3. /\ file \in Seq(Cells) /\ Len(file) = Len(whole)
        /\ \A x \in 1..Len(whole) : file[x] = IF x <= n THEN whole[x] ELSE Byte(0)
    BY <1>3, <1>b, <2>1, <2>2
  <2>4. /\ fault.sound = n /\ fault.after = << >> /\ fault.kind # "cut"
    BY <2>1
  <2>5. n \in Nat /\ n <= Len(file) /\ n <= Len(whole) /\ \A x \in 1..n : file[x] = whole[x]
    BY <1>3, <2>3
  <2>6. \A x \in 1..Len(file) : file[x].of # << >> => x \in 1..Len(whole) /\ file[x] = whole[x]
    BY <1>b, <2>2, <2>3
  <2> QED BY <1>1, <1>2, <2>3, <2>4, <2>5, <2>6, OneFault DEF whole
<1>7. CASE Garbage(whole)
  <2>1. PICK g \in Tails :
            /\ fault = [kind |-> "garbage", sound |-> Len(whole), after |-> << >>]
            /\ file = whole \o Word(g)
    BY <1>7 DEF Garbage
  <2>2. Word(g) \in Seq(Plain) /\ Word(g) \in Seq(Cells)
    BY CodecConstants, WordPlain, PlainIsCell
  <2> DEFINE w == Word(g)
  <2>3. \A x \in 1..Len(w) : w[x].of = << >>
    <3>1. \A x \in 1..Len(w) : w[x] \in Plain
      BY <2>2
    <3> QED BY <3>1, OfPlain
  <2> HIDE DEF w
  <2>4. /\ whole \o w \in Seq(Cells) /\ Len(whole \o w) = Len(whole) + Len(w) /\ Len(w) \in Nat
        /\ \A x \in 1..Len(whole) : (whole \o w)[x] = whole[x]
        /\ \A x \in (Len(whole) + 1)..(Len(whole) + Len(w)) : (whole \o w)[x] = w[x - Len(whole)]
    BY <1>3, <2>2 DEF w
  <2>5. fault.sound = Len(whole) /\ fault.after = << >> /\ fault.kind # "cut" /\ file = whole \o w
    BY <2>1 DEF w
  <2>6. ASSUME NEW x \in 1..Len(file), file[x].of # << >> PROVE x \in 1..Len(whole) /\ file[x] = whole[x]
    <3>1. CASE x <= Len(whole)
      BY <1>3, <2>4, <2>5, <3>1
    <3>2. CASE ~(x <= Len(whole))
      <4>1. x \in (Len(whole) + 1)..(Len(whole) + Len(w)) /\ x - Len(whole) \in 1..Len(w)
        BY <1>3, <2>4, <2>5, <3>2
      <4> QED BY <2>3, <2>4, <2>5, <2>6, <4>1
    <3> QED BY <3>1, <3>2
  <2>7. Len(whole) <= Len(file)
    BY <1>3, <2>4, <2>5
  <2> QED BY <1>1, <1>2, <1>3, <2>4, <2>5, <2>6, <2>7, OneFault DEF whole
<1> QED BY <1>1, <1>4, <1>5, <1>6, <1>7

\* Where the fault lies.
LEMMA BeforeIs ==
    ASSUME StaticLog
    PROVE  /\ Before \in 0..Len(written) /\ Len(written) \in Nat
           /\ Prefix(Before) \in Seq(Records) /\ Len(Prefix(Before)) = Before
           /\ \A k \in 1..Before : Prefix(Before)[k] = written[k]
           /\ Len(EncodeLog(crc, Prefix(Before))) = LogEnd(crc, written, Before)
           /\ LogEnd(crc, written, Before) \in Nat
           /\ LogEnd(crc, written, Before) <= fault.sound
           /\ Before < Len(written) => fault.sound < LogEnd(crc, written, Before + 1)
           /\ Torn <=> LogEnd(crc, written, Before) < fault.sound
           /\ Torn => Before + 1 \in 1..Len(written)
           /\ At(file, 0, EncodeLog(crc, Prefix(Before)))
<1> DEFINE u(k) == LogEnd(crc, written, k)
           whole == EncodeLog(crc, written)
           N == Len(written)
           M == {0} \cup {k \in DOMAIN written : Len(EncodeLog(crc, Prefix(k))) <= fault.sound}
           b == Before
<1>1. /\ crc \in Bytes /\ written \in Seq(Records) /\ fault.sound \in Nat
      /\ fault.sound <= Len(file) /\ file \in Seq(Cells) /\ fault.sound <= Len(whole)
      /\ \A i \in 1..fault.sound : file[i] = whole[i]
  BY DEF StaticLog
<1>2. /\ u(0) = 0 /\ N \in Nat /\ u(N) = Len(whole) /\ whole \in Seq(Cells)
      /\ \A k \in 0..N : u(k) \in Nat /\ u(k) = Len(EncodeLog(crc, Prefix(k))) /\ At(whole, 0, EncodeLog(crc, Prefix(k)))
  BY <1>1, LogLayout, Zenon DEF Prefix
<1>3. DOMAIN written = 1..N
  BY <1>1
<1>4. b = Max(M)
  BY DEF Before
<1>5. M \in SUBSET Nat /\ M # {} /\ IsFiniteSet(M) /\ M \subseteq 0..N
  <2>1. M \subseteq 0..N /\ M \in SUBSET Nat
    <3> HIDE DEF N
    <3> QED BY <1>2, <1>3
  <2>2. IsFiniteSet(0..N)
    BY <1>2, FS_Interval
  <2>3. 0 \in M
    OBVIOUS
  <2> HIDE DEF M
  <2> QED BY <2>1, <2>2, <2>3, FS_Subset
<1>6. b \in M /\ \A k \in M : k <= b
  <2>1. Max(M) \in M /\ \A k \in M : Max(M) >= k
    <3> HIDE DEF M, N
    <3> QED BY <1>2, <1>5, MaxIn
  <2>2. \A k \in M : Max(M) \in Nat /\ k \in Nat
    BY <1>5, <2>1
  <2> HIDE DEF M, b
  <2> QED BY <1>4, <2>1, <2>2
<1> HIDE DEF b, u, N, whole
<1>7. b \in 0..N /\ u(b) \in Nat /\ u(b) <= fault.sound
  <2>1. b \in 0..N
    BY <1>5, <1>6
  <2> QED BY <1>1, <1>2, <1>6, <2>1
<1>8. ASSUME b < N PROVE b + 1 \in 1..N /\ fault.sound < u(b + 1)
  <2>1. b + 1 \in 1..N /\ b + 1 \in 0..N /\ ~(b + 1 <= b)
    BY <1>2, <1>7, <1>8
  <2>2. ~(Len(EncodeLog(crc, Prefix(b + 1))) <= fault.sound)
    BY <1>3, <1>6, <2>1
  <2> QED BY <1>1, <1>2, <2>1, <2>2
<1>9. /\ Prefix(b) \in Seq(Records) /\ Len(Prefix(b)) = b
      /\ \A k \in 1..b : Prefix(b)[k] = written[k]
  BY <1>1, <1>7, FirstOf DEF Prefix, N
<1>10. Torn <=> u(b) < fault.sound
  BY <1>2, <1>7 DEF Torn, b
<1>11. b = N => ~(u(b) < fault.sound)
  BY <1>1, <1>2, <1>7
<1>12. At(file, 0, EncodeLog(crc, Prefix(b)))
  <2> DEFINE p == EncodeLog(crc, Prefix(b))
  <2>1. Len(p) = u(b) /\ At(whole, 0, p)
    BY <1>2, <1>7
  <2>2. \A i \in 1..u(b) : i \in 1..fault.sound /\ 0 + i = i
    BY <1>1, <1>7
  <2>3. Len(file) \in Nat /\ 0 + u(b) <= Len(file)
    BY <1>1, <1>7
  <2> HIDE DEF p
  <2>4. \A i \in 1..u(b) : whole[0 + i] = p[i]
    BY <2>1 DEF At
  <2>5. \A i \in 1..u(b) : file[0 + i] = p[i]
    BY <1>1, <2>2, <2>4
  <2>6. At(file, 0, p)
    BY <2>1, <2>3, <2>5 DEF At
  <2> QED BY <2>6 DEF p
<1>13. b < N \/ b = N
  BY <1>2, <1>7
<1> QED BY <1>2, <1>7, <1>8, <1>9, <1>10, <1>11, <1>12, <1>13 DEF b, u, N

-----------------------------------------------------------------------------
(* Reading a segment *)

\* What is left of the file.
Left == SubSeq(file, off + 1, Len(file))

LEMMA LeftIs ==
    ASSUME file \in Seq(Cells), off \in Nat, off < Len(file)
    PROVE  /\ Left \in Seq(Cells) /\ Len(Left) = Len(file) - off /\ Len(file) \in Nat
           /\ \A i \in 1..(Len(file) - off) : Left[i] = file[off + i] /\ off + i \in 1..Len(file)
<1>1. /\ Left \in Seq(Cells) /\ Len(Left) = Len(file) - off /\ Len(file) \in Nat
      /\ \A i \in 1..(Len(file) - off) : Left[i] = file[(off + 1) + i - 1]
  BY DEF Left
<1>2. \A i \in 1..(Len(file) - off) : (off + 1) + i - 1 = off + i /\ off + i \in 1..Len(file)
  BY <1>1
<1> QED BY <1>1, <1>2

\* A whole record that lies ahead is read.
LEMMA NextRecord ==
    ASSUME file \in Seq(Cells), off \in Nat, crc \in Bytes, NEW r \in Records,
           At(file, off, EncodeWALRecord(crc, r))
    PROVE  /\ DecodeWALRecord(Left) = [how |-> "ok", rec |-> r]
           /\ Consumed(Left) = Len(EncodeWALRecord(crc, r))
           /\ Len(EncodeWALRecord(crc, r)) \in Nat /\ Len(EncodeWALRecord(crc, r)) > 0
           /\ off < Len(file)
<1> DEFINE e == EncodeWALRecord(crc, r)
<1>1. e \in Seq(Cells) /\ Len(e) \in Nat /\ Len(e) > 0
  <2>1. /\ Len(e) = uvarintSize(payloadLen(r)) + payloadLen(r)
        /\ payloadLen(r) \in 0..MaxInt /\ uvarintSize(payloadLen(r)) \in Nat
        /\ uvarintSize(payloadLen(r)) >= 1 /\ e \in Seq(Cells)
    BY EncodedRecord, LengthsFit DEF SizeIs
  <2> HIDE DEF e
  <2> QED BY <2>1
<1> HIDE DEF e
<1>2. off + Len(e) <= Len(file) /\ Len(file) \in Nat
  BY DEF At, e
<1>3. Left \in Seq(Cells)
  BY <1>1, <1>2, LeftIs
<1>4. At(Left, 0, e)
  <2>1. off \in 0..off /\ off - off = 0
    OBVIOUS
  <2>2. At(SubSeq(file, off + 1, Len(file)), off - off, e)
    BY <1>1, <2>1, AtTail DEF e
  <2> QED BY <2>1, <2>2 DEF Left
<1>5. DecodeWALRecord(Left) = [how |-> "ok", rec |-> r] /\ Consumed(Left) = Len(e)
  BY <1>3, <1>4, WholeRecord DEF e
<1> QED BY <1>1, <1>2, <1>5 DEF e

LEMMA Shifted ==
    ASSUME NEW i \in Nat, NEW j \in Nat, NEW n \in Nat, NEW x \in Int, x > j, x <= j + n
    PROVE  /\ x - j \in 1..n /\ (i + x) - (i + j) = x - j
           /\ i + x \in ((i + j) + 1)..((i + j) + n)
OBVIOUS

\* At the tear nothing is read, unless what was appended completes the length.
LEMMA StopsAtTear ==
    ASSUME StaticLog, fault.kind = "cut", Torn, ~(LengthTorn /\ fault.after # << >>),
           off = LogEnd(crc, written, Before)
    PROVE  /\ off < Len(file)
           /\ DecodeWALRecord(Left).how # "ok"
           /\ fault.after = << >> => DecodeWALRecord(Left) = Bad
<1> DEFINE b == Before
           u(k) == LogEnd(crc, written, k)
           r == written[b + 1]
           e == EncodeWALRecord(crc, r)
           whole == EncodeLog(crc, written)
           snd == fault.sound
           a == SubSeq(whole, 1, snd)
           z == EncodeLog(crc, fault.after)
           j == snd - off
<1>1. /\ crc \in Bytes /\ written \in Seq(Records) /\ snd \in Nat
      /\ snd <= Len(file) /\ file \in Seq(Cells) /\ snd <= Len(whole)
      /\ \A i \in 1..snd : file[i] = whole[i]
      /\ fault.after \in Seq(Records) /\ file = a \o z
  BY DEF StaticLog
<1>2. /\ b \in 0..Len(written) /\ u(b) \in Nat /\ off = u(b) /\ u(b) < snd
      /\ b + 1 \in 1..Len(written) /\ snd < u(b + 1)
  <2>1. /\ b \in 0..Len(written) /\ u(b) \in Nat /\ off = u(b) /\ u(b) < snd
        /\ b + 1 \in 1..Len(written) /\ (b < Len(written) => snd < u(b + 1)) /\ Len(written) \in Nat
    BY BeforeIs
  <2>2. b < Len(written)
    <3> HIDE DEF b
    <3> QED BY <2>1
  <2> QED BY <2>1, <2>2
<1>3. r \in Records /\ Len(e) \in Nat /\ u(b + 1) = u(b) + Len(e) /\ At(whole, u(b), e)
  <2>1. /\ r \in Records /\ Len(e) \in Nat /\ u(b + 1) = u((b + 1) - 1) + Len(e) /\ At(whole, u((b + 1) - 1), e)
    <3> HIDE DEF b
    <3> QED BY <1>1, <1>2, LogLayout, Zenon
  <2>2. (b + 1) - 1 = b
    <3> HIDE DEF b
    <3> QED BY <1>2
  <2> QED BY <2>1, <2>2
<1>4. /\ Len(e) = uvarintSize(payloadLen(r)) + payloadLen(r) /\ At(e, 0, PutUvarint(payloadLen(r)))
      /\ \A i \in 1..(Len(e) - 1) : e[i].of = << >>
      /\ PutUvarint(payloadLen(r)) \in Seq(Plain) /\ Len(PutUvarint(payloadLen(r))) = uvarintSize(payloadLen(r))
      /\ uvarintSize(payloadLen(r)) \in Nat /\ payloadLen(r) \in 0..MaxInt
  BY <1>1, <1>3, EncodedRecord, LengthsFit DEF SizeIs
<1> DEFINE m == uvarintSize(payloadLen(r))
<1>5. ~(LengthTorn /\ fault.after # << >>) /\ (LengthTorn <=> snd < u(b) + m)
  <2>1. LengthTorn <=> Torn /\ snd < Len(EncodeLog(crc, Prefix(Before))) + Len(PutUvarint(payloadLen(written[Before + 1])))
    BY DEF LengthTorn
  <2>2. Len(EncodeLog(crc, Prefix(Before))) = u(b)
    BY BeforeIs
  <2> QED BY <1>4, <2>1, <2>2
<1> HIDE DEF b, u, r, e, whole, snd, a, z, j, m
<1>6. j \in Nat /\ j >= 1 /\ j < Len(e) /\ snd = off + j /\ off \in Nat
  BY <1>1, <1>2, <1>3, SMTT(30) DEF j
<1>7. /\ Left \in Seq(Cells) /\ Len(Left) = Len(file) - off /\ off < Len(file) /\ Len(file) \in Nat
      /\ \A i \in 1..(Len(file) - off) : Left[i] = file[off + i]
  <2>1. off < Len(file)
    BY <1>1, <1>6
  <2> QED BY <1>1, <1>6, <2>1, LeftIs
<1>8. \A i \in 1..j : i \in 1..(Len(file) - off) /\ off + i \in 1..snd /\ i \in 1..Len(e) /\ u(b) + i = off + i
  <2> DEFINE n == Len(e)
             f == Len(file)
             v == u(b)
  <2>1. n \in Nat /\ f \in Nat /\ snd \in Nat /\ snd <= f /\ j \in Nat /\ j < n /\ snd = off + j /\ off \in Nat /\ v = off
    BY <1>1, <1>2, <1>3, <1>6, <1>7
  <2> HIDE DEF n, f, v
  <2>2. \A i \in 1..j : i \in 1..(f - off) /\ off + i \in 1..snd /\ i \in 1..n /\ v + i = off + i
    BY <2>1
  <2> QED BY <2>2 DEF n, f, v
<1>9. \A i \in 1..j : Left[i] = e[i]
  <2> TAKE i \in 1..j
  <2>1. Left[i] = file[off + i] /\ file[off + i] = whole[off + i]
    BY <1>1, <1>7, <1>8
  <2>2. whole[u(b) + i] = e[i]
    BY <1>3, <1>8 DEF At
  <2> QED BY <1>8, <2>1, <2>2
<1>10. CASE fault.after = << >>
  <2>1. z = << >>
    <3>1. << >> \in Seq(Records)
      OBVIOUS
    <3>2. EncodeLog(crc, << >>) = Join(<< >>, RecordCode(crc)) /\ RecordCode(crc) \in [Records -> Seq(Cells)]
      BY <1>1, <3>1, LogJoined
    <3>3. Join(<< >>, RecordCode(crc)) = << >>
      BY <3>1, <3>2, JoinGrows, Zenon
    <3> QED BY <1>10, <3>2, <3>3 DEF z
  <2>2. Len(file) = snd
    <3>1. whole \in Seq(Cells)
      BY <1>1, LogLayout DEF whole
    <3>2. Len(a) = snd /\ a \in Seq(Cells)
      BY <1>1, <3>1 DEF a
    <3>3. file = a
      BY <1>1, <2>1, <3>2
    <3> QED BY <3>2, <3>3
  <2>3. Len(Left) = j
    BY <1>6, <1>7, <2>2
  <2>4. StartsWith(e, Left) /\ Len(Left) < Len(e)
    BY <1>3, <1>6, <1>9, <2>3 DEF StartsWith
  <2>5. DecodeWALRecord(Left) = Bad
    BY <1>1, <1>3, <1>7, <2>4, CutRecord DEF e
  <2> QED BY <1>7, <2>5 DEF Bad
<1>11. CASE fault.after # << >>
  <2>1. m <= j
    BY <1>1, <1>2, <1>4, <1>5, <1>6, <1>11, SMTT(30) DEF m
  <2> SUFFICES ASSUME DecodeWALRecord(Left).how = "ok" PROVE FALSE
    BY <1>7, <1>11
  <2>2. Uvarint(Left).n = m
    <3>1. \A i \in 1..m : i \in 1..j
      BY <1>4, <1>6, <2>1 DEF m
    <3>2. \A i \in 1..m : e[i] = PutUvarint(payloadLen(r))[i]
      BY <1>4 DEF At, m
    <3>3. Len(PutUvarint(payloadLen(r))) = m /\ m <= Len(Left)
      BY <1>1, <1>4, <1>6, <1>7, <2>1, SMTT(30) DEF m
    <3>4. StartsWith(Left, PutUvarint(payloadLen(r)))
      BY <1>9, <3>1, <3>2, <3>3 DEF StartsWith
    <3> QED BY <1>3, <1>7, <3>4, LengthRead DEF m
  <2>3. PICK x \in 1..Consumed(Left) :
           Left[x].of # << >> /\ x = Uvarint(Left).n + Len(Left[x].of) + 1
    BY <1>7, DecodeSound
  <2>4. x \in 1..Len(Left)
    <3>1. Consumed(Left) \in Nat /\ Consumed(Left) <= Len(Left)
      BY <1>7, DecodeSound
    <3> QED BY <1>7, <3>1
  <2> DEFINE y == x - j
             s == Left[x].of
  <2>5. x > j
    <3>1. ASSUME x \in 1..j PROVE FALSE
      <4>1. x \in 1..(Len(e) - 1)
        BY <1>3, <1>6, <3>1
      <4> QED BY <1>4, <1>9, <2>3, <3>1, <4>1
    <3> QED BY <1>6, <2>4, <3>1
  <2>6. whole \in Seq(Cells) /\ z \in Seq(Cells) /\ a \in Seq(Cells) /\ Len(a) = snd
    <3>1. whole \in Seq(Cells) /\ z \in Seq(Cells)
      BY <1>1, LogLayout DEF whole, z
    <3> QED BY <1>1, <3>1 DEF a
  <2>7. Len(file) = snd + Len(z) /\ Len(z) \in Nat
        /\ \A i \in (snd + 1)..(snd + Len(z)) : file[i] = z[i - snd]
    BY <1>1, <2>6
  <2>8. y \in 1..Len(z) /\ Left[x] = z[y]
    <3>1. y \in 1..Len(z) /\ x \in 1..(Len(file) - off)
          /\ off + x \in (snd + 1)..(snd + Len(z)) /\ (off + x) - snd = y
      <4> DEFINE n == Len(z)
                 f == Len(file)
      <4>1. /\ n \in Nat /\ f = snd + n /\ snd = off + j /\ off \in Nat /\ j \in Nat
            /\ x \in 1..(f - off) /\ x > j
        BY <1>6, <1>7, <2>4, <2>5, <2>7
      <4> HIDE DEF n, f, s
      <4>3. x \in Int /\ x <= j + n /\ snd \in Int
        BY <4>1, SMTT(30)
      <4>4. /\ x - j \in 1..n /\ (off + x) - (off + j) = x - j
            /\ off + x \in ((off + j) + 1)..((off + j) + n)
        <5>1. off \in Nat
          BY <4>1
        <5>2. j \in Nat
          BY <4>1
        <5>3. n \in Nat
          BY <4>1
        <5>4. x \in Int
          BY <4>3
        <5>5. x > j
          BY <4>1
        <5>6. x <= j + n
          BY <4>3
        <5>7. \A i, k, q, w : i \in Nat /\ k \in Nat /\ q \in Nat /\ w \in Int /\ w > k /\ w <= k + q =>
                /\ w - k \in 1..q /\ (i + w) - (i + k) = w - k
                /\ i + w \in ((i + k) + 1)..((i + k) + q)
          BY Shifted
        <5> QED BY <5>1, <5>2, <5>3, <5>4, <5>5, <5>6, <5>7
      <4>5. snd = off + j
        BY <4>1
      <4>6. y \in 1..n /\ off + x \in (snd + 1)..(snd + n) /\ (off + x) - snd = y
        BY <4>4, <4>5, Zenon
      <4>2. y \in 1..n /\ x \in 1..(f - off) /\ off + x \in (snd + 1)..(snd + n) /\ (off + x) - snd = y
        BY <4>1, <4>6, Zenon
      <4> HIDE DEF y
      <4> QED BY <4>2 DEF n, f
    <3> HIDE DEF y
    <3> QED BY <1>7, <2>7, <3>1
  <2>9. y >= Len(s) + 2
    <3>1. crc \in Bytes /\ fault.after \in Seq(Records)
      BY <1>1
    <3>2. y \in 1..Len(z) /\ z[y].of # << >> /\ z[y].of = s
      <4> HIDE DEF y, z
      <4> QED BY <2>3, <2>8, Zenon
    <3> HIDE DEF y
    <3>3. y >= Len(z[y].of) + 2
      BY <3>1, <3>2, LogChecksums, Zenon DEF z
    <3> HIDE DEF s, z
    <3> QED BY <3>2, <3>3, Zenon
  <2>10. Len(s) \in Nat
    <3>1. Left[x] \in Cells
      BY <1>7, <2>4
    <3> QED BY <3>1, OfCell
  <2>11. x = m + Len(s) + 1
    BY <2>2, <2>3
  <2> HIDE DEF s
  <2> QED BY <1>4, <1>6, <2>1, <2>9, <2>10, <2>11, SMTT(30) DEF m
<1> QED BY <1>10, <1>11

\* What has been read, if the file starts with the records g.
Reads(g) ==
    /\ Len(got) <= Len(g) => got = SubSeq(g, 1, Len(got)) /\ off = LogEnd(crc, g, Len(got))
    /\ Len(got) > Len(g) => SubSeq(got, 1, Len(g)) = g /\ Len(EncodeLog(crc, g)) < Len(file)
    /\ status # "reading" => Len(got) >= Len(g)
    /\ status = "panic" => Len(EncodeLog(crc, g)) < Len(file)

ReadsAhead == \A g \in Seq(Records) : At(file, 0, EncodeLog(crc, g)) => Reads(g)

\* The numbers of the records read, and that none before the last is ahead.
Taken(lab, at) ==
    /\ \A i \in 1..Len(got) : at[i] \in 1..Len(written \o fault.after)
                              /\ got[i] = (written \o fault.after)[at[i]]
    /\ \A i, j \in 1..Len(got) : i < j => at[i] < at[j]
    /\ \A x \in 1..Len(file) : x > off /\ file[x].of # << >> =>
          \A i \in 1..Len(got) : at[i] < lab[x]

InOrder == \E lab, at : Labels(file, written \o fault.after, lab) /\ Taken(lab, at)

TornStops ==
    fault.kind = "cut" /\ Torn /\ ~(LengthTorn /\ fault.after # << >>) =>
        Len(got) <= Before /\ (status = "panic" => fault.after # << >>)

LogInv ==
    format = "log" =>
        /\ StaticLog
        /\ got \in Seq(Records) /\ off \in Nat /\ off <= Len(file)
        /\ status \in {"reading", "done", "panic"}
        /\ ReadsAhead /\ InOrder /\ TornStops

LEMMA LogInit == CodecInit => LogInv
<1> SUFFICES ASSUME CodecInit, format = "log" PROVE LogInv
  BY DEF LogInv
<1>1. StaticLog
  BY InitStatic
<1>2. off = 0 /\ got = << >> /\ status = "reading"
  BY DEF CodecInit
<1>3. got \in Seq(Records) /\ Len(got) = 0 /\ Len(file) \in Nat
  BY <1>1, <1>2 DEF StaticLog
<1>4. ReadsAhead
  <2> SUFFICES ASSUME NEW g \in Seq(Records) PROVE Reads(g)
    BY DEF ReadsAhead
  <2>1. crc \in Bytes
    BY <1>1 DEF StaticLog
  <2>2. LogEnd(crc, g, 0) = 0 /\ Len(g) \in Nat
    BY <2>1, LogLayout, Zenon
  <2>3. SubSeq(g, 1, 0) = << >>
    OBVIOUS
  <2> QED BY <1>2, <1>3, <2>2, <2>3 DEF Reads
<1>5. InOrder
  <2>1. PICK lab : Labels(file, written \o fault.after, lab)
    BY <1>1 DEF StaticLog
  <2>2. Taken(lab, << >>)
    <3>1. \A i \in 1..Len(got) : FALSE
      BY <1>3
    <3> QED BY <3>1, Zenon DEF Taken
  <2> QED BY <2>1, <2>2 DEF InOrder
<1>6. TornStops
  BY <1>1, <1>2, <1>3, BeforeIs DEF TornStops
<1> QED BY <1>1, <1>2, <1>3, <1>4, <1>5, <1>6 DEF LogInv

\* The next of the records the file starts with is the next to be read.
LEMMA AheadIs ==
    ASSUME StaticLog, got \in Seq(Records), off \in Nat,
           NEW g \in Seq(Records), At(file, 0, EncodeLog(crc, g)), Reads(g),
           Len(got) < Len(g)
    PROVE  /\ Len(got) + 1 \in 1..Len(g)
           /\ DecodeWALRecord(Left) = [how |-> "ok", rec |-> g[Len(got) + 1]]
           /\ off + Consumed(Left) = LogEnd(crc, g, Len(got) + 1)
           /\ off < Len(file)
<1> DEFINE k == Len(got) + 1
           e == EncodeWALRecord(crc, g[k])
           whole == EncodeLog(crc, g)
           u(i) == LogEnd(crc, g, i)
<1>1. crc \in Bytes /\ file \in Seq(Cells) /\ Len(file) \in Nat
  BY DEF StaticLog
<1>2. k \in 1..Len(g) /\ k - 1 = Len(got) /\ k - 1 \in 0..Len(g)
  OBVIOUS
<1>3. /\ g[k] \in Records /\ Len(e) \in Nat /\ u(k) = u(k - 1) + Len(e)
      /\ At(whole, u(k - 1), e) /\ u(k - 1) \in Nat /\ Len(whole) \in Nat
  <2>1. /\ g[k] \in Records /\ Len(e) \in Nat /\ u(k) = u(k - 1) + Len(e)
        /\ At(whole, u(k - 1), e)
    <3> HIDE DEF k
    <3> QED BY <1>1, <1>2, LogLayout, Zenon
  <2>2. u(k - 1) \in Nat /\ Len(whole) \in Nat
    <3> HIDE DEF k
    <3> QED BY <1>1, <1>2, LogLayout, Zenon
  <2> QED BY <2>1, <2>2
<1>4. off = u(k - 1)
  BY <1>2 DEF Reads
<1> HIDE DEF k, e, whole, u
<1>5. At(file, off, e)
  <2>1. At(file, 0 + u(k - 1), e)
    BY <1>1, <1>3, AtIn DEF whole
  <2> QED BY <1>3, <1>4, <2>1
<1>6. /\ DecodeWALRecord(Left) = [how |-> "ok", rec |-> g[k]]
      /\ Consumed(Left) = Len(e) /\ off < Len(file)
  BY <1>1, <1>3, <1>5, NextRecord DEF e
<1> QED BY <1>2, <1>3, <1>4, <1>6 DEF k, u

\* All that is read of a segment: the record that was there, or the end.
LEMMA ReadStep ==
    ASSUME LogInv, ReadRecord
    PROVE  LogInv'
<1> DEFINE d == DecodeWALRecord(Left)
<1>1. /\ format = "log" /\ status = "reading" /\ off < Len(file) /\ UNCHANGED given
      /\ \/ /\ d.how = "ok" /\ got' = Append(got, d.rec) /\ off' = off + Consumed(Left)
            /\ status' = status
         \/ /\ d.how # "ok" /\ status' = IF d.how = "panic" THEN "panic" ELSE "done"
            /\ got' = got /\ off' = off
  BY DEF ReadRecord, Reading, Left
<1>2. /\ StaticLog /\ got \in Seq(Records) /\ off \in Nat /\ ReadsAhead /\ InOrder /\ TornStops
      /\ Len(got) \in Nat
  BY <1>1 DEF LogInv
<1>g. format' = format /\ written' = written /\ fault' = fault /\ crc' = crc /\ file' = file
  BY <1>1 DEF given
<1>3. StaticLog'
  BY <1>2, <1>g DEF StaticLog
<1>4. crc \in Bytes /\ file \in Seq(Cells) /\ Len(file) \in Nat
  BY <1>2 DEF StaticLog
<1>5. /\ Left \in Seq(Cells) /\ Len(Left) = Len(file) - off
      /\ \A i \in 1..(Len(file) - off) : Left[i] = file[off + i] /\ off + i \in 1..Len(file)
  BY <1>1, <1>2, <1>4, LeftIs
<1>6. PICK lab, at : Labels(file, written \o fault.after, lab) /\ Taken(lab, at)
  BY <1>2 DEF InOrder
<1> DEFINE all == written \o fault.after
           n == Len(got)
<1>7. CASE d.how = "ok"
  <2>1. got' = Append(got, d.rec) /\ off' = off + Consumed(Left) /\ status' = "reading"
    BY <1>1, <1>7
  <2>2. Consumed(Left) \in Nat /\ Consumed(Left) <= Len(Left)
    BY <1>5, <1>7, DecodeSound
  <2>3. PICK x \in 1..Consumed(Left) :
           /\ Left[x].of # << >>
           /\ \A r \in Records : Left[x].of = Content(r) => d.rec = r
    BY <1>5, <1>7, DecodeSound
  <2> DEFINE y == off + x
             k == lab[y]
  <2>4. y \in 1..Len(file) /\ file[y].of # << >> /\ y > off /\ y <= off' /\ Left[x] = file[y]
    <3>1. x \in 1..(Len(file) - off) /\ off + x > off /\ off + x <= off'
      BY <1>2, <1>4, <1>5, <2>1, <2>2
    <3>2. Left[x] = file[off + x] /\ off + x \in 1..Len(file)
      BY <1>5, <3>1
    <3> QED BY <2>3, <3>1, <3>2
  <2>5. k \in 1..Len(all) /\ file[y].of = Content(all[k])
    <3> HIDE DEF y, all
    <3> QED BY <1>6, <2>4 DEF Labels, all
  <2>6. all \in Seq(Records)
    BY <1>2 DEF StaticLog
  <2>7. d.rec = all[k] /\ d.rec \in Records
    <3>1. all[k] \in Records
      <4> HIDE DEF all, k
      <4> QED BY <2>5, <2>6
    <3> HIDE DEF k, y, all, d
    <3> QED BY <2>3, <2>4, <2>5, <3>1
  <2> HIDE DEF d, all, k, y
  <2>8. /\ got' \in Seq(Records) /\ Len(got') = n + 1 /\ got'[n + 1] = d.rec
        /\ \A i \in 1..n : got'[i] = got[i]
        /\ \A i \in 0..n : SubSeq(got', 1, i) = SubSeq(got, 1, i)
    BY <1>2, <2>1, <2>7
  <2>9. off' \in Nat /\ off' <= Len(file)
    BY <1>2, <1>4, <1>5, <2>1, <2>2
  <2>10. InOrder'
    <3>0. PICK at1 : at1 = [i \in 1..(n + 1) |-> IF i = n + 1 THEN k ELSE at[i]]
      BY Zenon
    <3>1. at1[n + 1] = k /\ \A i \in 1..n : at1[i] = at[i]
      BY <1>2, <3>0
    <3>2. /\ \A i \in 1..n : at[i] \in 1..Len(all) /\ got[i] = all[at[i]]
          /\ \A i, j \in 1..n : i < j => at[i] < at[j]
          /\ \A z \in 1..Len(file) : z > off /\ file[z].of # << >> => \A i \in 1..n : at[i] < lab[z]
      <4> HIDE DEF n
      <4> QED BY <1>6 DEF Taken, all, n
    <3>3. \A i \in 1..(n + 1) : i \in 1..n \/ i = n + 1
      BY <1>2
    <3>4. \A i \in 1..(n + 1) : at1[i] \in 1..Len(all) /\ got'[i] = all[at1[i]]
      <4> HIDE DEF n
      <4> QED BY <2>5, <2>7, <2>8, <3>1, <3>2, <3>3
    <3>5. \A i \in 1..n : at[i] < k
      <4> HIDE DEF n
      <4> QED BY <2>4, <3>2 DEF k
    <3>6. \A i, j \in 1..(n + 1) : i < j => at1[i] < at1[j]
      <4> TAKE i, j \in 1..(n + 1)
      <4>1. i < j => i \in 1..n /\ (j \in 1..n \/ j = n + 1)
        BY <1>2
      <4> HIDE DEF n
      <4> QED BY <3>1, <3>2, <3>5, <4>1
    <3>7. ASSUME NEW z \in 1..Len(file), z > off', file[z].of # << >>, NEW i \in 1..(n + 1)
          PROVE  at1[i] < lab[z]
      <4>1. z > off /\ y < z
        BY <1>2, <2>4, <2>9, <3>7 DEF y
      <4>2. k < lab[z]
        <5>1. lab[y] < lab[z]
          BY <1>6, <2>4, <3>7, <4>1, Zenon DEF Labels
        <5> QED BY <5>1 DEF k
      <4> HIDE DEF n
      <4> QED BY <3>1, <3>2, <3>3, <3>7, <4>1, <4>2
    <3>8. Taken(lab, at1)'
      <4>1. /\ all' = all /\ Len(got') = n + 1 /\ file' = file
        BY <1>g, <2>8 DEF all
      <4>2. /\ \A i \in 1..Len(got') : at1[i] \in 1..Len(all) /\ got'[i] = all[at1[i]]
            /\ \A i, j \in 1..Len(got') : i < j => at1[i] < at1[j]
            /\ \A z \in 1..Len(file) : z > off' /\ file[z].of # << >> =>
                  \A i \in 1..Len(got') : at1[i] < lab[z]
        <5> HIDE DEF n
        <5> QED BY <3>4, <3>6, <3>7, <4>1
      <4>3. (written \o fault.after)' = all /\ file' = file
        BY <1>g DEF all
      <4>4. /\ \A i \in 1..Len(got') : at1[i] \in 1..Len((written \o fault.after)')
                                       /\ got'[i] = (written \o fault.after)'[at1[i]]
            /\ \A i, j \in 1..Len(got') : i < j => at1[i] < at1[j]
            /\ \A z \in 1..Len(file') : z > off' /\ file'[z].of # << >> =>
                  \A i \in 1..Len(got') : at1[i] < lab[z]
        BY <4>2, <4>3, Zenon
      <4> QED BY <4>4, Zenon DEF Taken
    <3>9. Labels(file, written \o fault.after, lab)'
      BY <1>6, <1>g
    <3> QED BY <3>8, <3>9 DEF InOrder
  <2>11. ReadsAhead'
    <3> SUFFICES ASSUME NEW g \in Seq(Records), At(file, 0, EncodeLog(crc, g)) PROVE Reads(g)'
      BY <1>g DEF ReadsAhead
    <3>1. Reads(g) /\ Len(g) \in Nat
      BY <1>2 DEF ReadsAhead
    <3>2. CASE n < Len(g)
      <4>1. /\ n + 1 \in 1..Len(g) /\ d = [how |-> "ok", rec |-> g[n + 1]]
            /\ off' = LogEnd(crc, g, n + 1)
        BY <1>2, <2>1, <3>1, <3>2, AheadIs DEF d
      <4>2. got = SubSeq(g, 1, n)
        BY <3>1, <3>2 DEF Reads
      <4>3. got' = SubSeq(g, 1, n + 1)
        <5>1. n \in 0..Len(g) /\ n + 1 <= Len(g)
          BY <1>2, <3>1, <3>2
        <5>2. SubSeq(g, 1, n + 1) = Append(SubSeq(g, 1, n), g[n + 1])
          BY <5>1, FirstOf, Zenon
        <5>3. d.rec = g[n + 1]
          BY <4>1
        <5> HIDE DEF n
        <5> QED BY <2>1, <4>2, <5>2, <5>3
      <4> HIDE DEF n
      <4> QED BY <1>g, <2>1, <2>8, <3>1, <4>1, <4>3 DEF Reads
    <3>3. CASE ~(n < Len(g))
      <4>1. SubSeq(got', 1, Len(g)) = g
        <5>1. SubSeq(got', 1, Len(g)) = SubSeq(got, 1, Len(g))
          BY <1>2, <2>8, <3>1, <3>3
        <5>2. CASE n = Len(g)
          <6>1. got = SubSeq(g, 1, Len(g)) /\ SubSeq(g, 1, Len(g)) = g
            BY <1>2, <3>1, <5>2 DEF Reads
          <6>2. SubSeq(got, 1, Len(g)) = got
            BY <1>2, <5>2
          <6> QED BY <5>1, <6>1, <6>2
        <5>3. CASE n > Len(g)
          BY <3>1, <5>1, <5>3 DEF Reads
        <5> QED BY <1>2, <3>1, <3>3, <5>2, <5>3
      <4>2. Len(EncodeLog(crc, g)) < Len(file)
        <5>1. CASE n = Len(g)
          <6>1. off = LogEnd(crc, g, Len(g)) /\ LogEnd(crc, g, Len(g)) = Len(EncodeLog(crc, g))
            BY <1>2, <1>4, <3>1, <5>1, LogLayout DEF Reads
          <6> QED BY <1>1, <6>1
        <5>2. CASE n > Len(g)
          BY <3>1, <5>2 DEF Reads
        <5> QED BY <1>2, <3>1, <3>3, <5>1, <5>2
      <4>3. Len(got') > Len(g) /\ Len(got') \in Nat
        BY <1>2, <2>8, <3>1, <3>3
      <4> QED BY <1>g, <2>1, <3>1, <4>1, <4>2, <4>3 DEF Reads
    <3> QED BY <3>2, <3>3
  <2>12. TornStops'
    <3>1. SUFFICES ASSUME fault.kind = "cut", Torn, ~(LengthTorn /\ fault.after # << >>)
                   PROVE  Len(got') <= Before
      BY <1>g, <2>1 DEF TornStops, Torn, LengthTorn, Before, Prefix
    <3> DEFINE b == Before
               g == Prefix(b)
    <3>2. b \in Nat /\ g \in Seq(Records) /\ Len(g) = b /\ At(file, 0, EncodeLog(crc, g))
      BY <1>2, BeforeIs
    <3>3. n <= b /\ Reads(g)
      BY <1>2, <3>1, <3>2 DEF TornStops, ReadsAhead
    <3>4. CASE n = b
      <4>1. off = LogEnd(crc, written, b)
        <5>1. off = LogEnd(crc, g, Len(g)) /\ LogEnd(crc, g, Len(g)) = Len(EncodeLog(crc, g))
          BY <1>4, <3>2, <3>3, <3>4, LogLayout DEF Reads
        <5>2. Len(EncodeLog(crc, g)) = LogEnd(crc, written, b)
          BY <1>2, BeforeIs
        <5> QED BY <5>1, <5>2
      <4>2. d.how # "ok"
        BY <1>2, <3>1, <4>1, StopsAtTear DEF d
      <4> QED BY <1>7, <4>2
    <3>5. CASE n < b
      BY <1>2, <2>8, <3>2, <3>5
    <3> HIDE DEF b, g
    <3> QED BY <1>2, <3>2, <3>3, <3>4, <3>5
  <2> QED BY <1>3, <1>g, <2>1, <2>8, <2>9, <2>10, <2>11, <2>12 DEF LogInv
<1>8. CASE d.how # "ok"
  <2>1. /\ status' = IF d.how = "panic" THEN "panic" ELSE "done"
        /\ got' = got /\ off' = off
    BY <1>1, <1>8
  <2>2. InOrder'
    <3>1. Labels(file, written \o fault.after, lab)'
      BY <1>6, <1>g
    <3>2. got' = got /\ off' = off /\ file' = file /\ written' = written /\ fault' = fault
      BY <1>g, <2>1
    <3>3. Taken(lab, at)'
      BY <1>6, <3>2, Zenon DEF Taken
    <3> QED BY <3>1, <3>3 DEF InOrder
  <2>3. ReadsAhead'
    <3> SUFFICES ASSUME NEW g \in Seq(Records), At(file, 0, EncodeLog(crc, g)) PROVE Reads(g)'
      BY <1>g DEF ReadsAhead
    <3>1. Reads(g) /\ Len(g) \in Nat
      BY <1>2 DEF ReadsAhead
    <3>2. ~(n < Len(g))
      <4> SUFFICES ASSUME n < Len(g) PROVE d.how = "ok"
        BY <1>8
      <4> QED BY <1>2, <3>1, AheadIs
    <3>3. Len(EncodeLog(crc, g)) < Len(file)
      <4>1. CASE n = Len(g)
        <5>1. off = LogEnd(crc, g, Len(g)) /\ LogEnd(crc, g, Len(g)) = Len(EncodeLog(crc, g))
          BY <1>2, <1>4, <3>1, <4>1, LogLayout DEF Reads
        <5> QED BY <1>1, <5>1
      <4>2. CASE n > Len(g)
        BY <3>1, <4>2 DEF Reads
      <4> QED BY <1>2, <3>1, <3>2, <4>1, <4>2
    <3> QED BY <1>2, <1>g, <2>1, <3>1, <3>2, <3>3 DEF Reads
  <2>4. TornStops'
    <3>1. SUFFICES ASSUME fault.kind = "cut", Torn, ~(LengthTorn /\ fault.after # << >>)
                   PROVE  Len(got) <= Before /\ (d.how = "panic" => fault.after # << >>)
      BY <1>g, <2>1 DEF TornStops, Torn, LengthTorn, Before, Prefix
    <3> DEFINE b == Before
               g == Prefix(b)
    <3>2. b \in Nat /\ g \in Seq(Records) /\ Len(g) = b /\ At(file, 0, EncodeLog(crc, g))
      BY <1>2, BeforeIs
    <3>3. n <= b /\ Reads(g)
      BY <1>2, <3>1, <3>2 DEF TornStops, ReadsAhead
    <3>4. CASE n = b
      <4>1. off = LogEnd(crc, written, b)
        <5>1. off = LogEnd(crc, g, Len(g)) /\ LogEnd(crc, g, Len(g)) = Len(EncodeLog(crc, g))
          BY <1>4, <3>2, <3>3, <3>4, LogLayout DEF Reads
        <5>2. Len(EncodeLog(crc, g)) = LogEnd(crc, written, b)
          BY <1>2, BeforeIs
        <5> QED BY <5>1, <5>2
      <4>2. fault.after = << >> => d = Bad
        BY <1>2, <3>1, <4>1, StopsAtTear
      <4> QED BY <3>3, <4>2 DEF Bad
    <3>5. CASE n < b
      <4>1. d.how = "ok"
        BY <1>2, <3>2, <3>3, <3>5, AheadIs
      <4> QED BY <1>8, <4>1
    <3> HIDE DEF b, g, d
    <3> QED BY <1>2, <3>2, <3>3, <3>4, <3>5 DEF b
  <2>5. status' \in {"reading", "done", "panic"}
    BY <2>1
  <2>6. got' \in Seq(Records) /\ off' \in Nat /\ off' <= Len(file')
    BY <1>1, <1>2, <1>4, <1>g, <2>1
  <2> QED BY <1>3, <2>2, <2>3, <2>4, <2>5, <2>6 DEF LogInv
<1> QED BY <1>7, <1>8

LEMMA EndStep ==
    ASSUME LogInv, EndOfLog
    PROVE  LogInv'
<1>1. /\ format = "log" /\ status = "reading" /\ off >= Len(file)
      /\ status' = "done" /\ got' = got /\ off' = off /\ UNCHANGED given
  BY DEF EndOfLog, Reading
<1>2. /\ StaticLog /\ got \in Seq(Records) /\ off \in Nat /\ ReadsAhead /\ InOrder /\ TornStops
      /\ Len(got) \in Nat /\ off <= Len(file)
  BY <1>1 DEF LogInv
<1>g. format' = format /\ written' = written /\ fault' = fault /\ crc' = crc /\ file' = file
  BY <1>1 DEF given
<1>3. StaticLog' /\ TornStops'
  BY <1>1, <1>2, <1>g DEF StaticLog, TornStops, Torn, LengthTorn, Before, Prefix
<1>4. InOrder'
  <2>1. PICK lab, at : Labels(file, written \o fault.after, lab) /\ Taken(lab, at)
    BY <1>2 DEF InOrder
  <2>2. Labels(file, written \o fault.after, lab)'
    BY <1>g, <2>1
  <2>3. Taken(lab, at)'
    BY <1>1, <1>g, <2>1, Zenon DEF Taken
  <2> QED BY <2>2, <2>3 DEF InOrder
<1>5. ReadsAhead'
  <2> SUFFICES ASSUME NEW g \in Seq(Records), At(file, 0, EncodeLog(crc, g)) PROVE Reads(g)'
    BY <1>g DEF ReadsAhead
  <2>1. Reads(g) /\ Len(g) \in Nat
    BY <1>2 DEF ReadsAhead
  <2>2. ~(Len(got) < Len(g))
    <3> SUFFICES ASSUME Len(got) < Len(g) PROVE off < Len(file)
      <4>1. file \in Seq(Cells)
        BY <1>2 DEF StaticLog
      <4> QED BY <1>1, <1>2, <4>1
    <3> QED BY <1>2, <2>1, AheadIs
  <2> QED BY <1>1, <1>2, <1>g, <2>1, <2>2 DEF Reads
<1> QED BY <1>1, <1>2, <1>3, <1>4, <1>5, <1>g DEF LogInv

LEMMA LogStep == LogInv /\ [CodecNext]_codecVars => LogInv'
<1> SUFFICES ASSUME LogInv, [CodecNext]_codecVars PROVE LogInv'
  OBVIOUS
<1>1. CASE ReadRecord
  BY <1>1, ReadStep
<1>2. CASE EndOfLog
  BY <1>2, EndStep
<1>3. CASE ReadHeader \/ ReadEntry \/ CheckFooter
  <2>1. format = "snapshot" /\ format' = format
    BY <1>3 DEF ReadHeader, ReadEntry, CheckFooter, Reading, given
  <2> QED BY <2>1 DEF LogInv
<1>4. CASE UNCHANGED codecVars
  <2>1. /\ format' = format /\ written' = written /\ fault' = fault /\ crc' = crc /\ file' = file
        /\ off' = off /\ got' = got /\ status' = status
    BY <1>4 DEF codecVars, given
  <2>2. StaticLog => StaticLog'
    BY <2>1 DEF StaticLog
  <2>3. TornStops => TornStops'
    BY <2>1 DEF TornStops, Torn, LengthTorn, Before, Prefix
  <2>4. InOrder => InOrder'
    <3> SUFFICES ASSUME NEW lab, NEW at, Labels(file, written \o fault.after, lab), Taken(lab, at)
                 PROVE  Labels(file, written \o fault.after, lab)' /\ Taken(lab, at)'
      BY DEF InOrder
    <3>1. Labels(file, written \o fault.after, lab)'
      BY <2>1
    <3>2. Taken(lab, at)'
      BY <2>1, Zenon DEF Taken
    <3> QED BY <3>1, <3>2
  <2>5. ReadsAhead => ReadsAhead'
    BY <2>1 DEF ReadsAhead, Reads
  <2> QED BY <2>1, <2>2, <2>3, <2>4, <2>5 DEF LogInv
<1> QED BY <1>1, <1>2, <1>3, <1>4 DEF CodecNext

LEMMA LogAlways == CodecSpec => []LogInv
<1> QED BY LogInit, LogStep, PTL DEF CodecSpec

\* What Part asks is found by taking each element where it first can be.
FoundStep(s, t) ==
    [w \in Nat \X Nat |->
       IF w[1] \in 1..Len(t) /\ w[2] < Len(s) /\ s[w[2] + 1] = t[w[1]] THEN w[2] + 1 ELSE w[2]]

LEMMA FoundIterates ==
    ASSUME NEW T, NEW s \in Seq(T), NEW t \in Seq(T)
    PROVE  \E f : /\ Iterates(f, Nat, FoundStep(s, t), 0, 0, Len(t))
                  /\ IsPartOf(s, t) <=> f[Len(t)] = Len(s)
<1> DEFINE m == Len(t)
           step == FoundStep(s, t)
           K(i, x) == IF x < Len(s) /\ s[x + 1] = t[i] THEN x + 1 ELSE x
           Sol(f) == f = [i \in 0..m |-> CASE i = 0 -> 0 [] OTHER -> K(i, f[i - 1])]
           q == CHOOSE g : Sol(g)
<1>0. m \in Nat /\ \A i \in 1..m, x \in Nat : K(i, x) \in Nat
  OBVIOUS
<1>1. /\ step \in [Nat \X Nat -> Nat] /\ 0 \in Nat /\ 0 <= m
      /\ \A i \in 1..m, x \in Nat : step[<<i, x>>] = K(i, x)
      /\ \A i \in 1..m : i \in Nat
  <2>0. \A i \in 1..m : i \in Nat
    BY <1>0
  <2>1. step = [w \in Nat \X Nat |-> IF w[1] \in 1..m THEN K(w[1], w[2]) ELSE w[2]]
    <3>1. \A w \in Nat \X Nat :
             (IF w[1] \in 1..m /\ w[2] < Len(s) /\ s[w[2] + 1] = t[w[1]] THEN w[2] + 1 ELSE w[2])
               = (IF w[1] \in 1..m THEN K(w[1], w[2]) ELSE w[2])
      BY Zenon
    <3>2. step = [w \in Nat \X Nat |->
                    IF w[1] \in 1..m /\ w[2] < Len(s) /\ s[w[2] + 1] = t[w[1]] THEN w[2] + 1 ELSE w[2]]
      BY DEF FoundStep
    <3> HIDE DEF step, m, K
    <3> QED BY <3>1, <3>2, Zenon
  <2> HIDE DEF K, m, step
  <2>2. step \in [Nat \X Nat -> Nat]
    BY <1>0, <2>1
  <2>3. \A i \in 1..m, x \in Nat : step[<<i, x>>] = K(i, x)
    BY <2>0, <2>1
  <2>4. 0 \in Nat /\ 0 <= m
    BY <1>0
  <2> QED BY <2>0, <2>2, <2>3, <2>4
<1> HIDE DEF K, step, m
<1>2. PICK f : Iterates(f, Nat, step, 0, 0, m)
  BY <1>0, <1>1, Recursion, Zenon
<1>3. Sol(f)
  <2>1. f \in [0..m -> Nat] /\ f[0] = 0 /\ \A i \in 1..m : f[i] = step[<<i, f[i - 1]>>]
    BY <1>2 DEF Iterates
  <2>2. \A i \in 1..m : f[i - 1] \in Nat
    <3>1. \A i \in 1..m : i - 1 \in 0..m
      BY <1>0
    <3> QED BY <2>1, <3>1
  <2>3. \A i \in 1..m : f[i] = K(i, f[i - 1])
    BY <1>1, <2>1, <2>2, Zenon
  <2> QED BY <2>1, <2>3
<1>4. Sol(q)
  <2> HIDE DEF Sol
  <2> QED BY <1>3
<1>5. q = [i \in 0..m |-> q[i]] /\ q[0] = 0 /\ \A i \in 1..m : q[i] = K(i, q[i - 1])
  <2>1. q = [i \in 0..m |-> CASE i = 0 -> 0 [] OTHER -> K(i, q[i - 1])]
    BY <1>4
  <2>2. 0 \in 0..m /\ \A i \in 1..m : i \in 0..m /\ i # 0
    BY <1>0
  <2> HIDE DEF q
  <2> QED BY <2>1, <2>2
<1> HIDE DEF Sol
<1>6. Follows(q, Nat, step, 0, 0, m)
  <2>1. \A i \in 1..m : q[i - 1] \in Nat => q[i] = step[<<i, q[i - 1]>>]
    <3> HIDE DEF q
    <3> QED BY <1>1, <1>5, Zenon
  <2>2. 0 + 1 = 1
    OBVIOUS
  <2> HIDE DEF q
  <2> QED BY <1>5, <2>1, <2>2, Zenon DEF Follows
<1>7. Iterates(q, Nat, step, 0, 0, m)
  <2> HIDE DEF q
  <2> QED BY <1>0, <1>1, <1>5, <1>6, FollowsIterates, Zenon
<1>8. IsPartOf(s, t) <=> q[m] = Len(s)
  BY DEF IsPartOf, q, Sol, K, m
<1> HIDE DEF q
<1> QED BY <1>7, <1>8 DEF step, m

\* Nothing lies between i - 1 and i.
LEMMA OneBelow == \A x \in Nat, i \in Nat : x >= i - 1 => x = i - 1 \/ x >= i
OBVIOUS

LEMMA PartOf ==
    ASSUME NEW T, NEW s \in Seq(T), NEW t \in Seq(T), NEW at,
           \A i \in 1..Len(s) : at[i] \in 1..Len(t) /\ s[i] = t[at[i]],
           \A i, j \in 1..Len(s) : i < j => at[i] < at[j]
    PROVE  IsPartOf(s, t)
<1> DEFINE m == Len(t)
           n == Len(s)
<1>0. m \in Nat /\ n \in Nat
  OBVIOUS
<1>1. PICK f : /\ Iterates(f, Nat, FoundStep(s, t), 0, 0, m)
               /\ IsPartOf(s, t) <=> f[m] = n
  BY FoundIterates
<1>2. /\ f \in [0..m -> Nat] /\ f[0] = 0
      /\ \A j \in 1..m : f[j] = FoundStep(s, t)[<<j, f[j - 1]>>]
  <2> HIDE DEF m
  <2> QED BY <1>1 DEF Iterates
<1>3. \A j \in 1..m : /\ f[j - 1] \in Nat
                      /\ f[j] = IF f[j - 1] < n /\ s[f[j - 1] + 1] = t[j] THEN f[j - 1] + 1 ELSE f[j - 1]
  <2> TAKE j \in 1..m
  <2>1. f[j - 1] \in Nat /\ j \in Nat
    <3>1. j - 1 \in 0..m /\ j \in Nat
      BY <1>0
    <3> HIDE DEF m
    <3> QED BY <1>2, <3>1
  <2>2. FoundStep(s, t)[<<j, f[j - 1]>>]
          = IF f[j - 1] < n /\ s[f[j - 1] + 1] = t[j] THEN f[j - 1] + 1 ELSE f[j - 1]
    BY <2>1 DEF FoundStep
  <2> QED BY <1>2, <2>1, <2>2
<1>a. \A i \in 1..n : at[i] \in 1..m /\ s[i] = t[at[i]]
  OBVIOUS
<1>b. \A i, j \in 1..n : i < j => at[i] < at[j]
  OBVIOUS
<1> HIDE DEF m, n
<1> DEFINE D == {j \in Nat : j <= m => f[j] <= n /\ \A i \in 1..n : at[i] <= j => f[j] >= i}
<1>4. 0 \in D
  <2>1. \A i \in 1..n : ~(at[i] <= 0)
    BY <1>a
  <2> QED BY <1>0, <1>2, <2>1
<1>5. ASSUME NEW j \in Nat, j >= 0, j \in D PROVE j + 1 \in D
  <2>1. SUFFICES ASSUME j + 1 <= m
                 PROVE  f[j + 1] <= n /\ \A i \in 1..n : at[i] <= j + 1 => f[j + 1] >= i
    OBVIOUS
  <2>2. j + 1 \in 1..m /\ (j + 1) - 1 = j /\ j <= m
    BY <1>0, <2>1
  <2>3. /\ f[j] \in Nat /\ f[j] <= n /\ \A i \in 1..n : at[i] <= j => f[j] >= i
        /\ f[j + 1] = IF f[j] < n /\ s[f[j] + 1] = t[j + 1] THEN f[j] + 1 ELSE f[j]
    BY <1>3, <1>5, <2>2
  <2>4. f[j + 1] \in Nat /\ f[j + 1] <= n /\ f[j + 1] >= f[j]
    BY <1>0, <2>3
  <2>5. ASSUME NEW i \in 1..n, at[i] <= j + 1 PROVE f[j + 1] >= i
    <3>1. CASE at[i] <= j
      BY <2>3, <2>4, <3>1
    <3>2. CASE ~(at[i] <= j)
      <4>1. at[i] = j + 1 /\ s[i] = t[j + 1]
        BY <1>0, <1>a, <2>5, <3>2
      <4>2. f[j] >= i - 1
        <5>1. CASE i = 1
          BY <2>3, <5>1
        <5>2. CASE i # 1
          <6>1. i - 1 \in 1..n /\ i - 1 < i
            BY <1>0, <5>2
          <6>2. at[i - 1] < at[i] /\ at[i - 1] \in 1..m
            BY <1>a, <1>b, <6>1
          <6>3. at[i - 1] <= j
            BY <4>1, <6>2
          <6> QED BY <2>3, <6>1, <6>3
        <5> QED BY <5>1, <5>2
      <4>3. CASE f[j] >= i
        BY <2>3, <2>4, <4>3
      <4>4. CASE f[j] = i - 1
        <5>1. f[j] + 1 = i /\ f[j] < n
          BY <1>0, <4>4
        <5> QED BY <2>3, <4>1, <5>1
      <4>5. f[j] \in Nat /\ i \in Nat
        BY <2>3
      <4>6. f[j] = i - 1 \/ f[j] >= i
        BY <4>2, <4>5, OneBelow
      <4> QED BY <4>3, <4>4, <4>6
    <3> QED BY <3>1, <3>2
  <2> QED BY <2>4, <2>5
<1>6. \A j \in Nat : j >= 0 => j \in D
  <2> HIDE DEF D
  <2> QED BY <1>4, <1>5, AllFrom
<1>7. f[m] \in Nat /\ f[m] <= n /\ \A i \in 1..n : at[i] <= m => f[m] >= i
  BY <1>0, <1>2, <1>6
<1>8. CASE n = 0
  BY <1>1, <1>7, <1>8
<1>9. CASE n # 0
  <2>1. n \in 1..n /\ at[n] <= m
    BY <1>0, <1>a, <1>9
  <2> QED BY <1>0, <1>1, <1>7, <2>1
<1> QED BY <1>8, <1>9

(***************************************************************************)
(* Whatever has happened to one place of a segment, what is read of it was *)
(* written, in that order, and what lies before that place is read: for    *)
(* every int, varint and time of any width and every sequence of records   *)
(* (wal/format.go:24-128, reader.go:14-76).                                *)
(***************************************************************************)
THEOREM NothingIsInvented == CodecSpec => []NothingInvented
<1>1. LogInv => NothingInvented
  <2> SUFFICES ASSUME LogInv, format = "log" PROVE NothingInvented
    BY DEF NothingInvented
  <2> DEFINE all == written \o fault.after
             b == Before
             g == Prefix(b)
  <2>1. StaticLog /\ got \in Seq(Records) /\ ReadsAhead /\ InOrder
    BY DEF LogInv
  <2>2. all \in Seq(Records)
    BY <2>1 DEF StaticLog
  <2>3. IsPartOf(got, all)
    <3>1. PICK lab, at : Labels(file, written \o fault.after, lab) /\ Taken(lab, at)
      BY <2>1 DEF InOrder
    <3>2. /\ \A i \in 1..Len(got) : at[i] \in 1..Len(all) /\ got[i] = all[at[i]]
          /\ \A i, j \in 1..Len(got) : i < j => at[i] < at[j]
      BY <3>1 DEF Taken
    <3> HIDE DEF all
    <3> QED BY <2>1, <2>2, <3>2, PartOf
  <2>4. ASSUME status = "done" PROVE IsPrefix(g, got)
    <3>1. g \in Seq(Records) /\ Reads(g) /\ Len(g) \in Nat /\ Len(got) \in Nat
      BY <2>1, BeforeIs DEF ReadsAhead
    <3>2. Len(g) <= Len(got) /\ SubSeq(got, 1, Len(g)) = g
      <4>1. ~(Len(got) < Len(g))
        BY <2>4, <3>1 DEF Reads
      <4>2. SubSeq(g, 1, Len(g)) = g /\ SubSeq(got, 1, Len(got)) = got
        BY <2>1, <3>1
      <4> HIDE DEF g
      <4> QED BY <3>1, <4>1, <4>2 DEF Reads
    <3>3. SubSeq(g, 1, Len(g)) = g
      BY <3>1
    <3> HIDE DEF g
    <3> QED BY <3>2, <3>3 DEF IsPrefix
  <2> QED BY <2>3, <2>4 DEF NothingInvented
<1> QED BY <1>1, LogAlways, PTL

JoinsTo(s, t, enc) == Join(s \o t, enc) = Join(s, enc) \o Join(t, enc)

LEMMA JoinConcat ==
    ASSUME NEW S, NEW T, NEW enc \in [T -> Seq(S)], NEW s \in Seq(T), NEW t \in Seq(T)
    PROVE  JoinsTo(s, t, enc)
<1> DEFINE m == Len(t)
           D == {k \in Nat : k <= m =>
                   Join(s \o SubSeq(t, 1, k), enc) = Join(s, enc) \o Join(SubSeq(t, 1, k), enc)}
<1>0. m \in Nat /\ SubSeq(t, 1, m) = t
  OBVIOUS
<1>1. Join(s, enc) \in Seq(S)
  BY JoinGrows, Zenon
<1>2. 0 \in D
  <2>1. SubSeq(t, 1, 0) = << >> /\ s \o << >> = s
    OBVIOUS
  <2>2. Join(<< >>, enc) = << >>
    BY JoinGrows, Zenon
  <2>3. Join(s, enc) \o << >> = Join(s, enc)
    BY <1>1
  <2>4. Join(s \o SubSeq(t, 1, 0), enc) = Join(s, enc) \o Join(SubSeq(t, 1, 0), enc)
    BY <2>1, <2>2, <2>3, Zenon
  <2> QED BY <2>4
<1>3. ASSUME NEW k \in Nat, k >= 0, k \in D PROVE k + 1 \in D
  <2>1. SUFFICES ASSUME k + 1 <= m
                 PROVE  Join(s \o SubSeq(t, 1, k + 1), enc) = Join(s, enc) \o Join(SubSeq(t, 1, k + 1), enc)
    OBVIOUS
  <2> DEFINE x == SubSeq(t, 1, k)
             r == t[k + 1]
  <2>2. k \in 0..m /\ k + 1 \in 1..m /\ r \in T
    BY <2>1
  <2>3. x \in Seq(T) /\ SubSeq(t, 1, k + 1) = Append(x, r)
    BY <2>1, <2>2, FirstOf, Zenon
  <2>4. Join(s \o x, enc) = Join(s, enc) \o Join(x, enc)
    BY <1>3, <2>2
  <2> HIDE DEF x, r
  <2>5. s \o Append(x, r) = Append(s \o x, r) /\ s \o x \in Seq(T)
    BY <2>2, <2>3, SMTT(30)
  <2>6. Grows(T, enc, x) /\ Grows(T, enc, s \o x) /\ Join(x, enc) \in Seq(S) /\ enc[r] \in Seq(S)
    <3>1. Grows(T, enc, x) /\ Join(x, enc) \in Seq(S)
      BY <2>3, JoinGrows, Zenon
    <3>2. Grows(T, enc, s \o x)
      BY <2>5, JoinGrows, Zenon
    <3>3. enc[r] \in Seq(S)
      BY <2>2
    <3> QED BY <3>1, <3>2, <3>3
  <2>7. Join(Append(s \o x, r), enc) = (Join(s, enc) \o Join(x, enc)) \o enc[r]
    BY <2>2, <2>4, <2>6 DEF Grows
  <2>8. Join(Append(x, r), enc) = Join(x, enc) \o enc[r]
    BY <2>2, <2>6 DEF Grows
  <2>9. (Join(s, enc) \o Join(x, enc)) \o enc[r] = Join(s, enc) \o (Join(x, enc) \o enc[r])
    <3> DEFINE a == Join(s, enc)
               b == Join(x, enc)
               c == enc[r]
    <3>1. a \in Seq(S) /\ b \in Seq(S) /\ c \in Seq(S)
      BY <1>1, <2>6
    <3> HIDE DEF a, b, c
    <3>2. (a \o b) \o c = a \o (b \o c)
      BY <3>1
    <3> QED BY <3>2 DEF a, b, c
  <2> QED BY <2>3, <2>5, <2>7, <2>8, <2>9, Zenon
<1>4. \A k \in Nat : k >= 0 => k \in D
  <2> HIDE DEF D
  <2> QED BY <1>2, <1>3, AllFrom
<1>5. m \in D
  <2> HIDE DEF D, m
  <2> QED BY <1>0, <1>4
<1>6. Join(s \o SubSeq(t, 1, m), enc) = Join(s, enc) \o Join(SubSeq(t, 1, m), enc)
  <2> HIDE DEF m
  <2> QED BY <1>0, <1>5
<1> QED
  <2> HIDE DEF m
  <2>1. Join(s \o t, enc) = Join(s, enc) \o Join(t, enc)
    BY <1>0, <1>6, Zenon
  <2> QED BY <2>1 DEF JoinsTo

\* A segment that was cut off between two records holds records and no more.
LEMMA NotTorn ==
    ASSUME StaticLog, fault.kind = "cut", ~Torn
    PROVE  /\ Prefix(Before) \o fault.after \in Seq(Records)
           /\ file = EncodeLog(crc, Prefix(Before) \o fault.after)
<1> DEFINE whole == EncodeLog(crc, written)
           g == Prefix(Before)
           p == EncodeLog(crc, g)
           s == fault.after
           snd == fault.sound
<1>1. /\ crc \in Bytes /\ written \in Seq(Records) /\ snd \in Nat
      /\ s \in Seq(Records) /\ file = SubSeq(whole, 1, snd) \o EncodeLog(crc, s)
  BY DEF StaticLog
<1>2. g \in Seq(Records) /\ Len(p) = snd
  BY <1>1, BeforeIs
<1>3. At(whole, 0, p) /\ whole \in Seq(Cells) /\ p \in Seq(Cells)
  <2>1. Before \in 0..Len(written)
    BY BeforeIs
  <2>2. At(whole, 0, p)
    BY <1>1, <2>1, LogLayout, Zenon DEF Prefix
  <2>3. whole \in Seq(Cells) /\ p \in Seq(Cells)
    <3> HIDE DEF g
    <3> QED BY <1>1, <1>2, LogLayout
  <2> QED BY <2>2, <2>3
<1> HIDE DEF whole, g, p, s, snd
<1>4. SubSeq(whole, 1, snd) = p
  <2>1. SubSeq(whole, 0 + 1, 0 + Len(p)) = p
    BY <1>3, AtCut
  <2> QED BY <1>1, <1>2, <2>1
<1>5. g \o s \in Seq(Records)
  BY <1>1, <1>2
<1>6. EncodeLog(crc, g \o s) = p \o EncodeLog(crc, s)
  <2> DEFINE enc == RecordCode(crc)
  <2>1. /\ enc \in [Records -> Seq(Cells)] /\ EncodeLog(crc, g \o s) = Join(g \o s, enc)
        /\ p = Join(g, enc) /\ EncodeLog(crc, s) = Join(s, enc)
    BY <1>1, <1>2, <1>5, LogJoined DEF p
  <2> HIDE DEF enc
  <2>2. Join(g \o s, enc) = Join(g, enc) \o Join(s, enc)
    <3>1. g \in Seq(Records) /\ s \in Seq(Records) /\ enc \in [Records -> Seq(Cells)]
      BY <1>1, <1>2, <2>1
    <3>2. JoinsTo(g, s, enc)
      BY <3>1, JoinConcat, Zenon
    <3> QED BY <3>2 DEF JoinsTo
  <2> QED BY <2>1, <2>2, Zenon
<1> QED BY <1>1, <1>4, <1>5, <1>6 DEF g, s

(***************************************************************************)
(* A segment that was cut off is read back up to the cut, also with more   *)
(* records behind it; the reader neither reads a record that straddles the *)
(* tear nor panics there, save in the two cases TornTail leaves out        *)
(* (wal/format.go:85-128, reader.go:27-38).                                *)
(***************************************************************************)
THEOREM TornTailAlways == CodecSpec => []TornTail
<1>1. LogInv => TornTail
  <2> SUFFICES ASSUME LogInv, format = "log", fault.kind = "cut"
               PROVE  /\ status = "panic" => Torn /\ fault.after # << >>
                      /\ status = "done" /\ ~(LengthTorn /\ fault.after # << >>) =>
                           got = Prefix(Before) \o (IF Torn THEN << >> ELSE fault.after)
    BY DEF TornTail
  <2> DEFINE g == Prefix(Before)
             h == g \o fault.after
  <2>1. /\ StaticLog /\ got \in Seq(Records) /\ ReadsAhead /\ TornStops
        /\ file \in Seq(Cells) /\ Len(got) \in Nat
    <3>1. StaticLog /\ got \in Seq(Records) /\ ReadsAhead /\ TornStops
      BY DEF LogInv
    <3>2. file \in Seq(Cells)
      BY <3>1 DEF StaticLog
    <3>3. Len(got) \in Nat
      BY <3>1
    <3> QED BY <3>1, <3>2, <3>3
  <2>2. CASE ~Torn
    <3>1. h \in Seq(Records) /\ file = EncodeLog(crc, h) /\ Len(h) \in Nat
      BY <2>1, <2>2, NotTorn
    <3> HIDE DEF h
    <3>2. At(file, 0, EncodeLog(crc, h)) /\ Len(file) \in Nat
      BY <2>1, <3>1 DEF At
    <3>3. Reads(h)
      BY <2>1, <3>1, <3>2 DEF ReadsAhead
    <3>4. ~(Len(EncodeLog(crc, h)) < Len(file))
      BY <3>1, <3>2
    <3>5. status # "panic" /\ ~(Len(got) > Len(h))
      BY <3>3, <3>4 DEF Reads
    <3>6. ASSUME status = "done" PROVE got = h
      <4>1. Len(got) = Len(h)
        BY <2>1, <3>1, <3>3, <3>5, <3>6 DEF Reads
      <4>2. SubSeq(h, 1, Len(h)) = h
        BY <3>1
      <4> QED BY <2>1, <3>1, <3>3, <4>1, <4>2 DEF Reads
    <3> QED BY <2>2, <3>5, <3>6 DEF h
  <2>3. CASE Torn
    <3>1. status = "panic" => fault.after # << >>
      BY <2>1, <2>3 DEF TornStops
    <3>2. ASSUME status = "done", ~(LengthTorn /\ fault.after # << >>)
          PROVE  got = g \o << >>
      <4>1. Len(got) <= Before
        BY <2>1, <2>3, <3>2 DEF TornStops
      <4>2. g \in Seq(Records) /\ Len(g) = Before /\ Reads(g) /\ Before \in Nat
        BY <2>1, BeforeIs DEF ReadsAhead
      <4>3. Len(got) = Len(g)
        <5> HIDE DEF g
        <5>1. Len(got) <= Len(g) /\ Len(g) \in Nat /\ Len(got) \in Nat
          BY <2>1, <4>1, <4>2
        <5>2. ~(Len(got) < Len(g))
          BY <3>2, <4>2 DEF Reads
        <5> QED BY <5>1, <5>2
      <4>4. SubSeq(g, 1, Len(g)) = g /\ g \o << >> = g
        <5> HIDE DEF g
        <5> QED BY <4>2
      <4> HIDE DEF g
      <4> QED BY <2>1, <4>2, <4>3, <4>4 DEF Reads
    <3> QED BY <2>3, <3>1, <3>2
  <2> QED BY <2>2, <2>3
<1> QED BY <1>1, LogAlways, PTL

-----------------------------------------------------------------------------
(* The entries of a snapshot *)

LEMMA InsertIs ==
    ASSUME NEW T, NEW s \in Seq(T), NEW e \in T
    PROVE  Insert(s, e) \in Seq(T) /\ Len(Insert(s, e)) = Len(s) + 1
<1> DEFINE D == {i \in DOMAIN s : ~Less(e.key, s[i].key)}
           c == Cardinality(D)
           I(k) == SubSeq(s, 1, k) \o <<e>> \o SubSeq(s, k + 1, Len(s))
<1>1. c \in 0..Len(s)
  <2>1. D \subseteq 1..Len(s) /\ Len(s) \in Nat
    OBVIOUS
  <2> HIDE DEF D
  <2>2. IsFiniteSet(1..Len(s)) /\ Cardinality(1..Len(s)) = Len(s)
    BY <2>1, FS_Interval, SMTT(30)
  <2>3. IsFiniteSet(D) /\ c \in Nat /\ c <= Len(s)
    BY <2>1, <2>2, FS_Subset, FS_CardinalityType
  <2> QED BY <2>1, <2>3
<1>2. Insert(s, e) = I(c)
  BY DEF Insert
<1> HIDE DEF c
<1>3. ASSUME NEW k \in 0..Len(s) PROVE I(k) \in Seq(T) /\ Len(I(k)) = Len(s) + 1
  <2> DEFINE a == SubSeq(s, 1, k)
             b == SubSeq(s, k + 1, Len(s))
  <2>1. a \in Seq(T) /\ Len(a) = k /\ b \in Seq(T) /\ Len(b) = Len(s) - k /\ Len(s) \in Nat
    OBVIOUS
  <2>2. <<e>> \in Seq(T) /\ Len(<<e>>) = 1
    OBVIOUS
  <2> HIDE DEF a, b
  <2>3. a \o <<e>> \in Seq(T) /\ Len(a \o <<e>>) = k + 1
    BY <2>1, <2>2
  <2>4. (a \o <<e>>) \o b \in Seq(T) /\ Len((a \o <<e>>) \o b) = Len(s) + 1
    BY <2>1, <2>3
  <2> QED BY <2>4 DEF a, b
<1> HIDE DEF I
<1> QED BY <1>1, <1>2, <1>3

SortStep(s) ==
    [w \in Nat \X Seq(Entries) |->
       IF w[1] \in 1..Len(s) THEN Insert(w[2], s[w[1]]) ELSE << >>]

LEMMA SortIterates ==
    ASSUME NEW s \in Seq(Entries)
    PROVE  \E f : /\ Iterates(f, Seq(Entries), SortStep(s), << >>, 0, Len(s))
                  /\ Sorted(s) = f[Len(s)]
<1> DEFINE m == Len(s)
           X == Seq(Entries)
           step == SortStep(s)
           Sol(f) == f = [i \in 0..m |-> IF i = 0 THEN << >> ELSE Insert(f[i - 1], s[i])]
           q == CHOOSE g : Sol(g)
<1>0. m \in Nat /\ << >> \in X /\ \A i \in 1..m : s[i] \in Entries
  OBVIOUS
<1>1. /\ step \in [Nat \X X -> X] /\ 0 \in Nat /\ 0 <= m
      /\ \A i \in 1..m, y \in X : step[<<i, y>>] = Insert(y, s[i])
      /\ \A i \in 1..m : i \in Nat
  <2>1. \A y \in X, i \in 1..m : Insert(y, s[i]) \in X
    BY <1>0, InsertIs
  <2> HIDE DEF X, m
  <2>2. step = [w \in Nat \X X |-> IF w[1] \in 1..m THEN Insert(w[2], s[w[1]]) ELSE << >>]
    BY DEF SortStep, X, m
  <2> HIDE DEF step
  <2>3. step \in [Nat \X X -> X]
    BY <1>0, <2>1, <2>2
  <2>4. 0 <= m /\ \A i \in 1..m : i \in Nat
    BY <1>0
  <2>5. \A i \in 1..m, y \in X : step[<<i, y>>] = Insert(y, s[i])
    BY <2>2, <2>4
  <2> QED BY <2>3, <2>4, <2>5
<1>2. PICK f : Iterates(f, X, step, << >>, 0, m)
  <2> HIDE DEF step, m, X
  <2> QED BY <1>0, <1>1, Recursion, Zenon
<1>3. Sol(f)
  <2>1. f \in [0..m -> X] /\ f[0] = << >> /\ \A i \in 1..m : f[i] = step[<<i, f[i - 1]>>]
    <3> HIDE DEF step, m, X
    <3> QED BY <1>2 DEF Iterates
  <2>2. \A i \in 1..m : f[i - 1] \in X
    <3> HIDE DEF X
    <3> QED BY <2>1
  <2>3. \A i \in 1..m : f[i] = Insert(f[i - 1], s[i])
    <3> HIDE DEF step, m, X
    <3> QED BY <1>1, <2>1, <2>2, Zenon
  <2> HIDE DEF m, step, X
  <2> QED BY <2>1, <2>3
<1>4. Sol(q)
  <2> HIDE DEF Sol
  <2> QED BY <1>3
<1>5. q = [i \in 0..m |-> q[i]]
  <2>1. q = [i \in 0..m |-> IF i = 0 THEN << >> ELSE Insert(q[i - 1], s[i])]
    BY <1>4
  <2> HIDE DEF q, m
  <2> QED BY <2>1
<1>6. Follows(q, X, step, << >>, 0, m)
  <2>1. q = [i \in 0..m |-> IF i = 0 THEN << >> ELSE Insert(q[i - 1], s[i])]
    BY <1>4
  <2>2. q[0] = << >> /\ \A i \in 1..m : q[i] = Insert(q[i - 1], s[i])
    <3> HIDE DEF q, m
    <3> QED BY <1>0, <2>1
  <2>3. \A i \in 1..m : q[i - 1] \in X => q[i] = step[<<i, q[i - 1]>>]
    <3> HIDE DEF q, m, step, X
    <3> QED BY <1>1, <2>2, Zenon
  <2> HIDE DEF q, m, step, X
  <2> QED BY <2>2, <2>3 DEF Follows
<1>7. Iterates(q, X, step, << >>, 0, m)
  <2> HIDE DEF q, m, step, Sol, X
  <2> QED BY <1>0, <1>1, <1>5, <1>6, FollowsIterates, Zenon
<1>8. Sorted(s) = q[m]
  BY DEF Sorted
<1> HIDE DEF q
<1> QED BY <1>7, <1>8

\* A snapshot has as many entries sorted as unsorted.
LEMMA SortedIs ==
    ASSUME NEW s \in Seq(Entries)
    PROVE  Sorted(s) \in Seq(Entries) /\ Len(Sorted(s)) = Len(s)
<1> DEFINE m == Len(s)
           X == Seq(Entries)
           step == SortStep(s)
<1>0. m \in Nat /\ \A i \in 1..m : s[i] \in Entries
  OBVIOUS
<1>1. PICK f : Iterates(f, X, step, << >>, 0, m) /\ Sorted(s) = f[m]
  BY SortIterates
<1>2. f \in [0..m -> X] /\ f[0] = << >> /\ \A i \in 1..m : f[i] = step[<<i, f[i - 1]>>]
  <2> HIDE DEF step, m, X
  <2> QED BY <1>1 DEF Iterates
<1>3. \A i \in 1..m : f[i - 1] \in X /\ f[i] = Insert(f[i - 1], s[i])
  <2> TAKE i \in 1..m
  <2>1. f[i - 1] \in X /\ i \in Nat /\ f[i] = step[<<i, f[i - 1]>>]
    <3>1. i - 1 \in 0..m /\ i \in Nat
      BY <1>0
    <3> HIDE DEF step, X, m
    <3> QED BY <1>2, <3>1
  <2>2. step[<<i, f[i - 1]>>] = Insert(f[i - 1], s[i])
    BY <2>1 DEF SortStep
  <2> QED BY <2>1, <2>2
<1> DEFINE D == {k \in Nat : k <= m => Len(f[k]) = k}
<1>4. 0 \in D
  BY <1>2
<1>5. ASSUME NEW k \in Nat, k >= 0, k \in D PROVE k + 1 \in D
  <2>1. SUFFICES ASSUME k + 1 <= m PROVE Len(f[k + 1]) = k + 1
    OBVIOUS
  <2>2. k + 1 \in 1..m /\ (k + 1) - 1 = k /\ Len(f[k]) = k /\ s[k + 1] \in Entries
    BY <1>0, <1>5, <2>1
  <2>3. f[k] \in X /\ f[k + 1] = Insert(f[k], s[k + 1])
    BY <1>3, <2>2
  <2>4. Len(Insert(f[k], s[k + 1])) = Len(f[k]) + 1
    BY <2>2, <2>3, InsertIs
  <2> QED BY <2>2, <2>3, <2>4
<1>6. \A k \in Nat : k >= 0 => k \in D
  <2> HIDE DEF D
  <2> QED BY <1>4, <1>5, AllFrom
<1>7. m \in D /\ m \in 0..m
  <2> HIDE DEF D, m
  <2> QED BY <1>0, <1>6
<1>8. f[m] \in X
  <2> HIDE DEF X, m
  <2> QED BY <1>2, <1>7
<1> QED BY <1>1, <1>7, <1>8

\* Where the fields of an entry lie.
EntryAt(cells, o, e) ==
    LET k == Len(e.key)
        v == Len(e.val)
    IN  /\ cells[o + 1] = Byte(k)
        /\ \A i \in 1..k : cells[o + 1 + i] = Byte(e.key[i])
        /\ cells[o + 2 + k] = Byte(v)
        /\ \A i \in 1..v : cells[o + 2 + k + i] = Byte(e.val[i])
        /\ Time(<<cells[o + 3 + k + v]>>) = e.exp
        /\ Time(<<cells[o + 4 + k + v]>>) = e.ts
        /\ cells[o + 3 + k + v] \in Plain /\ cells[o + 4 + k + v] \in Plain

LEMMA OfEntry ==
    ASSUME NEW e \in Entries
    PROVE  /\ e.key \in Seq(Bytes) /\ e.val \in Seq(Bytes) /\ e.exp \in Int /\ e.ts \in Int
           /\ Fits(e.exp, 1) /\ Fits(e.ts, 1)
           /\ e = [key |-> e.key, val |-> e.val, exp |-> e.exp, ts |-> e.ts]
           /\ Len(e.key) \in Nat /\ Len(e.key) >= 1 /\ Len(e.key) <= MaxAlloc /\ Len(e.key) \in Bytes
           /\ Len(e.val) \in Nat /\ Len(e.val) <= MaxAlloc /\ Len(e.val) \in Bytes
           /\ MaxAlloc \in Nat
<1>1. /\ e.key \in Seq(Bytes) /\ e.val \in Seq(Bytes) /\ e.exp \in Int /\ e.ts \in Int
      /\ Fits(e.exp, 1) /\ Fits(e.ts, 1) /\ e.key # << >>
      /\ Len(e.key) <= MaxAlloc /\ Len(e.val) <= MaxAlloc
      /\ e = [key |-> e.key, val |-> e.val, exp |-> e.exp, ts |-> e.ts]
  BY DEF Entries
<1>2. Len(e.key) \in Nat /\ Len(e.key) >= 1 /\ Len(e.val) \in Nat
  BY <1>1
<1>3. MaxAlloc \in 0..(Base - 1) /\ Base \in Nat
  BY CodecConstants, Sizes DEF Bytes
<1> QED BY <1>1, <1>2, <1>3 DEF Bytes

\* A time that is one cell.
LEMMA OneCell ==
    ASSUME NEW t \in Int, Fits(t, 1)
    PROVE  /\ PutTime(t, 1) \in Seq(Plain) /\ Len(PutTime(t, 1)) = 1
           /\ PutTime(t, 1)[1] \in Plain /\ Time(<<PutTime(t, 1)[1]>>) = t
<1> DEFINE c == PutTime(t, 1)
<1>1. c \in Seq(Plain) /\ Len(c) = 1 /\ Time(c) = t
  <2>1. 1 \in Nat \ {0}
    OBVIOUS
  <2> QED BY <2>1, TimeRead, Zenon
<1> HIDE DEF c
<1>2. c = <<c[1]>> /\ c[1] \in Plain
  BY <1>1
<1>3. Time(<<c[1]>>) = t
  BY <1>1, <1>2, Zenon
<1> QED BY <1>1, <1>2, <1>3 DEF c

LEMMA EntryLayout ==
    ASSUME NEW e \in Entries
    PROVE  /\ writeEntry(e) \in Seq(Plain)
           /\ Len(writeEntry(e)) = Len(e.key) + Len(e.val) + 4
           /\ EntryAt(writeEntry(e), 0, e)
<1> DEFINE k == Len(e.key)
           v == Len(e.val)
           a == <<Byte(k)>>
           b == Word(e.key)
           c == <<Byte(v)>>
           d == Word(e.val)
           x == PutTime(e.exp, 1)
           y == PutTime(e.ts, 1)
           w2 == a \o b
           w3 == w2 \o c
           w4 == w3 \o d
           w5 == w4 \o x
           w6 == w5 \o y
<1>1. k \in Nat /\ v \in Nat
  BY OfEntry
<1>2. /\ a \in Seq(Plain) /\ Len(a) = 1 /\ a[1] = Byte(k)
      /\ c \in Seq(Plain) /\ Len(c) = 1 /\ c[1] = Byte(v)
  BY OfEntry, BytePlain
<1>3. /\ b \in Seq(Plain) /\ Len(b) = k /\ \A i \in 1..k : b[i] = Byte(e.key[i])
      /\ d \in Seq(Plain) /\ Len(d) = v /\ \A i \in 1..v : d[i] = Byte(e.val[i])
  BY OfEntry, WordPlain
<1>4. /\ x \in Seq(Plain) /\ Len(x) = 1 /\ x[1] \in Plain /\ Time(<<x[1]>>) = e.exp
      /\ y \in Seq(Plain) /\ Len(y) = 1 /\ y[1] \in Plain /\ Time(<<y[1]>>) = e.ts
  BY OfEntry, OneCell
<1>5. writeEntry(e) = w6
  BY DEF writeEntry
<1> HIDE DEF a, b, c, d, x, y, k, v
<1>6. /\ w2 \in Seq(Plain) /\ Len(w2) = 1 + k
      /\ At(w2, 0, a) /\ At(w2, 1, b)
  <2>1. w2 \in Seq(Plain) /\ Len(w2) = Len(a) + Len(b) /\ At(w2, 0, a) /\ At(w2, Len(a), b)
    BY <1>2, <1>3, <1>4, Concatenated
  <2> HIDE DEF w2
  <2> QED BY <1>1, <1>2, <1>3, <1>4, <2>1
<1> HIDE DEF w2
<1>7. /\ w3 \in Seq(Plain) /\ Len(w3) = 2 + k
      /\ At(w3, 0, a) /\ At(w3, 1, b) /\ At(w3, 1 + k, c)
  <2>1. w3 \in Seq(Plain) /\ Len(w3) = Len(w2) + Len(c) /\ At(w3, 0, w2) /\ At(w3, Len(w2), c)
    BY <1>2, <1>3, <1>4, <1>6, Concatenated
  <2>2. 1 + k \in Nat /\ 2 + k \in Nat /\ 2 + k + v \in Nat
    BY <1>1
  <2>3. At(w3, 0, a) /\ At(w3, 1, b)
    BY <1>2, <1>3, <1>4, <1>6, <2>2, AtPrefix
  <2> HIDE DEF w3
  <2> QED BY <1>1, <1>2, <1>3, <1>4, <1>6, <2>1, <2>3
<1> HIDE DEF w3
<1>8. /\ w4 \in Seq(Plain) /\ Len(w4) = 2 + k + v
      /\ At(w4, 0, a) /\ At(w4, 1, b) /\ At(w4, 1 + k, c) /\ At(w4, 2 + k, d)
  <2>1. w4 \in Seq(Plain) /\ Len(w4) = Len(w3) + Len(d) /\ At(w4, 0, w3) /\ At(w4, Len(w3), d)
    BY <1>2, <1>3, <1>4, <1>7, Concatenated
  <2>2. 1 + k \in Nat /\ 2 + k \in Nat /\ 2 + k + v \in Nat
    BY <1>1
  <2>3. At(w4, 0, a) /\ At(w4, 1, b) /\ At(w4, 1 + k, c)
    BY <1>2, <1>3, <1>4, <1>7, <2>2, AtPrefix
  <2> HIDE DEF w4
  <2> QED BY <1>1, <1>2, <1>3, <1>4, <1>7, <2>1, <2>3
<1> HIDE DEF w4
<1>9. /\ w5 \in Seq(Plain) /\ Len(w5) = 3 + k + v
      /\ At(w5, 0, a) /\ At(w5, 1, b) /\ At(w5, 1 + k, c) /\ At(w5, 2 + k, d) /\ At(w5, 2 + k + v, x)
  <2>1. w5 \in Seq(Plain) /\ Len(w5) = Len(w4) + Len(x) /\ At(w5, 0, w4) /\ At(w5, Len(w4), x)
    BY <1>2, <1>3, <1>4, <1>8, Concatenated
  <2>2. 1 + k \in Nat /\ 2 + k \in Nat /\ 2 + k + v \in Nat
    BY <1>1
  <2>3. At(w5, 0, a) /\ At(w5, 1, b) /\ At(w5, 1 + k, c) /\ At(w5, 2 + k, d)
    BY <1>2, <1>3, <1>4, <1>8, <2>2, AtPrefix
  <2> HIDE DEF w5
  <2> QED BY <1>1, <1>2, <1>3, <1>4, <1>8, <2>1, <2>3
<1> HIDE DEF w5
<1>10. /\ w6 \in Seq(Plain) /\ Len(w6) = 4 + k + v
      /\ At(w6, 0, a) /\ At(w6, 1, b) /\ At(w6, 1 + k, c) /\ At(w6, 2 + k, d) /\ At(w6, 2 + k + v, x) /\ At(w6, 3 + k + v, y)
  <2>1. w6 \in Seq(Plain) /\ Len(w6) = Len(w5) + Len(y) /\ At(w6, 0, w5) /\ At(w6, Len(w5), y)
    BY <1>2, <1>3, <1>4, <1>9, Concatenated
  <2>2. 1 + k \in Nat /\ 2 + k \in Nat /\ 2 + k + v \in Nat
    BY <1>1
  <2>3. At(w6, 0, a) /\ At(w6, 1, b) /\ At(w6, 1 + k, c) /\ At(w6, 2 + k, d) /\ At(w6, 2 + k + v, x)
    BY <1>2, <1>3, <1>4, <1>9, <2>2, AtPrefix
  <2> HIDE DEF w6
  <2> QED BY <1>1, <1>2, <1>3, <1>4, <1>9, <2>1, <2>3
<1> HIDE DEF w6
<1>11. /\ 0 + 1 = 1 /\ 0 + 1 + k = 1 + k /\ 0 + 2 + k = (1 + k) + 1 /\ \A i \in 1..k : 0 + 1 + i = 1 + i
       /\ 0 + 3 + k + v = (2 + k + v) + 1 /\ 0 + 4 + k + v = (3 + k + v) + 1
       /\ \A i \in 1..v : 0 + 2 + k + i = 2 + k + i
  BY <1>1
<1>12. /\ w6[0 + 1] = a[1] /\ w6[(1 + k) + 1] = c[1]
       /\ w6[(2 + k + v) + 1] = x[1] /\ w6[(3 + k + v) + 1] = y[1]
       /\ \A i \in 1..k : w6[1 + i] = b[i]
       /\ \A i \in 1..v : w6[2 + k + i] = d[i]
  <2>1. 1 \in 1..1
    OBVIOUS
  <2> QED BY <1>2, <1>3, <1>4, <1>10, <2>1 DEF At
<1>13. EntryAt(w6, 0, e)
  BY <1>2, <1>3, <1>4, <1>11, <1>12 DEF EntryAt, k, v
<1>14. Len(w6) = k + v + 4
  BY <1>1, <1>10
<1> QED BY <1>5, <1>10, <1>13, <1>14 DEF k, v

-----------------------------------------------------------------------------
(* A whole snapshot *)

EntryCode == [e \in Entries |-> writeEntry(e)]

\* What lies under the checksum, and where the first k entries end.
Body(s) == Join(Sorted(s), EntryCode)

BodyEnd(s, k) == 4 + Upto(Sorted(s), EntryCode, k)

LEMMA BodyLayout ==
    ASSUME NEW s \in Seq(Entries)
    PROVE  /\ Sorted(s) \in Seq(Entries) /\ Len(Sorted(s)) = Len(s) /\ Len(s) \in Nat
           /\ Body(s) \in Seq(Plain) /\ Len(Body(s)) \in Nat
           /\ BodyEnd(s, 0) = 4 /\ BodyEnd(s, Len(s)) = 4 + Len(Body(s))
           /\ \A k \in 0..Len(s) : BodyEnd(s, k) \in Nat /\ BodyEnd(s, k) >= 4
           /\ \A k \in 1..Len(s) :
                /\ Sorted(s)[k] \in Entries
                /\ BodyEnd(s, k) = BodyEnd(s, k - 1) + Len(writeEntry(Sorted(s)[k]))
                /\ At(Body(s), BodyEnd(s, k - 1) - 4, writeEntry(Sorted(s)[k]))
           /\ \A j, k \in 0..Len(s) : j < k => BodyEnd(s, j) < BodyEnd(s, k)
<1> DEFINE t == Sorted(s)
           N == Len(s)
           u(k) == Upto(t, EntryCode, k)
<1>1. t \in Seq(Entries) /\ Len(t) = N /\ N \in Nat
  BY SortedIs
<1>2. EntryCode \in [Entries -> Seq(Plain)] /\ \A e \in Entries : EntryCode[e] = writeEntry(e)
  <2>1. \A e \in Entries : writeEntry(e) \in Seq(Plain)
    BY EntryLayout
  <2> QED BY <2>1 DEF EntryCode
<1>3. \A k \in 1..N : t[k] \in Entries
  <2> HIDE DEF t, N
  <2> QED BY <1>1
<1>4. Body(s) \in Seq(Plain)
  <2>1. Body(s) = Join(t, EntryCode)
    BY DEF Body
  <2> HIDE DEF t
  <2>2. Join(t, EntryCode) \in Seq(Plain)
    BY <1>1, <1>2, JoinGrows, Zenon
  <2> QED BY <2>1, <2>2
<1>5. /\ u(0) = 0 /\ u(N) = Len(Body(s)) /\ \A k \in 0..N : u(k) \in Nat
      /\ \A k \in 1..N : u(k) = u(k - 1) + Len(EntryCode[t[k]])
  <2>1. /\ u(0) = 0 /\ u(Len(t)) = Len(Join(t, EntryCode)) /\ \A k \in 0..Len(t) : u(k) \in Nat
        /\ \A k \in 1..Len(t) : u(k) = u(k - 1) + Len(EntryCode[t[k]])
    <3>1. /\ u(0) = 0 /\ u(Len(t)) = Len(Join(t, EntryCode))
          /\ \A k \in 0..Len(t) : u(k) \in Nat
          /\ \A k \in 1..Len(t) :
               /\ t[k] \in Entries /\ Len(EntryCode[t[k]]) \in Nat
               /\ u(k) = u(k - 1) + Len(EntryCode[t[k]])
               /\ At(Join(SubSeq(t, 1, k), EntryCode), 0, Join(SubSeq(t, 1, k - 1), EntryCode))
               /\ At(Join(SubSeq(t, 1, k), EntryCode), u(k - 1), EntryCode[t[k]])
      <4> HIDE DEF t
      <4> QED BY <1>1, <1>2, UptoDef, Zenon
    <3> HIDE DEF t, u
    <3> QED BY <3>1, Zenon
  <2> HIDE DEF u, t, N
  <2> QED BY <1>1, <2>1 DEF Body, t
<1>6. /\ \A j, k \in 0..N : j <= k => u(j) <= u(k)
      /\ \A k \in 1..N : At(Body(s), u(k - 1), EntryCode[t[k]])
  <2>1. /\ \A j, k \in 0..Len(t) : j <= k => u(j) <= u(k)
        /\ \A k \in 1..Len(t) : At(Join(t, EntryCode), u(k - 1), EntryCode[t[k]])
    <3> HIDE DEF t
    <3> QED BY <1>1, <1>2, Joined, Zenon
  <2> HIDE DEF u, t, N
  <2> QED BY <1>1, <2>1 DEF Body, t
<1>7. \A k \in 1..N : Len(writeEntry(t[k])) \in Nat /\ Len(writeEntry(t[k])) >= 4 /\ EntryCode[t[k]] = writeEntry(t[k])
  <2> TAKE k \in 1..N
  <2>1. t[k] \in Entries
    BY <1>3
  <2> HIDE DEF t
  <2>2. Len(writeEntry(t[k])) = Len(t[k].key) + Len(t[k].val) + 4
    BY <2>1, EntryLayout
  <2>3. Len(t[k].key) \in Nat /\ Len(t[k].val) \in Nat
    BY <2>1, OfEntry
  <2>4. \A i, j \in Nat : i + j + 4 \in Nat /\ i + j + 4 >= 4
    OBVIOUS
  <2>5. Len(writeEntry(t[k])) \in Nat /\ Len(writeEntry(t[k])) >= 4
    BY <2>2, <2>3, <2>4, Zenon
  <2> QED BY <1>2, <2>1, <2>5
<1>8. \A k \in 0..N : BodyEnd(s, k) = 4 + u(k)
  BY DEF BodyEnd
<1> HIDE DEF u, t, N
<1>9. \A k \in 0..N : BodyEnd(s, k) \in Nat /\ BodyEnd(s, k) >= 4
  BY <1>5, <1>8
<1>10. \A k \in 1..N : /\ BodyEnd(s, k) = BodyEnd(s, k - 1) + Len(writeEntry(t[k]))
                       /\ At(Body(s), BodyEnd(s, k - 1) - 4, writeEntry(t[k]))
  <2> TAKE k \in 1..N
  <2>1. k \in 0..N /\ k - 1 \in 0..N
    BY <1>1
  <2>2. u(k) = u(k - 1) + Len(writeEntry(t[k])) /\ u(k - 1) \in Nat /\ At(Body(s), u(k - 1), writeEntry(t[k]))
    BY <1>5, <1>6, <1>7, <2>1
  <2>3. BodyEnd(s, k) = 4 + u(k) /\ BodyEnd(s, k - 1) = 4 + u(k - 1) /\ Len(writeEntry(t[k])) \in Nat
    BY <1>7, <1>8, <2>1
  <2>4. BodyEnd(s, k - 1) - 4 = u(k - 1)
    BY <2>2, <2>3
  <2> QED BY <2>2, <2>3, <2>4
<1>11. ASSUME NEW j \in 0..N, NEW k \in 0..N, j < k PROVE BodyEnd(s, j) < BodyEnd(s, k)
  <2>1. k \in 1..N /\ k - 1 \in 0..N /\ j <= k - 1
    BY <1>1, <1>11
  <2>2. u(j) <= u(k - 1) /\ u(k) = u(k - 1) + Len(writeEntry(t[k])) /\ Len(writeEntry(t[k])) >= 4
    BY <1>5, <1>6, <1>7, <2>1
  <2>3. u(j) \in Nat /\ u(k) \in Nat /\ u(k - 1) \in Nat /\ Len(writeEntry(t[k])) \in Nat
    BY <1>5, <1>7, <2>1
  <2>4. u(j) < u(k)
    BY <2>2, <2>3
  <2> QED BY <1>8, <2>3, <2>4
<1>12. Len(Body(s)) \in Nat /\ 0 \in 0..N /\ N \in 0..N
  BY <1>1, <1>4
<1>13. BodyEnd(s, 0) = 4 /\ BodyEnd(s, N) = 4 + Len(Body(s))
  BY <1>5, <1>8, <1>12
<1> QED BY <1>1, <1>3, <1>4, <1>9, <1>10, <1>11, <1>12, <1>13 DEF t, N

LEMMA SnapLayout ==
    ASSUME NEW c \in Bytes, NEW s \in Seq(Entries), Len(s) <= MaxAlloc
    PROVE  LET whole == EncodeSnapshot(c, s)
           IN  /\ whole \in Seq(Cells) /\ Len(whole) = 5 + Len(Body(s))
               /\ whole[1] = Byte(Magic) /\ whole[4] = Byte(Len(s)) /\ Len(s) \in Bytes
               /\ whole[Len(whole)] = Checksum(c, Body(s))
               /\ \A i \in 1..Len(Body(s)) : whole[4 + i] = Body(s)[i]
               /\ \A i \in 1..Len(whole) : whole[i].of # << >> => i = Len(whole)
<1> DEFINE h == <<Byte(Magic), Byte(1), Byte(0), Byte(Len(s))>>
           body == Body(s)
           f == <<Checksum(c, body)>>
           whole == h \o body \o f
<1>1. body \in Seq(Plain) /\ Len(body) \in Nat /\ Len(Sorted(s)) = Len(s) /\ Len(s) \in Nat /\ Sorted(s) \in Seq(Entries)
  BY BodyLayout
<1>2. EncodeSnapshot(c, s) = whole
  <2>1. [i \in DOMAIN s |-> writeEntry(Sorted(s)[i])] = [i \in DOMAIN Sorted(s) |-> EntryCode[Sorted(s)[i]]]
    <3>1. DOMAIN s = 1..Len(s) /\ DOMAIN Sorted(s) = 1..Len(s)
      BY <1>1
    <3>2. \A i \in 1..Len(s) : EntryCode[Sorted(s)[i]] = writeEntry(Sorted(s)[i])
      <4>1. \A i \in 1..Len(s) : Sorted(s)[i] \in Entries
        BY <1>1
      <4> QED BY <4>1 DEF EntryCode
    <3> QED BY <3>1, <3>2, Zenon
  <2>2. FlattenSeq([i \in DOMAIN s |-> writeEntry(Sorted(s)[i])]) = body
    BY <2>1, Zenon DEF Body, Join
  <2> QED BY <2>2, Zenon DEF EncodeSnapshot
<1> HIDE DEF body
<1>3. 0 \in Bytes /\ 1 \in Bytes /\ Magic \in Bytes /\ Len(s) \in Bytes
  <2>1. MaxAlloc \in 0..(Base - 1)
    BY CodecConstants DEF Bytes
  <2> QED BY <1>1, <2>1, Sizes DEF Bytes, Magic
<1>4. h \in Seq(Plain) /\ Len(h) = 4 /\ h[1] = Byte(Magic) /\ h[4] = Byte(Len(s))
  <2>1. Byte(Magic) \in Plain /\ Byte(1) \in Plain /\ Byte(0) \in Plain /\ Byte(Len(s)) \in Plain
    BY <1>3, BytePlain
  <2> QED BY <2>1
<1>5. Checksum(c, body) \in Cells
  <2>1. CASE body = << >>
    BY <1>3, <2>1, BytePlain, PlainIsCell DEF Checksum
  <2>2. CASE body # << >>
    BY <1>1, <2>2 DEF Checksum, Cells
  <2> QED BY <2>1, <2>2
<1> HIDE DEF h
<1> DEFINE p == h \o body
<1>6. /\ p \in Seq(Plain) /\ Len(p) = 4 + Len(body)
      /\ \A i \in 1..4 : p[i] = h[i]
      /\ \A i \in 1..Len(body) : p[4 + i] = body[i]
  <2>1. p \in Seq(Plain) /\ Len(p) = Len(h) + Len(body) /\ At(p, 0, h) /\ At(p, Len(h), body)
    BY <1>1, <1>4, Concatenated
  <2>2. \A i \in 1..4 : 0 + i = i
    OBVIOUS
  <2> HIDE DEF p
  <2> QED BY <1>4, <2>1, <2>2 DEF At
<1>7. \A i \in 1..Len(p) : p[i].of = << >>
  <2>1. \A i \in 1..Len(p) : p[i] \in Plain
    BY <1>6
  <2> QED BY <2>1, OfPlain
<1>8. p \in Seq(Cells) /\ f \in Seq(Cells) /\ Len(f) = 1
  BY <1>5, <1>6, PlainIsCell
<1>9. whole = p \o f
  OBVIOUS
<1> HIDE DEF p, whole
<1>10. /\ whole \in Seq(Cells) /\ Len(whole) = Len(p) + 1 /\ whole[Len(p) + 1] = Checksum(c, body)
       /\ \A i \in 1..Len(p) : whole[i] = p[i]
  BY <1>8, <1>9
<1>11. Len(whole) = 5 + Len(body) /\ Len(p) \in Nat /\ Len(p) + 1 = Len(whole)
  BY <1>1, <1>6, <1>10
<1>12. \A i \in 1..Len(whole) : whole[i].of # << >> => i = Len(whole)
  BY <1>7, <1>10, <1>11
<1>13. whole[1] = Byte(Magic) /\ whole[4] = Byte(Len(s))
  <2>1. 1 \in 1..Len(p) /\ 4 \in 1..Len(p) /\ 1 \in 1..4 /\ 4 \in 1..4
    BY <1>1, <1>6
  <2> QED BY <1>4, <1>6, <1>10, <2>1
<1>14. \A i \in 1..Len(body) : whole[4 + i] = body[i]
  <2> TAKE i \in 1..Len(body)
  <2>1. 4 + i \in 1..Len(p)
    BY <1>1, <1>6
  <2> QED BY <1>6, <1>10, <2>1
<1> QED BY <1>2, <1>3, <1>10, <1>11, <1>12, <1>13, <1>14 DEF body

-----------------------------------------------------------------------------
(* Reading an entry *)

\* A word that is read ends in the file.
LEMMA BytesRead ==
    ASSUME file \in Seq(Cells), NEW i \in Nat, i >= 1
    PROVE  LET b == readBytes(i)
           IN  /\ b.how = "ok" =>
                    /\ i <= Len(file) /\ file[i].byte \in Nat /\ file[i].byte <= MaxAlloc
                    /\ b.end = i + file[i].byte /\ b.end <= Len(file) /\ b.end \in Nat /\ b.end >= i
                    /\ b.word = Read(file, i + 1, b.end) /\ b.word \in Seq(Bytes)
               /\ b.how \in {"ok", "bad", "panic"}
               /\ b.how = "panic" => i <= Len(file) /\ file[i].byte > MaxAlloc
               /\ b.how = "bad" => ~(i <= Len(file) /\ file[i].of = << >>)
                                   \/ i + file[i].byte > Len(file)
<1> DEFINE b == readBytes(i)
           k == file[i].byte
<1>1. Len(file) \in Nat /\ DOMAIN file = 1..Len(file)
  OBVIOUS
<1>2. IntAt(i) <=> i <= Len(file) /\ file[i].of = << >>
  BY <1>1 DEF IntAt
<1>3. \A j \in 1..Len(file) : file[j].byte \in Bytes /\ file[j].byte \in Nat
  <2> TAKE j \in 1..Len(file)
  <2>1. file[j] \in Cells
    OBVIOUS
  <2> QED BY <2>1, OfCell, Sizes
<1>4. CASE ~IntAt(i)
  <2>1. b.how = "bad"
    BY <1>4 DEF readBytes, Bad
  <2> QED BY <1>2, <1>4, <2>1
<1>5. CASE IntAt(i)
  <2>0. i \in 1..Len(file) /\ k \in Nat
    BY <1>1, <1>2, <1>3, <1>5
  <2>m. MaxAlloc \in Nat
    BY CodecConstants, Sizes DEF Bytes
  <2>1. CASE k > MaxAlloc
    <3>1. b.how = "panic"
      BY <1>5, <2>1 DEF readBytes
    <3> QED BY <2>0, <2>1, <3>1
  <2>2. CASE ~(k > MaxAlloc) /\ i + k > Len(file)
    <3>1. b.how = "bad"
      BY <1>5, <2>2 DEF readBytes, Bad
    <3> QED BY <2>2, <3>1
  <2>3. CASE ~(k > MaxAlloc) /\ ~(i + k > Len(file))
    <3>1. b = [how |-> "ok", word |-> Read(file, i + 1, i + k), end |-> i + k]
      BY <1>5, <2>3 DEF readBytes
    <3>2. Read(file, i + 1, i + k) \in Seq(Bytes)
      <4>1. Read(file, i + 1, i + k) = [j \in 1..k |-> file[i + j].byte]
        <5>1. (i + k) - (i + 1) + 1 = k /\ \A j \in 1..k : (i + 1) + j - 1 = i + j
          BY <2>0
        <5> HIDE DEF k
        <5> QED BY <5>1 DEF Read
      <4>k. k \in Nat
        BY <2>0
      <4>2. \A j \in 1..k : i + j \in 1..Len(file)
        BY <1>1, <2>0, <2>3
      <4>3. \A j \in 1..k : file[i + j].byte \in Bytes
        <5> HIDE DEF k
        <5> QED BY <1>3, <4>2
      <4> DEFINE w == Read(file, i + 1, i + k)
                 g(j) == file[i + j].byte
      <4>4. w = [j \in 1..k |-> g(j)] /\ \A j \in 1..k : g(j) \in Bytes
        BY <4>1, <4>3
      <4> HIDE DEF k, w, g
      <4>5. w \in Seq(Bytes)
        BY <4>k, <4>4
      <4> QED BY <4>5 DEF w
    <3>3. b.how = "ok" /\ b.word = Read(file, i + 1, i + k) /\ b.end = i + k
      <4> HIDE DEF b
      <4> QED BY <3>1
    <3>4. i + k \in Nat /\ i + k >= i /\ i + k <= Len(file) /\ k <= MaxAlloc /\ i <= Len(file)
      BY <1>1, <2>0, <2>m, <2>3
    <3> HIDE DEF b, k
    <3> QED BY <2>0, <3>2, <3>3, <3>4 DEF b, k
  <2> QED BY <2>1, <2>2, <2>3
<1> QED BY <1>4, <1>5

\* What an entry can be, also one that was not written.
EntryLike ==
    {e \in [key : Seq(Bytes), val : Seq(Bytes), exp : Int, ts : Int] :
        Fits(e.exp, 1) /\ Fits(e.ts, 1)}

LEMMA OneCellRead ==
    ASSUME NEW c \in Cells
    PROVE  Time(<<c>>) \in Int /\ Fits(Time(<<c>>), 1)
<1> DEFINE top == IF c.byte >= Half THEN -1 ELSE 0
           d == Read(<<c>>, 1, 1)
<1>1. c.byte \in 0..(Base - 1) /\ Base = 2 * Half /\ Half \in Nat /\ Base \in Nat /\ Base > 0
  BY OfCell, Sizes DEF Bytes
<1>2. d \in Seq(Int) /\ Len(d) = 1 /\ d[1] = c.byte
  <2>1. d = [i \in 1..1 |-> <<c>>[i].byte]
    BY DEF Read
  <2>2. \A i \in 1..1 : <<c>>[i].byte = c.byte
    OBVIOUS
  <2> HIDE DEF d
  <2> QED BY <1>1, <2>1, <2>2
<1>3. top \in Int /\ c.byte + Base * top \in -Half..(Half - 1)
  <2>1. CASE c.byte >= Half
    BY <1>1, <2>1
  <2>2. CASE ~(c.byte >= Half)
    BY <1>1, <2>2
  <2> QED BY <2>1, <2>2
<1>4. Time(<<c>>) = Number(d, Base, top)
  BY DEF Time, Last
<1> HIDE DEF d, top
<1>5. Number(d, Base, top) = c.byte + Base * top
  <2>1. PICK num : Iterates(num, Int, NumberStep(d, Base), top, 0, 1) /\ Number(d, Base, top) = num[1]
    BY <1>1, <1>2, <1>3, NumberIterates
  <2>2. num[0] = top /\ num[1] = NumberStep(d, Base)[<<1, num[0]>>]
    <3>1. 1 \in (0 + 1)..1 /\ 1 - 1 = 0
      OBVIOUS
    <3> QED BY <2>1, <3>1 DEF Iterates
  <2>3. NumberStep(d, Base)[<<1, top>>] = d[Len(d) + 1 - 1] + Base * top
    BY <1>2, <1>3 DEF NumberStep
  <2>4. Len(d) + 1 - 1 = 1
    BY <1>2
  <2> QED BY <1>2, <2>1, <2>2, <2>3, <2>4, Zenon
<1>6. Time(<<c>>) \in -Half..(Half - 1)
  BY <1>3, <1>4, <1>5
<1>7. Time(<<c>>) \in Int
  BY <1>1, <1>6
<1>8. Quotients(Time(<<c>>), Base, 1)[0] = Time(<<c>>)
  BY <1>1, <1>7, QuotientsDef
<1>9. 1 - 1 = 0
  OBVIOUS
<1> QED BY <1>6, <1>7, <1>8, <1>9 DEF Fits

LEMMA EntryShape ==
    ASSUME file \in Seq(Cells), NEW i \in Nat, i >= 1
    PROVE  LET e == readEntry(i)
               k == readBytes(i)
               v == readBytes(k.end + 1)
           IN  /\ e.how \in {"ok", "bad", "panic"}
               /\ e.how = "ok" =>
                    /\ k.how = "ok" /\ v.how = "ok" /\ e.end = v.end + 2 /\ v.end + 1 \in Nat
                    /\ e.end \in Nat /\ e.end > i /\ e.end <= Len(file) /\ e.rec \in EntryLike
                    /\ e.rec = [key |-> k.word, val |-> v.word, exp |-> Time(<<file[v.end + 1]>>),
                                ts |-> Time(<<file[v.end + 2]>>)]
               /\ e.how # "ok" =>
                    \/ k.how = e.how
                    \/ k.how = "ok" /\ v.how = e.how
                    \/ /\ k.how = "ok" /\ v.how = "ok" /\ e.how = "bad"
                       /\ ~(IntAt(v.end + 1) /\ IntAt(v.end + 2))
<1> DEFINE e == readEntry(i)
           k == readBytes(i)
           v == readBytes(k.end + 1)
           t == v.end + 1
           rec == [key |-> k.word, val |-> v.word, exp |-> Time(<<file[t]>>),
                   ts |-> Time(<<file[t + 1]>>)]
<1>1. /\ k.how # "ok" => e = k
      /\ k.how = "ok" /\ v.how # "ok" => e = v
      /\ k.how = "ok" /\ v.how = "ok" /\ ~(IntAt(t) /\ IntAt(t + 1)) => e = Bad
      /\ k.how = "ok" /\ v.how = "ok" /\ IntAt(t) /\ IntAt(t + 1) =>
            e = [how |-> "ok", end |-> t + 1, rec |-> rec]
  BY DEF readEntry
<1>2. /\ k.how \in {"ok", "bad", "panic"}
      /\ k.how = "ok" => k.end \in Nat /\ k.end >= i /\ k.word \in Seq(Bytes)
  <2> HIDE DEF k
  <2> QED BY BytesRead DEF k
<1>3. k.how = "ok" => k.end + 1 \in Nat /\ k.end + 1 >= 1
  <2> HIDE DEF k
  <2> QED BY <1>2
<1>4. k.how = "ok" => /\ v.how \in {"ok", "bad", "panic"}
                      /\ v.how = "ok" => v.end \in Nat /\ v.end >= k.end + 1 /\ v.word \in Seq(Bytes)
  <2> HIDE DEF k, v
  <2> QED BY <1>3, BytesRead DEF v
<1> HIDE DEF e, k, v
<1>5. CASE k.how # "ok"
  BY <1>1, <1>2, <1>5 DEF e, k, v
<1>6. CASE k.how = "ok" /\ v.how # "ok"
  BY <1>1, <1>4, <1>6 DEF e, k, v
<1>7. CASE k.how = "ok" /\ v.how = "ok" /\ ~(IntAt(t) /\ IntAt(t + 1))
  <2>1. e.how = "bad" /\ t + 1 = v.end + 2
    BY <1>1, <1>4, <1>7 DEF Bad
  <2> QED BY <1>7, <2>1 DEF e, k, v
<1>8. CASE k.how = "ok" /\ v.how = "ok" /\ IntAt(t) /\ IntAt(t + 1)
  <2>1. t + 1 = v.end + 2 /\ t \in Nat /\ t + 1 \in Nat /\ t + 1 > i
    BY <1>2, <1>4, <1>8
  <2>2. t \in 1..Len(file) /\ t + 1 \in 1..Len(file)
    BY <1>8 DEF IntAt
  <2>3. file[t] \in Cells /\ file[t + 1] \in Cells
    BY <2>2
  <2>4. rec \in EntryLike
    BY <1>2, <1>4, <1>8, <2>3, OneCellRead DEF EntryLike
  <2>5. e.how = "ok" /\ e.end = t + 1 /\ e.rec = rec
    <3> HIDE DEF rec
    <3> QED BY <1>1, <1>8
  <2>6. e.rec = [key |-> k.word, val |-> v.word, exp |-> Time(<<file[v.end + 1]>>),
                 ts |-> Time(<<file[v.end + 2]>>)]
    BY <2>1, <2>5
  <2>7. e.end \in Nat /\ e.end > i /\ e.end <= Len(file) /\ e.end = v.end + 2 /\ v.end + 1 \in Nat
    <3> HIDE DEF t, rec
    <3>1. Len(file) \in Nat
      OBVIOUS
    <3> QED BY <2>1, <2>2, <2>5, <3>1 DEF t
  <2> QED BY <1>8, <2>4, <2>5, <2>6, <2>7 DEF e, k, v
<1> QED BY <1>5, <1>6, <1>7, <1>8

LEMMA EntryIn ==
    ASSUME NEW whole, NEW o \in Nat, NEW e \in Entries, At(whole, o, writeEntry(e))
    PROVE  EntryAt(whole, o, e)
<1> DEFINE k == Len(e.key)
           v == Len(e.val)
           w == writeEntry(e)
<1>1. /\ k \in Nat /\ v \in Nat /\ Len(w) = k + v + 4 /\ EntryAt(w, 0, e)
      /\ \A i \in 1..Len(w) : whole[o + i] = w[i]
  BY OfEntry, EntryLayout DEF At
<1>2. /\ w[1] = Byte(k) /\ w[2 + k] = Byte(v)
      /\ \A i \in 1..k : w[1 + i] = Byte(e.key[i])
      /\ \A i \in 1..v : w[2 + k + i] = Byte(e.val[i])
      /\ Time(<<w[3 + k + v]>>) = e.exp /\ Time(<<w[4 + k + v]>>) = e.ts
      /\ w[3 + k + v] \in Plain /\ w[4 + k + v] \in Plain
  <2>1. /\ 0 + 1 = 1 /\ 0 + 2 + k = 2 + k /\ 0 + 3 + k + v = 3 + k + v /\ 0 + 4 + k + v = 4 + k + v
        /\ \A i \in 1..k : 0 + 1 + i = 1 + i
        /\ \A i \in 1..v : 0 + 2 + k + i = 2 + k + i
    BY <1>1
  <2> HIDE DEF w
  <2> QED BY <1>1, <2>1 DEF EntryAt
<1>3. /\ o + (2 + k) = o + 2 + k /\ o + (3 + k + v) = o + 3 + k + v /\ o + (4 + k + v) = o + 4 + k + v
      /\ 1 \in 1..Len(w) /\ 2 + k \in 1..Len(w) /\ 3 + k + v \in 1..Len(w) /\ 4 + k + v \in 1..Len(w)
      /\ \A i \in 1..k : 1 + i \in 1..Len(w) /\ o + (1 + i) = o + 1 + i
      /\ \A i \in 1..v : 2 + k + i \in 1..Len(w) /\ o + (2 + k + i) = o + 2 + k + i
  <2> HIDE DEF k, v, w
  <2> QED BY <1>1
<1>4. /\ whole[o + 1] = w[1] /\ whole[o + 2 + k] = w[2 + k]
      /\ \A i \in 1..k : whole[o + 1 + i] = w[1 + i]
      /\ \A i \in 1..v : whole[o + 2 + k + i] = w[2 + k + i]
      /\ whole[o + 3 + k + v] = w[3 + k + v] /\ whole[o + 4 + k + v] = w[4 + k + v]
  <2> HIDE DEF k, v, w
  <2> QED BY <1>1, <1>3
<1> HIDE DEF w
<1> QED BY <1>2, <1>4 DEF EntryAt

\* What is read where an entry lies, and none of its cells has changed, is it.
LEMMA EntryRead ==
    ASSUME file \in Seq(Cells), NEW whole, NEW o \in Nat, NEW e \in Entries,
           At(whole, o, writeEntry(e)), readEntry(o + 1).how = "ok",
           \A i \in (o + 1)..readEntry(o + 1).end : file[i] = whole[i]
    PROVE  /\ readEntry(o + 1).rec = e
           /\ readEntry(o + 1).end = o + Len(writeEntry(e))
<1> DEFINE K == Len(e.key)
           V == Len(e.val)
           r == readEntry(o + 1)
           k == readBytes(o + 1)
           v == readBytes(k.end + 1)
           f == r.end
<1>1. /\ K \in Nat /\ V \in Nat /\ K \in Bytes /\ V \in Bytes /\ Len(writeEntry(e)) = K + V + 4
      /\ e.key \in Seq(Bytes) /\ e.val \in Seq(Bytes)
  BY OfEntry, EntryLayout
<1>2. EntryAt(whole, o, e)
  BY EntryIn
<1>3. o + 1 \in Nat /\ o + 1 >= 1
  OBVIOUS
<1>4. /\ k.how = "ok" /\ v.how = "ok" /\ f = v.end + 2 /\ f \in Nat /\ f > o + 1
      /\ r.rec = [key |-> k.word, val |-> v.word, exp |-> Time(<<file[v.end + 1]>>),
                  ts |-> Time(<<file[v.end + 2]>>)]
  BY <1>3, EntryShape
<1>5. /\ k.end = o + 1 + file[o + 1].byte /\ k.word = Read(file, (o + 1) + 1, k.end) /\ k.end \in Nat
      /\ file[o + 1].byte \in Nat
  <2> HIDE DEF r
  <2> QED BY <1>3, <1>4, BytesRead
<1>6. k.end + 1 \in Nat /\ k.end + 1 >= 1
  BY <1>5
<1>7. /\ v.end = k.end + 1 + file[k.end + 1].byte /\ v.word = Read(file, (k.end + 1) + 1, v.end)
      /\ v.end \in Nat /\ file[k.end + 1].byte \in Nat
  <2> HIDE DEF r, k
  <2> QED BY <1>4, <1>6, BytesRead
<1>8. \A i \in (o + 1)..f : file[i] = whole[i]
  OBVIOUS
<1> HIDE DEF r, k, v, K, V, f
<1>9. file[o + 1] = Byte(K) /\ file[o + 1].byte = K /\ k.end = o + 1 + K
  <2>1. o + 1 \in (o + 1)..f
    BY <1>4
  <2>2. file[o + 1] = Byte(K)
    BY <1>2, <1>8, <2>1 DEF EntryAt, K
  <2>3. Byte(K).byte = K
    BY <1>1, BytePlain
  <2> QED BY <1>5, <2>2, <2>3
<1>10. f >= k.end + 3
  <2>1. \A x, y, z \in Nat : z = x + 1 + y => z + 2 >= x + 3
    OBVIOUS
  <2>2. v.end + 2 >= k.end + 3
    BY <1>5, <1>7, <2>1, Zenon
  <2> QED BY <1>4, <2>2, Zenon
<1>11. k.word = e.key
  <2>1. \A i \in 1..K : file[(o + 1) + i] = Byte(e.key[i])
    <3> TAKE i \in 1..K
    <3>1. o + 1 + i \in (o + 1)..f
      BY <1>1, <1>4, <1>9, <1>10
    <3>2. whole[o + 1 + i] = Byte(e.key[i])
      BY <1>2 DEF EntryAt, K
    <3> QED BY <1>8, <3>1, <3>2
  <2>2. Read(file, (o + 1) + 1, (o + 1) + K) = e.key
    BY <1>1, <1>3, <2>1, ReadWord DEF K
  <2> QED BY <1>5, <1>9, <2>2
<1>12. file[k.end + 1].byte = V /\ v.end = o + 2 + K + V
  <2>1. k.end + 1 = o + 2 + K /\ o + 2 + K \in (o + 1)..f
    BY <1>1, <1>4, <1>9, <1>10
  <2>2. whole[o + 2 + K] = Byte(V)
    BY <1>2 DEF EntryAt, K, V
  <2>3. file[k.end + 1] = Byte(V)
    BY <1>8, <2>1, <2>2
  <2>4. Byte(V).byte = V
    BY <1>1, BytePlain
  <2> QED BY <1>1, <1>7, <2>1, <2>3, <2>4
<1>13. v.word = e.val
  <2>1. \A i \in 1..V : file[(k.end + 1) + i] = Byte(e.val[i])
    <3> TAKE i \in 1..V
    <3>1. i \in 1..V /\ o \in Nat /\ K \in Nat /\ V \in Nat
      BY <1>1
    <3> HIDE DEF f, k, v, r, K, V
    <3>2. v.end = o + 2 + K + V /\ f = v.end + 2 /\ k.end = (o + 1) + K
      BY <1>4, <1>9, <1>12, Zenon
    <3>3. o + 2 + K + i \in (o + 1)..f /\ (k.end + 1) + i = o + 2 + K + i
      BY ONLY <3>1, <3>2
    <3>4. whole[o + 2 + K + i] = Byte(e.val[i])
      BY <1>2 DEF EntryAt, K, V
    <3> QED BY <1>8, <3>3, <3>4
  <2>2. Read(file, (k.end + 1) + 1, (k.end + 1) + V) = e.val
    BY <1>1, <1>6, <2>1, ReadWord DEF V
  <2>3. v.end = (k.end + 1) + V
    BY <1>7, <1>12
  <2> QED BY <1>7, <2>2, <2>3
<1>14. /\ v.end + 1 = o + 3 + K + V /\ v.end + 2 = o + 4 + K + V
       /\ o + 3 + K + V \in (o + 1)..f /\ o + 4 + K + V \in (o + 1)..f
       /\ f = o + (K + V + 4)
  BY <1>1, <1>4, <1>12
<1>15. Time(<<file[v.end + 1]>>) = e.exp /\ Time(<<file[v.end + 2]>>) = e.ts
  <2>1. Time(<<whole[o + 3 + K + V]>>) = e.exp /\ Time(<<whole[o + 4 + K + V]>>) = e.ts
    BY <1>2 DEF EntryAt, K, V
  <2> QED BY <1>8, <1>14, <2>1
<1>16. r.rec = e
  BY <1>4, <1>11, <1>13, <1>15, OfEntry
<1> QED BY <1>1, <1>14, <1>16 DEF r, f

\* A file that ends too early gives no entry, and does no other harm.
LEMMA EntryCut ==
    ASSUME file \in Seq(Cells), NEW whole, NEW o \in Nat, NEW e \in Entries,
           At(whole, o, writeEntry(e)), readEntry(o + 1).how # "ok",
           \A i \in 1..Len(file) : file[i] = whole[i]
    PROVE  /\ readEntry(o + 1).how = "bad"
           /\ Len(file) < o + Len(writeEntry(e))
<1> DEFINE K == Len(e.key)
           V == Len(e.val)
           r == readEntry(o + 1)
           k == readBytes(o + 1)
           v == readBytes(k.end + 1)
           n == Len(file)
<1>1. /\ K \in Nat /\ V \in Nat /\ K \in Bytes /\ V \in Bytes /\ Len(writeEntry(e)) = K + V + 4
      /\ K <= MaxAlloc /\ V <= MaxAlloc /\ MaxAlloc \in Nat /\ n \in Nat
  <2>1. n \in Nat
    OBVIOUS
  <2>2. /\ K \in Nat /\ V \in Nat /\ K \in Bytes /\ V \in Bytes
        /\ K <= MaxAlloc /\ V <= MaxAlloc /\ MaxAlloc \in Nat
    BY OfEntry, Zenon
  <2>3. Len(writeEntry(e)) = K + V + 4
    BY EntryLayout, Zenon
  <2> QED BY <2>1, <2>2, <2>3
<1>2. EntryAt(whole, o, e)
  BY EntryIn
<1>3. o + 1 \in Nat /\ o + 1 >= 1
  OBVIOUS
<1>4. /\ r.how \in {"bad", "panic"}
      /\ \/ k.how = r.how
         \/ k.how = "ok" /\ v.how = r.how
         \/ k.how = "ok" /\ v.how = "ok" /\ r.how = "bad" /\ ~(IntAt(v.end + 1) /\ IntAt(v.end + 2))
  BY <1>3, EntryShape
<1>5. /\ k.how = "ok" => k.end = o + 1 + file[o + 1].byte /\ o + 1 <= n
      /\ k.how = "panic" => o + 1 <= n /\ file[o + 1].byte > MaxAlloc
      /\ k.how = "bad" => ~(o + 1 <= n /\ file[o + 1].of = << >>) \/ o + 1 + file[o + 1].byte > n
  <2> HIDE DEF r
  <2> QED BY <1>3, BytesRead
<1>b. Byte(K).byte = K /\ Byte(K).of = << >> /\ Byte(V).byte = V /\ Byte(V).of = << >>
  BY <1>1, BytePlain
<1>6. o + 1 <= n => file[o + 1].byte = K /\ file[o + 1].of = << >>
  <2> SUFFICES ASSUME o + 1 <= n PROVE file[o + 1] = Byte(K)
    BY <1>b
  <2>1. o + 1 \in 1..n
    BY <1>1
  <2> QED BY <1>2, <2>1 DEF EntryAt
<1>7. k.how = "ok" => k.end + 1 = o + 2 + K /\ k.end + 1 \in Nat /\ k.end + 1 >= 1
  <2>1. \A x \in Nat : (o + 1 + x) + 1 = o + 2 + x /\ o + 2 + x \in Nat /\ o + 2 + x >= 1
    OBVIOUS
  <2> HIDE DEF k, r, n, K
  <2> QED BY <1>1, <1>5, <1>6, <2>1, ZenonT(40)
<1>8. k.how = "ok" =>
        /\ v.how = "ok" => v.end = k.end + 1 + file[k.end + 1].byte /\ k.end + 1 <= n
        /\ v.how = "panic" => k.end + 1 <= n /\ file[k.end + 1].byte > MaxAlloc
        /\ v.how = "bad" => ~(k.end + 1 <= n /\ file[k.end + 1].of = << >>)
                            \/ k.end + 1 + file[k.end + 1].byte > n
  <2> HIDE DEF r, k
  <2> QED BY <1>7, BytesRead
<1> HIDE DEF r, k, v
<1>9. o + 2 + K <= n => file[o + 2 + K].byte = V /\ file[o + 2 + K].of = << >>
  <2> SUFFICES ASSUME o + 2 + K <= n PROVE file[o + 2 + K] = Byte(V)
    BY <1>b
  <2>1. o + 2 + K \in 1..n
    <3> HIDE DEF n, K
    <3> QED BY <1>1
  <2> QED BY <1>2, <2>1 DEF EntryAt
<1> HIDE DEF n, K, V
<1>10. k.how # "panic" /\ (k.how = "bad" => n < o + (K + V + 4))
  BY <1>1, <1>5, <1>6
<1>11. k.how = "ok" => v.how # "panic" /\ (v.how = "bad" => n < o + (K + V + 4))
  BY <1>1, <1>7, <1>8, <1>9
<1>12. k.how = "ok" /\ v.how = "ok" => v.end + 1 = o + 3 + K + V /\ v.end + 2 = o + 4 + K + V
  BY <1>1, <1>7, <1>8, <1>9
<1>13. o + 4 + K + V <= n => IntAt(o + 3 + K + V) /\ IntAt(o + 4 + K + V)
  <2> SUFFICES ASSUME o + 4 + K + V <= n PROVE IntAt(o + 3 + K + V) /\ IntAt(o + 4 + K + V)
    OBVIOUS
  <2>1. o + 3 + K + V \in 1..n /\ o + 4 + K + V \in 1..n
    BY <1>1
  <2>2. whole[o + 3 + K + V] \in Plain /\ whole[o + 4 + K + V] \in Plain
    BY <1>2 DEF EntryAt, K, V
  <2>3. file[o + 3 + K + V].of = << >> /\ file[o + 4 + K + V].of = << >>
    BY <2>1, <2>2, OfPlain DEF n
  <2> QED BY <2>1, <2>3 DEF IntAt, n
<1>14. k.how = "ok" /\ v.how = "ok" /\ ~(IntAt(v.end + 1) /\ IntAt(v.end + 2)) => n < o + (K + V + 4)
  BY <1>1, <1>12, <1>13
<1>15. r.how = "bad" /\ n < o + (K + V + 4)
  BY <1>4, <1>10, <1>11, <1>14
<1> QED BY <1>1, <1>15 DEF r, n

-----------------------------------------------------------------------------
(* The file of a snapshot *)

Whole == EncodeSnapshot(crc, written)

\* What CodecInit makes of a snapshot, and no step changes.  The last but one:
\* a file that says that it has no entries, and looks like that, has none.
StaticSnap ==
    /\ crc \in Bytes /\ file \in Seq(Cells)
    /\ written \in Seq(Entries) /\ Len(written) <= MaxAlloc
    /\ \A i \in 1..Len(file) : file[i].of # << >> => i = Len(Whole) /\ file[i] = Whole[i]
    /\ Len(file) >= 5 /\ file[1].byte = Magic /\ file[4].byte = 0 /\ file[5] = Byte(0) =>
          written = << >>
    /\ fault.kind = "cut" =>
          /\ fault.sound \in Nat /\ fault.sound <= Len(Whole) /\ Len(file) = fault.sound
          /\ \A i \in 1..Len(file) : file[i] = Whole[i]

\* A snapshot with entries has a length that is not 0 in the places of the
\* count and of the first key.
LEMMA NotEmpty ==
    ASSUME crc \in Bytes, written \in Seq(Entries), Len(written) <= MaxAlloc, written # << >>
    PROVE  /\ Len(Whole) >= 5 /\ Whole[4].byte # 0 /\ Whole[5].byte # 0
<1> DEFINE e == Sorted(written)[1]
           body == Body(written)
           w == writeEntry(e)
<1>1. Len(written) \in Nat /\ Len(written) >= 1 /\ 1 \in 1..Len(written)
  BY BodyLayout
<1>2. e \in Entries /\ At(body, BodyEnd(written, 0) - 4, w)
  <2>1. 1 - 1 = 0
    OBVIOUS
  <2> QED BY <1>1, <2>1, BodyLayout
<1>3. BodyEnd(written, 0) - 4 = 0 /\ Len(body) \in Nat
  <2>1. BodyEnd(written, 0) = 4
    BY BodyLayout
  <2> QED BY <2>1, BodyLayout
<1>4. Len(w) \in Nat /\ Len(w) >= 1 /\ EntryAt(w, 0, e) /\ Len(e.key) \in Bytes /\ Len(e.key) >= 1
  <2>1. Len(e.key) \in Nat /\ Len(e.val) \in Nat /\ Len(e.key) \in Bytes /\ Len(e.key) >= 1
    BY <1>2, OfEntry
  <2>2. Len(w) = Len(e.key) + Len(e.val) + 4 /\ EntryAt(w, 0, e)
    BY <1>2, EntryLayout
  <2>3. \A i, j \in Nat : i + j + 4 \in Nat /\ i + j + 4 >= 1
    OBVIOUS
  <2>4. Len(w) \in Nat /\ Len(w) >= 1
    BY <2>1, <2>2, <2>3, Zenon
  <2> HIDE DEF e, w
  <2> QED BY <2>1, <2>2, <2>4
<1> HIDE DEF e, body, w
<1>5. Len(body) >= 1 /\ body[1] = Byte(Len(e.key))
  <2>1. At(body, 0, w)
    BY <1>2, <1>3
  <2>2. 0 + 1 = 1 /\ 1 \in 1..Len(w)
    BY <1>4
  <2>3. body[1] = w[1] /\ Len(w) <= Len(body)
    BY <1>3, <1>4, <2>1, <2>2 DEF At
  <2>4. w[1] = Byte(Len(e.key))
    BY <1>4, <2>2 DEF EntryAt
  <2> QED BY <1>3, <1>4, <2>3, <2>4
<1>6. Len(Whole) = 5 + Len(body) /\ Whole[4] = Byte(Len(written)) /\ Len(written) \in Bytes
  BY SnapLayout DEF Whole, body
<1>7. Whole[4 + 1] = body[1]
  <2>1. 1 \in 1..Len(body)
    BY <1>3, <1>5
  <2> QED BY <2>1, SnapLayout DEF Whole, body
<1>8. 4 + 1 = 5 /\ Len(Whole) >= 5
  BY <1>3, <1>6
<1>9. Byte(Len(written)).byte = Len(written) /\ Byte(Len(e.key)).byte = Len(e.key)
  BY <1>4, <1>6, BytePlain
<1>10. Whole[4].byte # 0
  BY <1>1, <1>6, <1>9
<1>11. Whole[5].byte # 0
  BY <1>4, <1>5, <1>7, <1>8, <1>9
<1> QED BY <1>8, <1>10, <1>11

LEMMA InitSnap == CodecInit /\ format = "snapshot" => StaticSnap
<1> SUFFICES ASSUME CodecInit, format = "snapshot" PROVE StaticSnap
  OBVIOUS
<1>1. crc \in Bytes /\ written \in Snapshots /\ (Cut(Whole) \/ Damaged(Whole) \/ Zeroed(Whole) \/ Garbage(Whole))
  BY CodecConstants DEF CodecInit, Whole
<1>2. written \in Seq(Entries) /\ Len(written) <= MaxAlloc
  BY <1>1, CodecConstants
<1>3. /\ Whole \in Seq(Cells) /\ Len(Whole) \in Nat
      /\ \A i \in 1..Len(Whole) : Whole[i].of # << >> => i = Len(Whole)
  BY <1>1, <1>2, SnapLayout DEF Whole
<1>b. \A b \in Bytes : Byte(b) \in Cells /\ Byte(b).of = << >> /\ Byte(b).byte = b
  BY BytePlain, PlainIsCell, OfPlain
<1>z. 0 \in Bytes /\ Magic # 0
  BY Sizes DEF Bytes, Magic
<1>e. written # << >> => Len(Whole) >= 5 /\ Whole[4].byte # 0 /\ Whole[5].byte # 0
  BY <1>1, <1>2, NotEmpty
<1>4. CASE Cut(Whole)
  <2>1. PICK m \in 0..Len(Whole) :
            /\ fault = [kind |-> "cut", sound |-> m, after |-> << >>]
            /\ file = SubSeq(Whole, 1, m) \o EncodeLog(crc, << >>)
    BY <1>4 DEF Cut
  <2>2. EncodeLog(crc, << >>) = << >>
    <3>1. << >> \in Seq(Records)
      OBVIOUS
    <3>2. RecordCode(crc) \in [Records -> Seq(Cells)] /\ EncodeLog(crc, << >>) = Join(<< >>, RecordCode(crc))
      BY <1>1, <3>1, LogJoined
    <3>3. Join(<< >>, RecordCode(crc)) = << >>
      BY <3>1, <3>2, JoinGrows, Zenon
    <3> QED BY <3>2, <3>3, Zenon
  <2>3. /\ SubSeq(Whole, 1, m) \in Seq(Cells) /\ Len(SubSeq(Whole, 1, m)) = m
        /\ \A i \in 1..m : SubSeq(Whole, 1, m)[i] = Whole[i]
    BY <1>3
  <2>4. file = SubSeq(Whole, 1, m)
    <3>1. SubSeq(Whole, 1, m) \o << >> = SubSeq(Whole, 1, m)
      BY <2>3
    <3> QED BY <2>1, <2>2, <3>1, Zenon
  <2>5. file \in Seq(Cells) /\ Len(file) = m /\ \A i \in 1..m : file[i] = Whole[i]
    BY <2>3, <2>4, Zenon
  <2>6. fault.sound = m /\ m \in Nat /\ m <= Len(Whole)
    BY <1>3, <2>1
  <2>7. Len(file) >= 5 /\ file[4].byte = 0 => written = << >>
    <3> SUFFICES ASSUME Len(file) >= 5 PROVE file[4] = Whole[4]
      BY <1>e
    <3>1. 4 \in 1..m
      BY <2>5, <2>6
    <3> QED BY <2>5, <3>1
  <2>8. \A i \in 1..Len(file) : file[i].of # << >> => i = Len(Whole) /\ file[i] = Whole[i]
    BY <1>3, <2>5, <2>6
  <2> QED BY <1>1, <1>2, <2>5, <2>6, <2>7, <2>8 DEF StaticSnap
<1>5. CASE Damaged(Whole)
  <2>1. PICK i \in DOMAIN Whole, b \in Bytes :
            /\ fault = [kind |-> "damaged", sound |-> i - 1, after |-> << >>]
            /\ file = [Whole EXCEPT ![i] = Byte(b)]
    BY <1>5 DEF Damaged
  <2>2. /\ file \in Seq(Cells) /\ Len(file) = Len(Whole) /\ i \in 1..Len(Whole)
        /\ file[i] = Byte(b) /\ \A x \in 1..Len(Whole) : x # i => file[x] = Whole[x]
    BY <1>3, <1>b, <2>1
  <2>3. fault.kind # "cut"
    BY <2>1
  <2>4. \A x \in 1..Len(file) : file[x].of # << >> => x = Len(Whole) /\ file[x] = Whole[x]
    BY <1>3, <1>b, <2>2
  <2>5. Len(file) >= 5 /\ file[4].byte = 0 /\ file[5] = Byte(0) => written = << >>
    <3> SUFFICES ASSUME Len(file) >= 5 PROVE file[4] = Whole[4] \/ file[5] = Whole[5]
      BY <1>b, <1>e, <1>z
    <3>1. 4 \in 1..Len(Whole) /\ 5 \in 1..Len(Whole) /\ (i # 4 \/ i # 5)
      BY <1>3, <2>2
    <3> QED BY <2>2, <3>1
  <2> QED BY <1>1, <1>2, <2>2, <2>3, <2>4, <2>5 DEF StaticSnap
<1>6. CASE Zeroed(Whole)
  <2>1. PICK m \in 0..Len(Whole) :
            /\ m \notin 1..3
            /\ fault = [kind |-> "zeroed", sound |-> m, after |-> << >>]
            /\ file = [i \in DOMAIN Whole |-> IF i <= m THEN Whole[i] ELSE Byte(0)]
    BY <1>6 DEF Zeroed
  <2>2. /\ file \in Seq(Cells) /\ Len(file) = Len(Whole)
        /\ \A x \in 1..Len(Whole) : file[x] = IF x <= m THEN Whole[x] ELSE Byte(0)
    BY <1>3, <1>b, <1>z, <2>1
  <2>3. fault.kind # "cut"
    BY <2>1
  <2>4. \A x \in 1..Len(file) : file[x].of # << >> => x = Len(Whole) /\ file[x] = Whole[x]
    BY <1>3, <1>b, <1>z, <2>2
  <2>5. Len(file) >= 5 /\ file[1].byte = Magic /\ file[4].byte = 0 => written = << >>
    <3> SUFFICES ASSUME Len(file) >= 5, file[1].byte = Magic PROVE file[4] = Whole[4]
      BY <1>e
    <3>1. 1 \in 1..Len(Whole) /\ 4 \in 1..Len(Whole)
      BY <1>3, <2>2
    <3>2. m # 0
      BY <1>b, <1>z, <2>2, <3>1
    <3>3. 4 <= m
      BY <2>1, <3>2
    <3> QED BY <2>2, <3>1, <3>3
  <2> QED BY <1>1, <1>2, <2>2, <2>3, <2>4, <2>5 DEF StaticSnap
<1>7. CASE Garbage(Whole)
  <2>1. PICK g \in Tails :
            /\ fault = [kind |-> "garbage", sound |-> Len(Whole), after |-> << >>]
            /\ file = Whole \o Word(g)
    BY <1>7 DEF Garbage
  <2> DEFINE w == Word(g)
  <2>2. w \in Seq(Plain) /\ w \in Seq(Cells)
    BY CodecConstants, WordPlain, PlainIsCell
  <2>3. \A x \in 1..Len(w) : w[x].of = << >>
    <3>1. \A x \in 1..Len(w) : w[x] \in Plain
      BY <2>2
    <3> QED BY <3>1, OfPlain
  <2>4. file = Whole \o w /\ fault.kind # "cut"
    BY <2>1
  <2> HIDE DEF w
  <2>5. /\ file \in Seq(Cells) /\ Len(file) = Len(Whole) + Len(w) /\ Len(w) \in Nat
        /\ \A x \in 1..Len(Whole) : file[x] = Whole[x]
        /\ \A x \in (Len(Whole) + 1)..(Len(Whole) + Len(w)) : file[x] = w[x - Len(Whole)]
    BY <1>3, <2>2, <2>4
  <2>6. ASSUME NEW x \in 1..Len(file), file[x].of # << >> PROVE x = Len(Whole) /\ file[x] = Whole[x]
    <3>1. CASE x <= Len(Whole)
      <4>1. x \in 1..Len(Whole)
        BY <1>3, <2>5, <3>1
      <4> QED BY <1>3, <2>5, <2>6, <4>1
    <3>2. CASE ~(x <= Len(Whole))
      <4>1. x \in (Len(Whole) + 1)..(Len(Whole) + Len(w)) /\ x - Len(Whole) \in 1..Len(w)
        BY <1>3, <2>5, <3>2
      <4> QED BY <2>3, <2>5, <2>6, <4>1
    <3> QED BY <3>1, <3>2
  <2>7. file[4].byte = 0 => written = << >>
    <3> SUFFICES ASSUME written # << >> PROVE file[4] = Whole[4]
      BY <1>e
    <3>1. 4 \in 1..Len(Whole)
      BY <1>3, <1>e
    <3> QED BY <2>5, <3>1
  <2> QED BY <1>1, <1>2, <2>4, <2>5, <2>6, <2>7 DEF StaticSnap
<1> QED BY <1>1, <1>4, <1>5, <1>6, <1>7

-----------------------------------------------------------------------------
(* Reading a snapshot *)

AtEntry ==
    \E k \in 0..Len(written) :
        got = SubSeq(Sorted(written), 1, k) /\ off = BodyEnd(written, k)

\* As long as the cells read are those that were written, so are the entries.
Following ==
    off <= 4 + Len(Body(written)) /\ (\A i \in 5..off : file[i] = Whole[i]) => AtEntry

SnapInv ==
    format = "snapshot" =>
        /\ StaticSnap
        /\ got \in Seq(EntryLike) /\ off \in Nat /\ status \in {"reading", "done", "error", "panic"}
        /\ off = 0 => got = << >> /\ status = "reading"
        /\ off # 0 => off >= 4
        /\ off # 0 /\ status # "error" => off <= Len(file) /\ file[1].byte = Magic /\ Following
        /\ status = "done" => got = Sorted(written)
        /\ fault.kind = "cut" =>
              /\ status # "panic"
              /\ status = "error" => fault.sound < Len(Whole)
              /\ off # 0 /\ status # "error" => off <= 4 + Len(Body(written))

LEMMA SnapInit == CodecInit => SnapInv
<1> SUFFICES ASSUME CodecInit, format = "snapshot" PROVE SnapInv
  BY DEF SnapInv
<1>1. StaticSnap
  BY InitSnap
<1>2. off = 0 /\ got = << >> /\ status = "reading"
  BY DEF CodecInit
<1> QED BY <1>1, <1>2 DEF SnapInv

\* The end of an entry says which one it is.
LEMMA EntryIs ==
    ASSUME StaticSnap, AtEntry, NEW k \in 0..Len(written), off = BodyEnd(written, k)
    PROVE  got = SubSeq(Sorted(written), 1, k) /\ Len(got) = k
<1> DEFINE t == Sorted(written)
<1>1. PICK j \in 0..Len(written) : got = SubSeq(t, 1, j) /\ off = BodyEnd(written, j)
  BY DEF AtEntry
<1>2. written \in Seq(Entries) /\ Len(written) \in Nat
  BY DEF StaticSnap
<1>3. t \in Seq(Entries) /\ Len(t) = Len(written)
  BY <1>2, BodyLayout
<1>4. BodyEnd(written, j) \in Nat /\ BodyEnd(written, k) \in Nat
  BY <1>2, BodyLayout
<1>5. ~(j < k) /\ ~(k < j)
  <2>1. /\ j < k => BodyEnd(written, j) < BodyEnd(written, k)
        /\ k < j => BodyEnd(written, k) < BodyEnd(written, j)
    BY <1>2, BodyLayout
  <2> QED BY <1>1, <1>4, <2>1
<1>6. j = k
  BY <1>2, <1>5
<1> HIDE DEF t
<1>7. Len(SubSeq(t, 1, k)) = k
  BY <1>2, <1>3
<1> QED BY <1>1, <1>6, <1>7 DEF t

\* The checksum is right only behind the last entry.
LEMMA Footer ==
    ASSUME SnapInv, format = "snapshot", status = "reading", off >= 4, Len(got) = EntryCount,
           off < Len(file), file[off + 1] = Checksum(crc, SubSeq(file, 5, off))
    PROVE  got = Sorted(written)
<1> DEFINE s == SubSeq(file, 5, off)
           body == Body(written)
           N == Len(written)
<1>1. StaticSnap /\ off \in Nat /\ off # 0 /\ Following /\ file[1].byte = Magic
  BY DEF SnapInv
<1>2. /\ crc \in Bytes /\ file \in Seq(Cells) /\ Len(file) \in Nat /\ written \in Seq(Entries) /\ N <= MaxAlloc
      /\ \A i \in 1..Len(file) : file[i].of # << >> => i = Len(Whole) /\ file[i] = Whole[i]
  BY <1>1 DEF StaticSnap
<1>3. /\ Len(Sorted(written)) = N /\ Sorted(written) \in Seq(Entries) /\ N \in Nat /\ body \in Seq(Plain)
      /\ Len(body) \in Nat /\ BodyEnd(written, 0) = 4 /\ BodyEnd(written, N) = 4 + Len(body)
  BY <1>2, BodyLayout
<1>4. /\ Len(Whole) = 5 + Len(body) /\ Whole[Len(Whole)] = Checksum(crc, body)
      /\ \A i \in 1..Len(body) : Whole[4 + i] = body[i]
  BY <1>2, SnapLayout DEF Whole
<1>5. /\ Len(s) = off - 4 /\ \A i \in 1..(off - 4) : s[i] = file[4 + i]
  BY <1>1, <1>2
<1> HIDE DEF s, body
<1>6. CASE off = 4
  <2>1. s = << >>
    BY <1>6 DEF s
  <2>2. Len(file) >= 5 /\ file[5] = Byte(0)
    <3>1. 4 + 1 = 5
      OBVIOUS
    <3> QED BY <1>2, <1>6, <2>1, <3>1 DEF Checksum, s
  <2>3. AtEntry
    <3>1. \A i \in 5..off : FALSE
      BY <1>6
    <3>2. off <= 4 + Len(body)
      BY <1>3, <1>6
    <3> QED BY <1>1, <3>1, <3>2 DEF Following, body
  <2>4. Len(got) = 0 /\ got = SubSeq(Sorted(written), 1, 0)
    <3>1. 0 \in 0..N
      BY <1>3
    <3> QED BY <1>1, <1>3, <1>6, <2>3, <3>1, EntryIs
  <2>5. file[4].byte = 0
    BY <2>4 DEF EntryCount
  <2>6. written = << >>
    BY <1>1, <2>2, <2>5 DEF StaticSnap
  <2>7. Sorted(written) = << >> /\ SubSeq(Sorted(written), 1, 0) = << >>
    BY <1>3, <2>6
  <2> QED BY <2>4, <2>7
<1>7. CASE off # 4
  <2>1. s # << >>
    BY <1>1, <1>5, <1>7
  <2>2. file[off + 1].of = s /\ off + 1 \in 1..Len(file)
    BY <1>1, <1>2, <2>1 DEF Checksum, s
  <2>3. off + 1 = Len(Whole) /\ file[off + 1] = Checksum(crc, body)
    BY <1>2, <1>4, <2>1, <2>2
  <2>4. s = body
    <3>1. CASE body = << >>
      BY <2>1, <2>2, <2>3, <3>1 DEF Checksum, Byte
    <3>2. CASE body # << >>
      <4>1. Checksum(crc, body) = [byte |-> crc, of |-> body]
        BY <3>2, Checksummed
      <4>2. Checksum(crc, body).of = body
        BY <4>1
      <4> QED BY <2>2, <2>3, <4>2, Zenon
    <3> QED BY <3>1, <3>2
  <2>5. off = 4 + Len(body)
    BY <1>1, <1>3, <1>4, <2>3
  <2>6. ASSUME NEW i \in 5..off PROVE file[i] = Whole[i]
    <3>1. i - 4 \in 1..(off - 4) /\ i - 4 \in 1..Len(body) /\ 4 + (i - 4) = i
      BY <1>1, <1>3, <2>5
    <3> QED BY <1>4, <1>5, <2>4, <3>1
  <2>7. AtEntry
    <3>1. off <= 4 + Len(body)
      BY <1>3, <2>5
    <3> QED BY <1>1, <2>6, <3>1 DEF Following, body
  <2>8. got = SubSeq(Sorted(written), 1, N)
    <3>1. N \in 0..N
      BY <1>3
    <3> QED BY <1>1, <1>3, <2>5, <2>7, <3>1, EntryIs
  <2>9. SubSeq(Sorted(written), 1, N) = Sorted(written)
    BY <1>3
  <2> QED BY <2>8, <2>9
<1> QED BY <1>6, <1>7

\* What of a snapshot is left is as it was written, if that was cut off.
LEMMA CutIs ==
    ASSUME SnapInv, format = "snapshot", fault.kind = "cut", status = "reading", off # 0
    PROVE  /\ \A i \in 1..Len(file) : file[i] = Whole[i]
           /\ Len(file) = fault.sound /\ Len(file) \in Nat
           /\ AtEntry /\ EntryCount = Len(written) /\ off <= 4 + Len(Body(written))
<1>1. /\ StaticSnap /\ off \in Nat /\ off >= 4 /\ off <= Len(file) /\ Following
      /\ off <= 4 + Len(Body(written))
  BY DEF SnapInv
<1>2. /\ crc \in Bytes /\ Len(file) \in Nat /\ written \in Seq(Entries) /\ Len(written) <= MaxAlloc
      /\ \A i \in 1..Len(file) : file[i] = Whole[i]
      /\ Len(file) = fault.sound
  BY <1>1 DEF StaticSnap
<1>3. \A i \in 5..off : file[i] = Whole[i]
  BY <1>1, <1>2
<1>4. Whole[4] = Byte(Len(written)) /\ Len(written) \in Bytes /\ file[4] = Whole[4]
  BY <1>1, <1>2, SnapLayout DEF Whole
<1>5. EntryCount = Len(written)
  BY <1>4, BytePlain DEF EntryCount
<1> QED BY <1>1, <1>2, <1>3, <1>5 DEF Following

LEMMA HeaderStep ==
    ASSUME SnapInv, ReadHeader
    PROVE  SnapInv'
<1> DEFINE valid == Len(file) >= 4 /\ file[1].byte = Magic
<1>1. /\ format = "snapshot" /\ status = "reading" /\ off = 0 /\ off' = 4 /\ UNCHANGED given /\ got' = got
      /\ ~valid => status' = "error"
      /\ valid /\ EntryCount > MaxAlloc => status' = "panic"
      /\ valid /\ ~(EntryCount > MaxAlloc) => status' = status
  BY DEF ReadHeader, Reading
<1>g. format' = format /\ written' = written /\ fault' = fault /\ crc' = crc /\ file' = file
  BY <1>1 DEF given
<1>2. StaticSnap /\ got = << >> /\ got \in Seq(EntryLike)
  BY <1>1 DEF SnapInv
<1>3. StaticSnap'
  BY <1>2, <1>g DEF StaticSnap, Whole
<1>4. /\ crc \in Bytes /\ Len(file) \in Nat /\ written \in Seq(Entries) /\ Len(written) <= MaxAlloc
  BY <1>2 DEF StaticSnap
<1>5. AtEntry'
  <2>1. 0 \in 0..Len(written) /\ BodyEnd(written, 0) = 4 /\ SubSeq(Sorted(written), 1, 0) = << >>
    BY <1>4, BodyLayout
  <2>2. got' = SubSeq(Sorted(written'), 1, 0) /\ off' = BodyEnd(written', 0) /\ 0 \in 0..Len(written')
    BY <1>1, <1>2, <1>g, <2>1
  <2> QED BY <2>2 DEF AtEntry
<1>6. /\ Len(Body(written)) \in Nat /\ Len(Whole) = 5 + Len(Body(written))
      /\ Whole[1] = Byte(Magic) /\ Whole[4] = Byte(Len(written)) /\ Len(written) \in Bytes
  BY <1>4, BodyLayout, SnapLayout DEF Whole
<1>7. ASSUME fault.kind = "cut"
      PROVE  status' # "panic" /\ (status' = "error" => fault.sound < Len(Whole))
  <2>1. Len(file) = fault.sound /\ \A i \in 1..Len(file) : file[i] = Whole[i]
    BY <1>2, <1>7 DEF StaticSnap
  <2>2. Len(file) >= 4 => file[1].byte = Magic /\ EntryCount = Len(written)
    <3> SUFFICES ASSUME Len(file) >= 4 PROVE file[1].byte = Magic /\ EntryCount = Len(written)
      OBVIOUS
    <3>1. file[1] = Byte(Magic) /\ file[4] = Byte(Len(written))
      BY <1>4, <1>6, <2>1
    <3>2. Magic \in Bytes
      BY Sizes DEF Bytes, Magic
    <3> QED BY <1>6, <3>1, <3>2, BytePlain DEF EntryCount
  <2>3. Len(written) \in Nat /\ MaxAlloc \in Nat
    BY <1>4, CodecConstants, Sizes DEF Bytes
  <2>4. ~valid => Len(file) < Len(Whole)
    BY <1>4, <1>6, <2>2
  <2>5. ~(valid /\ EntryCount > MaxAlloc)
    BY <1>4, <2>2, <2>3
  <2> HIDE DEF valid
  <2> QED BY <1>1, <2>1, <2>4, <2>5
<1>8. status' # "error" => valid
  BY <1>1
<1>9. off' <= 4 + Len(Body(written)) /\ off' \in Nat /\ off' # 0 /\ off' >= 4
  BY <1>1, <1>6
<1>10. status' \in {"reading", "error", "panic"}
  <2> HIDE DEF valid
  <2> QED BY <1>1
<1>11. Whole' = Whole
  BY <1>g DEF Whole
<1> QED
  <2> SUFFICES ASSUME format' = "snapshot" PROVE SnapInv'
    BY DEF SnapInv
  <2>1. got' \in Seq(EntryLike)
    BY <1>1, <1>2
  <2>2. status' # "error" => off' <= Len(file') /\ file'[1].byte = Magic /\ Following'
    BY <1>1, <1>4, <1>5, <1>8, <1>g DEF Following
  <2>3. fault'.kind = "cut" =>
              /\ status' # "panic"
              /\ status' = "error" => fault'.sound < Len(Whole')
              /\ off' # 0 /\ status' # "error" => off' <= 4 + Len(Body(written'))
    BY <1>7, <1>9, <1>11, <1>g
  <2>4. status' \in {"reading", "done", "error", "panic"} /\ status' # "done"
    BY <1>10
  <2> QED BY <1>3, <1>9, <2>1, <2>2, <2>3, <2>4 DEF SnapInv

LEMMA EntryStep ==
    ASSUME SnapInv, ReadEntry
    PROVE  SnapInv'
<1> DEFINE e == readEntry(off + 1)
           N == Len(written)
           t == Sorted(written)
<1>1. /\ format = "snapshot" /\ status = "reading" /\ off >= 4 /\ Len(got) < EntryCount /\ UNCHANGED given
      /\ \/ e.how = "ok" /\ got' = Append(got, e.rec) /\ off' = e.end /\ status' = status
         \/ /\ e.how # "ok" /\ status' = IF e.how = "panic" THEN "panic" ELSE "error"
            /\ off' = off /\ got' = got
  BY DEF ReadEntry, Reading
<1>g. format' = format /\ written' = written /\ fault' = fault /\ crc' = crc /\ file' = file
  BY <1>1 DEF given
<1>2. /\ StaticSnap /\ got \in Seq(EntryLike) /\ off \in Nat /\ off # 0
      /\ off <= Len(file) /\ file[1].byte = Magic /\ Following
      /\ fault.kind = "cut" => off <= 4 + Len(Body(written))
  BY <1>1 DEF SnapInv
<1>3. StaticSnap'
  BY <1>2, <1>g DEF StaticSnap, Whole
<1>4. /\ crc \in Bytes /\ file \in Seq(Cells) /\ Len(file) \in Nat /\ written \in Seq(Entries)
      /\ N <= MaxAlloc
  BY <1>2 DEF StaticSnap
<1>5. /\ t \in Seq(Entries) /\ Len(t) = N /\ N \in Nat /\ Len(Body(written)) \in Nat
      /\ BodyEnd(written, N) = 4 + Len(Body(written))
      /\ \A k \in 0..N : BodyEnd(written, k) \in Nat /\ BodyEnd(written, k) >= 4
  BY <1>4, BodyLayout
<1>6. /\ Len(Whole) = 5 + Len(Body(written))
      /\ \A i \in 1..Len(Body(written)) : Whole[4 + i] = Body(written)[i]
  BY <1>4, SnapLayout DEF Whole
<1>w. Whole' = Whole
  BY <1>g DEF Whole
<1>7. ASSUME NEW k \in 0..N, k < N, off = BodyEnd(written, k)
      PROVE  /\ k + 1 \in 0..N /\ t[k + 1] \in Entries /\ At(Whole, off, writeEntry(t[k + 1]))
             /\ off + Len(writeEntry(t[k + 1])) = BodyEnd(written, k + 1)
             /\ BodyEnd(written, k + 1) <= 4 + Len(Body(written))
  <2> DEFINE w == writeEntry(t[k + 1])
             body == Body(written)
  <2>1. k + 1 \in 1..N /\ k + 1 \in 0..N /\ (k + 1) - 1 = k /\ N \in 0..N
    BY <1>5, <1>7
  <2>2. /\ t[k + 1] \in Entries /\ BodyEnd(written, k + 1) = off + Len(w) /\ At(body, off - 4, w)
    BY <1>4, <1>7, <2>1, BodyLayout
  <2>3. BodyEnd(written, k + 1) <= 4 + Len(body)
    <3>1. CASE k + 1 = N
      BY <1>5, <3>1
    <3>2. CASE k + 1 # N
      <4>1. k + 1 < N
        BY <1>5, <2>1, <3>2
      <4>2. BodyEnd(written, k + 1) < BodyEnd(written, N)
        BY <1>4, <2>1, <4>1, BodyLayout
      <4> QED BY <1>5, <2>1, <4>2
    <3> QED BY <3>1, <3>2
  <2>4. Len(w) \in Nat
    <3>1. w \in Seq(Plain)
      BY <2>2, EntryLayout
    <3> QED BY <3>1
  <2>5. At(Whole, off, w)
    <3> HIDE DEF w, body, t, N
    <3>1. off - 4 + Len(w) <= Len(body) /\ \A i \in 1..Len(w) : body[off - 4 + i] = w[i]
      BY <2>2 DEF At
    <3>2. off + Len(w) <= Len(Whole)
      BY <1>2, <1>5, <1>6, <2>4, <3>1 DEF body
    <3>3. ASSUME NEW i \in 1..Len(w) PROVE Whole[off + i] = w[i]
      <4>1. off - 4 + i \in 1..Len(body) /\ 4 + (off - 4 + i) = off + i
        BY <1>1, <1>2, <1>5, <2>4, <3>1 DEF body
      <4> QED BY <1>6, <3>1, <4>1 DEF body
    <3> QED BY <3>2, <3>3 DEF At
  <2> QED BY <2>1, <2>2, <2>3, <2>5
<1> HIDE DEF t
<1>8. CASE e.how = "ok"
  <2>1. got' = Append(got, e.rec) /\ off' = e.end /\ status' = "reading"
    BY <1>1, <1>8
  <2>2. e.end \in Nat /\ e.end > off + 1 /\ e.end <= Len(file) /\ e.rec \in EntryLike
    <3>1. off + 1 \in Nat /\ off + 1 >= 1
      BY <1>2
    <3> QED BY <1>4, <1>8, <3>1, EntryShape
  <2> HIDE DEF e
  <2>3. /\ got' \in Seq(EntryLike) /\ off' \in Nat /\ off' # 0 /\ off' >= 4 /\ off' <= Len(file)
    BY <1>1, <1>2, <2>1, <2>2
  <2>4. ASSUME off' <= 4 + Len(Body(written)), \A i \in 5..off' : file[i] = Whole[i]
        PROVE  \E k \in 0..N : /\ got' = SubSeq(t, 1, k) /\ off' = BodyEnd(written, k)
                               /\ off' <= 4 + Len(Body(written))
    <3>1. off < off' /\ off < 4 + Len(Body(written))
      BY <1>2, <1>5, <2>1, <2>2, <2>4
    <3>2. \A i \in 5..off : file[i] = Whole[i]
      BY <1>2, <2>3, <2>4, <3>1
    <3>3. AtEntry
      BY <1>2, <1>5, <3>1, <3>2 DEF Following
    <3>4. PICK k \in 0..N : got = SubSeq(t, 1, k) /\ off = BodyEnd(written, k)
      BY <3>3 DEF AtEntry, t
    <3>5. k < N
      BY <1>5, <3>1, <3>4
    <3>6. /\ k + 1 \in 0..N /\ t[k + 1] \in Entries /\ At(Whole, off, writeEntry(t[k + 1]))
          /\ off + Len(writeEntry(t[k + 1])) = BodyEnd(written, k + 1)
          /\ BodyEnd(written, k + 1) <= 4 + Len(Body(written))
      BY <1>7, <3>4, <3>5
    <3>7. \A i \in (off + 1)..readEntry(off + 1).end : file[i] = Whole[i]
      <4>1. \A i \in (off + 1)..off' : i \in 5..off'
        BY <1>1, <1>2, <2>3
      <4> QED BY <2>1, <2>4, <4>1 DEF e
    <3>8. e.rec = t[k + 1] /\ e.end = off + Len(writeEntry(t[k + 1]))
      BY <1>2, <1>4, <1>8, <3>6, <3>7, EntryRead DEF e
    <3>9. got' = SubSeq(t, 1, k + 1)
      <4>1. Append(SubSeq(t, 1, k), t[k + 1]) = SubSeq(t, 1, k + 1)
        BY <1>5, <3>5
      <4> QED BY <2>1, <3>4, <3>8, <4>1
    <3> QED BY <2>1, <2>4, <3>6, <3>8, <3>9
  <2>5. Following'
    <3> SUFFICES ASSUME off' <= 4 + Len(Body(written)), \A i \in 5..off' : file[i] = Whole[i]
                 PROVE  AtEntry'
      BY <1>g, <1>w DEF Following
    <3>1. PICK k \in 0..N : got' = SubSeq(t, 1, k) /\ off' = BodyEnd(written, k)
      BY <2>4
    <3> QED BY <1>g, <3>1 DEF AtEntry, t
  <2>6. fault.kind = "cut" => off' <= 4 + Len(Body(written))
    <3> SUFFICES ASSUME fault.kind = "cut" PROVE off' <= 4 + Len(Body(written))
      OBVIOUS
    <3>1. (\A i \in 1..Len(file) : file[i] = Whole[i]) /\ AtEntry /\ EntryCount = N
      BY <1>1, <1>2, CutIs
    <3>2. PICK k \in 0..N : got = SubSeq(t, 1, k) /\ off = BodyEnd(written, k)
      BY <3>1 DEF AtEntry, t
    <3>3. k < N
      <4>1. Len(got) = k
        BY <1>2, <3>1, <3>2, EntryIs
      <4> QED BY <1>1, <3>1, <4>1
    <3>4. /\ t[k + 1] \in Entries /\ At(Whole, off, writeEntry(t[k + 1]))
          /\ off + Len(writeEntry(t[k + 1])) <= 4 + Len(Body(written))
      BY <1>7, <3>2, <3>3
    <3>5. \A i \in (off + 1)..readEntry(off + 1).end : file[i] = Whole[i]
      <4>1. \A i \in (off + 1)..off' : i \in 1..Len(file)
        BY <1>2, <1>4, <2>3
      <4> QED BY <2>1, <3>1, <4>1 DEF e
    <3>6. e.end = off + Len(writeEntry(t[k + 1]))
      BY <1>2, <1>4, <1>8, <3>4, <3>5, EntryRead DEF e
    <3> QED BY <2>1, <3>4, <3>6
  <2> QED BY <1>2, <1>3, <1>g, <1>w, <2>1, <2>3, <2>5, <2>6 DEF SnapInv
<1>9. CASE e.how # "ok"
  <2>1. got' = got /\ off' = off /\ status' = IF e.how = "panic" THEN "panic" ELSE "error"
    BY <1>1, <1>9
  <2>2. AtEntry' <=> AtEntry
    BY <1>g, <2>1 DEF AtEntry
  <2>3. Following'
    BY <1>2, <1>g, <1>w, <2>1, <2>2 DEF Following
  <2>4. fault.kind = "cut" => status' = "error" /\ fault.sound < Len(Whole)
    <3> SUFFICES ASSUME fault.kind = "cut" PROVE e.how = "bad" /\ fault.sound < Len(Whole)
      BY <2>1
    <3>1. /\ \A i \in 1..Len(file) : file[i] = Whole[i]
          /\ AtEntry /\ EntryCount = N /\ Len(file) = fault.sound
      BY <1>1, <1>2, CutIs
    <3>2. PICK k \in 0..N : got = SubSeq(t, 1, k) /\ off = BodyEnd(written, k)
      BY <3>1 DEF AtEntry, t
    <3>3. k < N
      <4>1. Len(got) = k
        BY <1>2, <3>1, <3>2, EntryIs
      <4> QED BY <1>1, <3>1, <4>1
    <3>4. /\ t[k + 1] \in Entries /\ At(Whole, off, writeEntry(t[k + 1]))
          /\ off + Len(writeEntry(t[k + 1])) <= 4 + Len(Body(written))
          /\ off + Len(writeEntry(t[k + 1])) = BodyEnd(written, k + 1) /\ k + 1 \in 0..N
      BY <1>7, <3>2, <3>3
    <3>5. e.how = "bad" /\ Len(file) < off + Len(writeEntry(t[k + 1]))
      BY <1>2, <1>4, <1>9, <3>1, <3>4, EntryCut
    <3>6. off + Len(writeEntry(t[k + 1])) \in Nat
      BY <1>5, <3>4
    <3> QED BY <1>4, <1>5, <1>6, <3>1, <3>4, <3>5, <3>6
  <2> HIDE DEF e
  <2>5. status' \in {"panic", "error"}
    BY <2>1
  <2> QED BY <1>1, <1>2, <1>3, <1>g, <1>w, <2>1, <2>3, <2>4, <2>5 DEF SnapInv
<1> QED BY <1>8, <1>9

LEMMA FooterStep ==
    ASSUME SnapInv, CheckFooter
    PROVE  SnapInv'
<1> DEFINE right == off < Len(file) /\ file[off + 1] = Checksum(crc, SubSeq(file, 5, off))
<1>1. /\ format = "snapshot" /\ status = "reading" /\ off >= 4 /\ Len(got) = EntryCount /\ UNCHANGED given
      /\ off' = off /\ got' = got
      /\ right => status' = "done"
      /\ ~right => status' = "error"
  BY DEF CheckFooter, Reading
<1>g. format' = format /\ written' = written /\ fault' = fault /\ crc' = crc /\ file' = file
  BY <1>1 DEF given
<1>2. /\ StaticSnap /\ got \in Seq(EntryLike) /\ off \in Nat /\ off # 0
      /\ off <= Len(file) /\ file[1].byte = Magic /\ Following
      /\ fault.kind = "cut" => off <= 4 + Len(Body(written))
  BY <1>1 DEF SnapInv
<1>3. StaticSnap' /\ Whole' = Whole
  BY <1>2, <1>g DEF StaticSnap, Whole
<1>4. Following'
  <2>1. AtEntry' <=> AtEntry
    BY <1>1, <1>g DEF AtEntry
  <2> QED BY <1>1, <1>2, <1>3, <1>g, <2>1 DEF Following
<1>5. right => got = Sorted(written)
  BY <1>1, Footer
<1>6. fault.kind = "cut" /\ ~right => fault.sound < Len(Whole)
  <2> SUFFICES ASSUME fault.kind = "cut", ~(Len(file) < Len(Whole)) PROVE right
    <3>1. fault.kind = "cut" => fault.sound = Len(file)
      BY <1>2 DEF StaticSnap
    <3> QED BY <3>1
  <2> DEFINE body == Body(written)
             N == Len(written)
  <2>1. /\ \A i \in 1..Len(file) : file[i] = Whole[i]
        /\ AtEntry /\ EntryCount = N /\ Len(file) \in Nat
    BY <1>1, <1>2, CutIs
  <2>2. crc \in Bytes /\ file \in Seq(Cells) /\ written \in Seq(Entries) /\ N <= MaxAlloc
    BY <1>2 DEF StaticSnap
  <2>3. /\ N \in Nat /\ body \in Seq(Plain) /\ Len(body) \in Nat /\ BodyEnd(written, N) = 4 + Len(body)
    BY <2>2, BodyLayout
  <2>4. /\ Len(Whole) = 5 + Len(body) /\ Whole[Len(Whole)] = Checksum(crc, body)
        /\ \A i \in 1..Len(body) : Whole[4 + i] = body[i]
    BY <2>2, SnapLayout DEF Whole
  <2>5. PICK k \in 0..N : off = BodyEnd(written, k)
    BY <2>1 DEF AtEntry
  <2>6. k = N
    <3>1. Len(got) = k
      BY <1>2, <2>1, <2>5, EntryIs
    <3> QED BY <1>1, <2>1, <3>1
  <2> HIDE DEF body
  <2>7. off = 4 + Len(body) /\ off + 1 = Len(Whole) /\ off + 1 \in 1..Len(file) /\ off < Len(file)
    BY <1>2, <2>1, <2>3, <2>4, <2>5, <2>6
  <2>8. file[off + 1] = Checksum(crc, body)
    BY <2>1, <2>4, <2>7
  <2>9. SubSeq(file, 5, off) = body
    <3>1. Len(SubSeq(file, 5, off)) = Len(body) /\ SubSeq(file, 5, off) \in Seq(Cells)
          /\ \A i \in 1..Len(body) : SubSeq(file, 5, off)[i] = file[4 + i]
      BY <2>2, <2>3, <2>7
    <3>2. \A i \in 1..Len(body) : file[4 + i] = body[i]
      <4> TAKE i \in 1..Len(body)
      <4>1. 4 + i \in 1..Len(file)
        BY <2>1, <2>3, <2>7
      <4> QED BY <2>1, <2>4, <4>1
    <3> DEFINE s == SubSeq(file, 5, off)
    <3> HIDE DEF s
    <3>3. s = [i \in 1..Len(body) |-> s[i]] /\ body = [i \in 1..Len(body) |-> body[i]]
      BY <2>3, <3>1, SMTT(30) DEF s
    <3>4. \A i \in 1..Len(body) : s[i] = body[i]
      BY <3>1, <3>2 DEF s
    <3>5. s = body
      BY <3>3, <3>4
    <3> QED BY <3>5 DEF s
  <2> QED BY <2>7, <2>8, <2>9
<1> HIDE DEF right
<1> QED BY <1>1, <1>2, <1>3, <1>4, <1>5, <1>6, <1>g DEF SnapInv

LEMMA SnapStep == SnapInv /\ [CodecNext]_codecVars => SnapInv'
<1> SUFFICES ASSUME SnapInv, [CodecNext]_codecVars PROVE SnapInv'
  OBVIOUS
<1>1. CASE ReadHeader
  BY <1>1, HeaderStep
<1>2. CASE ReadEntry
  BY <1>2, EntryStep
<1>3. CASE CheckFooter
  BY <1>3, FooterStep
<1>4. CASE ReadRecord \/ EndOfLog
  <2>1. format = "log" /\ format' = format
    BY <1>4 DEF ReadRecord, EndOfLog, Reading, given
  <2> QED BY <2>1 DEF SnapInv
<1>5. CASE UNCHANGED codecVars
  <2>1. /\ format' = format /\ written' = written /\ fault' = fault /\ crc' = crc /\ file' = file
        /\ off' = off /\ got' = got /\ status' = status
    BY <1>5 DEF codecVars, given
  <2>2. Whole' = Whole /\ (StaticSnap => StaticSnap')
    BY <2>1 DEF StaticSnap, Whole
  <2>3. Following => Following'
    BY <2>1, <2>2 DEF Following, AtEntry
  <2> QED BY <2>1, <2>2, <2>3 DEF SnapInv
<1> QED BY <1>1, <1>2, <1>3, <1>4, <1>5 DEF CodecNext

LEMMA SnapAlways == CodecSpec => []SnapInv
<1> QED BY SnapInit, SnapStep, PTL DEF CodecSpec

(***************************************************************************)
(* A snapshot is read as a whole or not at all, and one that was written   *)
(* to its end is never refused: for every sequence of entries, whatever    *)
(* has happened to one place of the file (snapshot/format.go:18-118).      *)
(***************************************************************************)
THEOREM SnapshotIsWhole == CodecSpec => []SnapshotWhole
<1>1. SnapInv => SnapshotWhole
  BY DEF SnapInv, SnapshotWhole, Whole
<1> QED BY <1>1, SnapAlways, PTL

(***************************************************************************)
(* What is read of either file is made of bytes and times, and the reader  *)
(* never passes the end of the file unless it has refused it.              *)
(***************************************************************************)
THEOREM CodecType == CodecSpec => []TypeOK
<1>1. LogInv /\ format = "log" => TypeOK
  <2> SUFFICES ASSUME LogInv, format = "log" PROVE TypeOK
    OBVIOUS
  <2>1. /\ StaticLog /\ got \in Seq(Records) /\ off \in Nat /\ off <= Len(file)
        /\ status \in {"reading", "done", "panic"}
    BY DEF LogInv
  <2>2. file \in Seq(Cells) /\ Len(file) \in Nat
    BY <2>1 DEF StaticLog
  <2>3. \A i \in DOMAIN file : file[i].byte \in Bytes
    <3>1. \A i \in DOMAIN file : file[i] \in Cells
      BY <2>2
    <3> QED BY <3>1, OfCell
  <2>4. \A i \in DOMAIN got : /\ got[i].key \in Seq(Bytes) /\ got[i].val \in Seq(Bytes)
                              /\ Fits(got[i].exp, TimeBytes) /\ Fits(got[i].ts, TimeBytes)
    <3>1. \A i \in DOMAIN got : got[i] \in Records
      BY <2>1
    <3> QED BY <3>1, OfRecord
  <2> QED BY <2>1, <2>2, <2>3, <2>4 DEF TypeOK
<1>2. SnapInv /\ format = "snapshot" => TypeOK
  <2> SUFFICES ASSUME SnapInv, format = "snapshot" PROVE TypeOK
    OBVIOUS
  <2>1. /\ StaticSnap /\ got \in Seq(EntryLike) /\ off \in Nat
        /\ status \in {"reading", "done", "error", "panic"}
        /\ off # 0 /\ status # "error" => off <= Len(file)
    BY DEF SnapInv
  <2>2. file \in Seq(Cells) /\ Len(file) \in Nat
    BY <2>1 DEF StaticSnap
  <2>3. \A i \in DOMAIN file : file[i].byte \in Bytes
    <3>1. \A i \in DOMAIN file : file[i] \in Cells
      BY <2>2
    <3> QED BY <3>1, OfCell
  <2>4. \A i \in DOMAIN got : /\ got[i].key \in Seq(Bytes) /\ got[i].val \in Seq(Bytes)
                              /\ Fits(got[i].exp, 1) /\ Fits(got[i].ts, 1)
    <3>1. \A i \in DOMAIN got : got[i] \in EntryLike
      BY <2>1
    <3> QED BY <3>1 DEF EntryLike
  <2> QED BY <2>1, <2>2, <2>3, <2>4 DEF TypeOK
<1>3. CodecSpec => [](format \in {"log", "snapshot"})
  <2>1. CodecInit => format \in {"log", "snapshot"}
    BY DEF CodecInit
  <2>2. format \in {"log", "snapshot"} /\ [CodecNext]_codecVars => (format \in {"log", "snapshot"})'
    <3>1. [CodecNext]_codecVars => format' = format
      BY DEF CodecNext, ReadRecord, EndOfLog, ReadHeader, ReadEntry, CheckFooter, codecVars, given
    <3> QED BY <3>1
  <2> QED BY <2>1, <2>2, PTL DEF CodecSpec
<1>4. LogInv /\ SnapInv /\ format \in {"log", "snapshot"} => TypeOK
  BY <1>1, <1>2
<1> QED BY <1>3, <1>4, LogAlways, SnapAlways, PTL

=============================================================================
