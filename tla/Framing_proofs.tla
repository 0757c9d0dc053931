--------------------------- MODULE Framing_proofs ---------------------------
(***************************************************************************)
(* Theorems about Framing, for any messages, limits and radix.             *)
(***************************************************************************)
EXTENDS Framing, Integers, SequenceTheorems, WellFoundedInduction, TLAPS

Bytes == [type : {"digit", "comma", "json"}, value : Nat]

-----------------------------------------------------------------------------
(***************************************************************************)
(* Induction.  NaturalsInduction states it with an operator for the        *)
(* predicate; over a set it follows from well-foundedness.                 *)
(***************************************************************************)
LEMMA Least ==
  ASSUME NEW T, T \subseteq Nat, T # {}
  PROVE  \E x \in T : \A y \in T : x <= y
<1> DEFINE R == {ss \in Nat \X Nat : ss[1] < ss[2]}
<1>1. IsWellFoundedOn(R, Nat)
  BY NatLessThanWellFounded DEF OpToRel
<1> HIDE DEF R
<1>2. PICK x \in T : \A y \in T : <<y, x>> \notin R
  BY <1>1, WFMin
<1>3. \A y \in T : ~ (y < x)
  BY <1>2 DEF R
<1> QED BY <1>3

LEMMA Induct ==
  ASSUME NEW P, 0 \in P, \A n \in Nat : n \in P => n + 1 \in P
  PROVE  Nat \subseteq P
<1> SUFFICES ASSUME Nat \ P # {} PROVE FALSE
  OBVIOUS
<1>1. PICK x \in Nat \ P : \A y \in Nat \ P : x <= y
  BY Least
<1>2. x - 1 \in Nat /\ x - 1 \in P
  BY <1>1
<1> QED BY <1>2, <1>1

LEMMA StrongInduct ==
  ASSUME NEW P, \A n \in Nat : (\A k \in 0 .. n - 1 : k \in P) => n \in P
  PROVE  Nat \subseteq P
<1> SUFFICES ASSUME Nat \ P # {} PROVE FALSE
  OBVIOUS
<1>1. PICK x \in Nat \ P : \A y \in Nat \ P : x <= y
  BY Least
<1>2. \A k \in 0 .. x - 1 : k \in P
  BY <1>1
<1> QED BY <1>2, <1>1

-----------------------------------------------------------------------------
(***************************************************************************)
(* Numbers and their digits.                                               *)
(***************************************************************************)
LEMMA Limits ==
  /\ Radix \in Nat /\ Radix > 1
  /\ Lengths \subseteq Nat
  /\ MaxMessages \in Nat
  /\ NoWriter \notin Writers
  /\ SegmentSize \in Nat /\ MaxHeader \in Nat /\ MaxLen \in Nat /\ MaxToken \in Nat
  /\ MaxHeader > 0 /\ MaxToken > 0
BY FramingAssumption

Shifted(n) == n * Radix

LEMMA Division ==
  ASSUME NEW n \in Nat, n >= Radix
  PROVE  /\ n \div Radix \in 1 .. n - 1
         /\ n % Radix \in 0 .. Radix - 1
         /\ n = Shifted(n \div Radix) + (n % Radix)
<1>0. Radix \in Nat /\ Radix > 1
  BY Limits
<1>1. /\ n \div Radix \in Int
      /\ n % Radix \in 0 .. Radix - 1
      /\ n = Radix * (n \div Radix) + (n % Radix)
  BY <1>0
<1> DEFINE q == n \div Radix
<1>2. q \in Int /\ n = Radix * q + (n % Radix) /\ n % Radix \in 0 .. Radix - 1
  BY <1>1
<1> HIDE DEF q
<1>3. q > 0
  BY <1>0, <1>2
<1>4. Radix * q > q
  BY <1>0, <1>2, <1>3
<1>5. q < n
  BY <1>0, <1>2, <1>4
<1>6. Radix * q = q * Radix
  BY <1>0, <1>2
<1> QED BY <1>1, <1>2, <1>3, <1>5, <1>6 DEF q, Shifted

LEMMA Scaled ==
  ASSUME NEW a \in Nat
  PROVE  Shifted(a) \in Nat /\ Shifted(a) >= a /\ (a = 0 => Shifted(a) = 0)
BY Limits DEF Shifted

LEMMA ScaledSum ==
  ASSUME NEW a \in Nat, NEW b \in Nat, NEW c \in Nat, a >= b + c
  PROVE  Shifted(a) >= Shifted(b) + Shifted(c)
<1>1. Radix \in Nat /\ Radix >= 1
  BY Limits
<1>2. a * Radix >= (b + c) * Radix
  BY <1>1
<1>3. (b + c) * Radix = b * Radix + c * Radix
  BY <1>1
<1> QED BY <1>2, <1>3 DEF Shifted

\* Digits is what its recursion says: the unique functions on 0 .. n that follow
\* it agree, and together they are one on Nat.
Digit(n) == Byte("digit", n)
Follows(g, n) ==
  \A i \in 0 .. n :
    g[i] = IF i < Radix THEN <<Digit(i)>> ELSE Append(g[i \div Radix], Digit(i % Radix))

LEMMA FollowsUnique ==
  ASSUME NEW g, NEW h, NEW m \in Nat, NEW n \in Nat, m <= n, Follows(g, n), Follows(h, m)
  PROVE  g[m] = h[m]
<1> DEFINE P == {i \in Nat : i <= m => g[i] = h[i]}
<1>1. ASSUME NEW i \in Nat, \A k \in 0 .. i - 1 : k \in P
      PROVE  i \in P
  <2> SUFFICES ASSUME i <= m PROVE g[i] = h[i]
    OBVIOUS
  <2>0. i \in 0 .. n /\ i \in 0 .. m
    OBVIOUS
  <2>1. CASE i < Radix
    BY <2>0, <2>1 DEF Follows
  <2>2. CASE i >= Radix
    <3>1. i \div Radix \in 0 .. i - 1
      BY <2>2, Division
    <3>2. g[i \div Radix] = h[i \div Radix]
      BY <1>1, <3>1
    <3>3. ~ (i < Radix)
      BY <2>2, Limits
    <3> QED BY <2>0, <3>2, <3>3 DEF Follows
  <2> QED BY <2>1, <2>2, Limits
<1> HIDE DEF P
<1>2. Nat \subseteq P
  BY <1>1, StrongInduct
<1> QED BY <1>2 DEF P

LEMMA FollowsExists ==
  ASSUME NEW n \in Nat
  PROVE  \E g : Follows(g, n)
<1> DEFINE P == {k \in Nat : \E g : Follows(g, k)}
<1>1. 0 \in P
  <2>1. Follows([i \in {0} |-> <<Digit(0)>>], 0)
    BY Limits DEF Follows
  <2> QED BY <2>1
<1>2. ASSUME NEW k \in Nat, k \in P
      PROVE  k + 1 \in P
  <2>1. PICK g : Follows(g, k)
    BY <1>2
  <2> DEFINE last == IF k + 1 < Radix THEN <<Digit(k + 1)>>
                     ELSE Append(g[(k + 1) \div Radix], Digit((k + 1) % Radix))
             h == [i \in 0 .. k + 1 |-> IF i <= k THEN g[i] ELSE last]
  <2>2. \A i \in 0 .. k : h[i] = g[i]
    OBVIOUS
  <2>3. h[k + 1] = last
    OBVIOUS
  <2>4. ASSUME NEW i \in 0 .. k + 1, i >= Radix
        PROVE  h[i \div Radix] = g[i \div Radix]
    <3>1. i \div Radix \in 0 .. k
      BY <2>4, Division
    <3> QED BY <3>1, <2>2
  <2> HIDE DEF h
  <2>5. Follows(h, k + 1)
    BY <2>1, <2>2, <2>3, <2>4, Limits DEF Follows
  <2> QED BY <2>5
<1> HIDE DEF P
<1>3. Nat \subseteq P
  BY <1>1, <1>2, Induct
<1> QED BY <1>3 DEF P

LEMMA DigitsDef ==
  \A n \in Nat :
    Digits[n] = IF n < Radix THEN <<Digit(n)>>
                ELSE Append(Digits[n \div Radix], Digit(n % Radix))
<1> DEFINE G(n) == CHOOSE g : Follows(g, n)
           F == [n \in Nat |-> G(n)[n]]
           Step(f) == [n \in Nat |-> IF n < Radix THEN <<Digit(n)>>
                                     ELSE Append(f[n \div Radix], Digit(n % Radix))]
<1>1. \A n \in Nat : Follows(G(n), n)
  BY FollowsExists
<1> HIDE DEF G, F, Step
<1>2. ASSUME NEW n \in Nat
      PROVE  F[n] = Step(F)[n]
  <2>0. Follows(G(n), n) /\ n \in 0 .. n
    BY <1>1
  <2>1. CASE n < Radix
    <3>1. G(n)[n] = <<Digit(n)>>
      BY <2>0, <2>1 DEF Follows
    <3> QED BY <2>1, <3>1 DEF F, Step
  <2>2. CASE n >= Radix
    <3>0. ~ (n < Radix)
      BY <2>2, Limits
    <3>1. n \div Radix \in Nat /\ n \div Radix <= n
      BY <2>2, Division
    <3>2. G(n)[n \div Radix] = G(n \div Radix)[n \div Radix]
      BY <3>1, <1>1, FollowsUnique
    <3>3. G(n)[n] = Append(G(n)[n \div Radix], Digit(n % Radix))
      BY <2>0, <3>0 DEF Follows
    <3>4. F[n] = G(n)[n] /\ F[n \div Radix] = G(n \div Radix)[n \div Radix]
      BY <3>1 DEF F
    <3>5. Step(F)[n] = Append(F[n \div Radix], Digit(n % Radix))
      BY <3>0 DEF Step
    <3> QED BY <3>2, <3>3, <3>4, <3>5
  <2> QED BY <2>1, <2>2, Limits
<1>3. F = Step(F)
  BY <1>2 DEF F, Step
<1>4. Digits = CHOOSE f : f = Step(f)
  BY DEF Digits, Digit, Step
<1>5. Digits = Step(Digits)
  BY <1>3, <1>4
<1> QED BY <1>5 DEF Step
\* The bytes Sprintf writes for a number.
AllDigits(s) == \A i \in DOMAIN s : s[i].type = "digit"

LEMMA DigitsAreDigits ==
  \A n \in Nat :
    /\ Digits[n] \in Seq(Bytes) /\ Len(Digits[n]) > 0
    /\ AllDigits(Digits[n])
    /\ n > 0 => Digits[n][1].value > 0
<1> DEFINE Good(s) == s \in Seq(Bytes) /\ Len(s) > 0 /\ AllDigits(s)
           P == {n \in Nat : Good(Digits[n]) /\ (n > 0 => Digits[n][1].value > 0)}
<1>1. ASSUME NEW n \in Nat, \A k \in 0 .. n - 1 : k \in P
      PROVE  n \in P
  <2>1. ASSUME NEW d \in Nat
        PROVE  Digit(d) \in Bytes /\ Digit(d).type = "digit" /\ Digit(d).value = d
    BY DEF Digit, Byte, Bytes
  <2>2. CASE n < Radix
    <3>1. Digits[n] = <<Digit(n)>>
      BY <2>2, DigitsDef
    <3>2. Good(<<Digit(n)>>) /\ <<Digit(n)>>[1].value = n
      BY <2>1 DEF AllDigits
    <3> QED BY <3>1, <3>2
  <2>3. CASE ~ (n < Radix)
    <3>1. n \div Radix \in 1 .. n - 1 /\ n % Radix \in Nat
      BY <2>3, Division, Limits
    <3> DEFINE s == Digits[n \div Radix]
               b == Digit(n % Radix)
    <3>2. Good(s) /\ s[1].value > 0
      BY <1>1, <3>1
    <3>3. Digits[n] = Append(s, b)
      BY <2>3, DigitsDef
    <3>4. b \in Bytes /\ b.type = "digit"
      BY <2>1, <3>1
    <3> HIDE DEF s, b
    <3>5. /\ Append(s, b) \in Seq(Bytes) /\ Len(Append(s, b)) = Len(s) + 1
          /\ \A i \in 1 .. Len(s) : Append(s, b)[i] = s[i]
          /\ Append(s, b)[Len(s) + 1] = b
      BY <3>2, <3>4, AppendProperties
    <3>6. AllDigits(Append(s, b))
      BY <3>2, <3>4, <3>5 DEF AllDigits
    <3>7. 1 \in 1 .. Len(s)
      BY <3>2
    <3>8. Append(s, b)[1].value > 0
      BY <3>2, <3>5, <3>7
    <3>9. Len(Append(s, b)) > 0
      BY <3>2, <3>5
    <3> QED BY ONLY <3>3, <3>5, <3>6, <3>8, <3>9, n \in Nat
  <2> QED BY <2>2, <2>3
<1> HIDE DEF P
<1>2. Nat \subseteq P
  BY <1>1, StrongInduct
<1> QED BY <1>2 DEF P

-----------------------------------------------------------------------------
(***************************************************************************)
(* What Atoi makes of digits.                                              *)
(***************************************************************************)
Counts(f, s) ==
  /\ f[0] = 0
  /\ \A i \in 1 .. Len(s) : f[i] = Shifted(f[i - 1]) + s[i].value

LEMMA ValuesAreNat ==
  ASSUME NEW s \in Seq(Bytes)
  PROVE  /\ Len(s) \in Nat
         /\ \A i \in 1 .. Len(s) : s[i].value \in Nat
<1>1. \A i \in 1 .. Len(s) : s[i] \in Bytes
  OBVIOUS
<1> QED BY <1>1 DEF Bytes

LEMMA CountsUnique ==
  ASSUME NEW s, NEW t, NEW f, NEW g, NEW n \in Nat, n <= Len(s), n <= Len(t),
         Len(s) \in Nat, Len(t) \in Nat,
         \A i \in 1 .. n : s[i] = t[i], Counts(f, s), Counts(g, t)
  PROVE  f[n] = g[n]
<1> DEFINE P == {i \in Nat : i <= n => f[i] = g[i]}
<1>1. 0 \in P
  BY DEF Counts
<1>2. ASSUME NEW i \in Nat, i \in P
      PROVE  i + 1 \in P
  <2> SUFFICES ASSUME i + 1 <= n PROVE f[i + 1] = g[i + 1]
    OBVIOUS
  <2>1. i + 1 \in 1 .. Len(s) /\ i + 1 \in 1 .. Len(t) /\ i + 1 \in 1 .. n /\ (i + 1) - 1 = i
    OBVIOUS
  <2>2. f[i] = g[i]
    BY <1>2
  <2>3. /\ f[i + 1] = Shifted(f[i]) + s[i + 1].value
        /\ g[i + 1] = Shifted(g[i]) + t[i + 1].value
    BY <2>1 DEF Counts
  <2> QED BY <2>1, <2>2, <2>3
<1> HIDE DEF P
<1>3. n \in P
  BY <1>1, <1>2, Induct
<1> QED BY <1>3 DEF P

LEMMA CountsExists ==
  ASSUME NEW s \in Seq(Bytes)
  PROVE  \E f \in [0 .. Len(s) -> Nat] : Counts(f, s)
<1> DEFINE Upto(f, n) == /\ f[0] = 0
                         /\ \A i \in 1 .. n : f[i] = Shifted(f[i - 1]) + s[i].value
           P == {n \in Nat : n <= Len(s) => \E f \in [0 .. n -> Nat] : Upto(f, n)}
<1>0. /\ Len(s) \in Nat
      /\ \A i \in 1 .. Len(s) : s[i].value \in Nat
  BY ValuesAreNat
<1>1. 0 \in P
  <2>1. [i \in 0 .. 0 |-> 0] \in [0 .. 0 -> Nat] /\ Upto([i \in 0 .. 0 |-> 0], 0)
    OBVIOUS
  <2> QED BY <2>1
<1> HIDE DEF Upto
<1>2. ASSUME NEW n \in Nat, n \in P
      PROVE  n + 1 \in P
  <2> SUFFICES ASSUME n + 1 <= Len(s)
               PROVE  \E f \in [0 .. n + 1 -> Nat] : Upto(f, n + 1)
    OBVIOUS
  <2>1. PICK f \in [0 .. n -> Nat] : Upto(f, n)
    BY <1>0, <1>2
  <2> DEFINE g == [i \in 0 .. n + 1 |-> IF i <= n THEN f[i]
                                         ELSE Shifted(f[n]) + s[n + 1].value]
  <2>2. Shifted(f[n]) + s[n + 1].value \in Nat
    <3>1. f[n] \in Nat /\ s[n + 1].value \in Nat
      BY <1>0
    <3>2. Shifted(f[n]) \in Nat
      BY <3>1, Scaled
    <3> QED BY <3>1, <3>2
  <2>3. g \in [0 .. n + 1 -> Nat]
    BY <2>2
  <2>4. Upto(g, n + 1)
    BY <2>1 DEF Upto
  <2> HIDE DEF g
  <2> QED BY <2>3, <2>4
<1> HIDE DEF P
<1>3. Len(s) \in P
  BY <1>0, <1>1, <1>2, Induct
<1>4. PICK f \in [0 .. Len(s) -> Nat] : Upto(f, Len(s))
  BY <1>0, <1>3 DEF P
<1>5. Counts(f, s)
  BY <1>4 DEF Upto, Counts
<1> QED BY <1>5

LEMMA ValueCounts ==
  ASSUME NEW s \in Seq(Bytes)
  PROVE  \E f \in [0 .. Len(s) -> Nat] : Counts(f, s) /\ Value(s) = f[Len(s)]
<1> DEFINE Step(f) == [i \in 0 .. Len(s) |-> IF i = 0 THEN 0
                                              ELSE Shifted(f[i - 1]) + s[i].value]
           V == CHOOSE f : f = Step(f)
<1>1. PICK f \in [0 .. Len(s) -> Nat] : Counts(f, s)
  BY CountsExists
<1>2. f = Step(f)
  BY <1>1 DEF Counts
<1>3. Value(s) = V[Len(s)]
  BY DEF Value, Shifted
<1>4. V = Step(V)
  BY <1>2
<1> HIDE DEF V
<1>5. Counts(V, s)
  BY <1>4 DEF Counts
<1>6. \A n \in 0 .. Len(s) : V[n] = f[n]
  BY <1>1, <1>5, CountsUnique, ValuesAreNat
<1>7. V \in [0 .. Len(s) -> Nat]
  BY <1>4, <1>6
<1> QED BY <1>3, <1>5, <1>7

LEMMA ValueEmpty == Value(<<>>) = 0
<1>1. <<>> \in Seq(Bytes) /\ Len(<<>>) = 0
  OBVIOUS
<1>2. PICK f \in [0 .. Len(<<>>) -> Nat] : Counts(f, <<>>) /\ Value(<<>>) = f[Len(<<>>)]
  BY <1>1, ValueCounts
<1> QED BY <1>1, <1>2 DEF Counts

LEMMA ValueAppend ==
  ASSUME NEW s \in Seq(Bytes), NEW b \in Bytes
  PROVE  Value(s) \in Nat /\ Value(Append(s, b)) = Shifted(Value(s)) + b.value
<1> DEFINE t == Append(s, b)
<1>1. /\ t \in Seq(Bytes) /\ Len(t) = Len(s) + 1 /\ Len(s) \in Nat
      /\ \A i \in 1 .. Len(s) : s[i] = t[i]
      /\ t[Len(s) + 1] = b
  BY AppendProperties
<1> HIDE DEF t
<1>2. PICK f \in [0 .. Len(s) -> Nat] : Counts(f, s) /\ Value(s) = f[Len(s)]
  BY ValueCounts
<1>3. PICK g \in [0 .. Len(t) -> Nat] : Counts(g, t) /\ Value(t) = g[Len(t)]
  BY <1>1, ValueCounts
<1>4. f[Len(s)] = g[Len(s)]
  BY <1>1, <1>2, <1>3, CountsUnique
<1>5. g[Len(t)] = Shifted(g[Len(t) - 1]) + t[Len(t)].value
  BY <1>1, <1>3 DEF Counts
<1>6. Len(t) - 1 = Len(s)
  BY <1>1
<1> QED BY <1>1, <1>2, <1>3, <1>4, <1>5, <1>6 DEF t

\* No digit is more than the number.
LEMMA ValueBound ==
  ASSUME NEW s \in Seq(Bytes), NEW k \in 1 .. Len(s)
  PROVE  Value(s) >= s[k].value
<1>1. PICK f \in [0 .. Len(s) -> Nat] : Counts(f, s) /\ Value(s) = f[Len(s)]
  BY ValueCounts
<1> DEFINE P == {n \in Nat : k + n <= Len(s) => f[k + n] >= s[k].value}
<1>2. Len(s) \in Nat /\ k \in Nat /\ \A i \in 1 .. Len(s) : s[i].value \in Nat
  BY ValuesAreNat
<1>3. \A i \in 1 .. Len(s) : f[i] = Shifted(f[i - 1]) + s[i].value /\ f[i - 1] \in Nat
  BY <1>1, <1>2 DEF Counts
<1>4. 0 \in P
  <2>1. f[k] = Shifted(f[k - 1]) + s[k].value /\ f[k - 1] \in Nat /\ s[k].value \in Nat
    BY <1>2, <1>3
  <2>2. Shifted(f[k - 1]) \in Nat
    BY <2>1, Scaled
  <2>3. f[k] >= s[k].value
    BY <2>1, <2>2
  <2> QED BY <2>3, <1>2
<1>5. ASSUME NEW n \in Nat, n \in P
      PROVE  n + 1 \in P
  <2> SUFFICES ASSUME k + (n + 1) <= Len(s)
               PROVE  f[k + (n + 1)] >= s[k].value
    OBVIOUS
  <2> DEFINE i == k + (n + 1)
  <2>1. i \in 1 .. Len(s) /\ i - 1 = k + n
    BY <1>2
  <2>2. f[k + n] >= s[k].value
    BY <1>2, <1>5
  <2>3. f[i] = Shifted(f[k + n]) + s[i].value /\ f[k + n] \in Nat /\ s[i].value \in Nat
    BY <1>2, <1>3, <2>1
  <2>4. Shifted(f[k + n]) \in Nat /\ Shifted(f[k + n]) >= f[k + n]
    BY <2>3, Scaled
  <2>5. f[i] \in Nat /\ f[i] >= f[k + n]
    BY <2>3, <2>4
  <2> QED BY <1>2, <2>2, <2>3, <2>5
<1> HIDE DEF P
<1>6. Len(s) - k \in P
  BY <1>2, <1>4, <1>5, Induct
<1> QED BY <1>1, <1>2, <1>6 DEF P

\* Digits in front of a number make it bigger, unless they are zeros.
LEMMA ValueInFront ==
  ASSUME NEW p \in Seq(Bytes), NEW number \in Nat
  PROVE  /\ Value(p) \in Nat
         /\ Value(p \o Digits[number]) \in Nat
         /\ Value(p \o Digits[number]) >= number + Value(p)
         /\ Value(p) = 0 => Value(p \o Digits[number]) = number
<1> DEFINE V(n) == Value(p \o Digits[n])
           P == {n \in Nat : /\ V(n) \in Nat
                             /\ V(n) >= n + Value(p)
                             /\ Value(p) = 0 => V(n) = n}
<1>0. Value(p) \in Nat
  BY ValueCounts, ValuesAreNat
<1>1. ASSUME NEW d \in Nat
      PROVE  Digit(d) \in Bytes /\ Digit(d).value = d
  BY DEF Digit, Byte, Bytes
<1>2. ASSUME NEW n \in Nat, \A k \in 0 .. n - 1 : k \in P
      PROVE  n \in P
  <2>1. CASE n < Radix
    <3>1. p \o Digits[n] = Append(p, Digit(n))
      BY <1>1, <2>1, DigitsDef, AppendIsConcat
    <3>2. V(n) = Shifted(Value(p)) + n
      BY <1>1, <3>1, ValueAppend
    <3> HIDE DEF V
    <3>3. Shifted(Value(p)) \in Nat /\ Shifted(Value(p)) >= Value(p)
          /\ (Value(p) = 0 => Shifted(Value(p)) = 0)
      BY <1>0, Scaled
    <3>4. V(n) \in Nat /\ V(n) >= n + Value(p) /\ (Value(p) = 0 => V(n) = n)
      BY <3>2, <3>3, <1>0
    <3> QED BY <3>4
  <2>2. CASE ~ (n < Radix)
    <3> DEFINE q == n \div Radix
               r == n % Radix
    <3>1. q \in 0 .. n - 1 /\ q \in Nat /\ r \in Nat /\ n = Shifted(q) + r
      <4>1. n >= Radix
        BY <2>2, Limits
      <4>2. q \in 1 .. n - 1 /\ r \in 0 .. Radix - 1 /\ n = Shifted(q) + r
        BY <4>1, Division
      <4> HIDE DEF q, r
      <4> QED BY <4>2, Limits
    <3>2. Digits[n] = Append(Digits[q], Digit(r))
      BY <2>2, DigitsDef
    <3> HIDE DEF q, r
    <3>3. Digits[q] \in Seq(Bytes) /\ Digit(r) \in Bytes /\ <<Digit(r)>> \in Seq(Bytes)
      BY <3>1, <1>1, DigitsAreDigits
    <3>4. p \o Digits[n] = Append(p \o Digits[q], Digit(r))
      <4>1. Digits[n] = Digits[q] \o <<Digit(r)>>
        BY <3>2, <3>3, AppendIsConcat
      <4>2. p \o Digits[n] = (p \o Digits[q]) \o <<Digit(r)>>
        <5> DEFINE s == Digits[q]
                   t == <<Digit(r)>>
        <5>1. s \in Seq(Bytes) /\ t \in Seq(Bytes) /\ Digits[n] = s \o t
          BY <3>3, <4>1
        <5> HIDE DEF s, t
        <5>2. (p \o s) \o t = p \o (s \o t)
          BY <5>1, ConcatAssociative
        <5>3. p \o Digits[n] = (p \o s) \o t
          BY <5>1, <5>2
        <5> QED BY <5>3 DEF s, t
      <4>3. p \o Digits[q] \in Seq(Bytes)
        BY <3>3, ConcatProperties
      <4> QED BY <4>2, <4>3, <3>3, AppendIsConcat
    <3>5. V(n) = Shifted(V(q)) + r
      <4>1. p \o Digits[q] \in Seq(Bytes)
        BY <3>3, ConcatProperties
      <4> QED BY <3>1, <3>3, <3>4, <1>1, <4>1, ValueAppend
    <3>6. V(q) \in Nat /\ V(q) >= q + Value(p) /\ (Value(p) = 0 => V(q) = q)
      BY <1>2, <3>1
    <3> HIDE DEF V
    <3>7. V(q) >= q + Value(p) /\ q + Value(p) \in Nat
      BY <3>1, <3>6, <1>0
    <3>8. /\ Shifted(V(q)) \in Nat
          /\ Shifted(V(q)) >= Shifted(q) + Shifted(Value(p))
          /\ Shifted(Value(p)) >= Value(p)
          /\ Shifted(q) \in Nat /\ Shifted(Value(p)) \in Nat
      BY <3>1, <3>6, <3>7, <1>0, Scaled, ScaledSum
    <3>9. V(n) \in Nat /\ V(n) >= n + Value(p) /\ (Value(p) = 0 => V(n) = n)
      BY <3>1, <3>5, <3>6, <3>8, <1>0, SMTT(30)
    <3> QED BY <3>9
  <2> QED BY <2>1, <2>2
<1> HIDE DEF P
<1>3. Nat \subseteq P
  BY <1>2, StrongInduct
<1> QED BY <1>0, <1>3 DEF P

-----------------------------------------------------------------------------
(***************************************************************************)
(* The bytes of a message, and what a Write adds to the wire.              *)
(***************************************************************************)
Message == [length : Lengths, sent : Nat]
Width(length) == Len(Digits[length])

LEMMA BinBytes ==
  ASSUME NEW m \in 1 .. MaxMessages, NEW length \in Lengths
  PROVE  /\ length \in Nat /\ Width(length) \in Nat \ {0}
         /\ Bin[m][length] \in Seq(Bytes)
         /\ Len(Bin[m][length]) = Width(length) + 1 + length
         /\ \A j \in 1 .. Width(length) : Bin[m][length][j] = Digits[length][j]
         /\ Bin[m][length][Width(length) + 1] = Byte("comma", 0)
         /\ \A j \in Width(length) + 2 .. Width(length) + 1 + length :
              Bin[m][length][j] = Byte("json", m)
<1> DEFINE d == Digits[length]
           c == <<Byte("comma", 0)>>
           body == [i \in 1 .. length |-> Byte("json", m)]
<1>1. length \in Nat /\ m \in Nat
  BY Limits
<1>2. d \in Seq(Bytes) /\ Len(d) \in Nat \ {0} /\ Width(length) = Len(d)
  BY <1>1, DigitsAreDigits DEF Width
<1>3. c \in Seq(Bytes) /\ Len(c) = 1 /\ c[1] = Byte("comma", 0)
  BY DEF Byte, Bytes
<1>4. body \in Seq(Bytes) /\ Len(body) = length /\ \A i \in 1 .. length : body[i] = Byte("json", m)
  <2>1. Byte("json", m) \in Bytes
    BY <1>1 DEF Byte, Bytes
  <2> QED BY <1>1, <2>1
<1>5. Bin[m][length] = (d \o c) \o body
  BY DEF Bin
<1> HIDE DEF d, c, body
<1>6. /\ d \o c \in Seq(Bytes) /\ Len(d \o c) = Len(d) + 1
      /\ \A i \in 1 .. Len(d) : (d \o c)[i] = d[i]
      /\ (d \o c)[Len(d) + 1] = Byte("comma", 0)
  <2>1. /\ d \o c \in Seq(Bytes) /\ Len(d \o c) = Len(d) + Len(c)
        /\ \A i \in 1 .. Len(d) + Len(c) : (d \o c)[i] =
                     IF i <= Len(d) THEN d[i] ELSE c[i - Len(d)]
    BY <1>2, <1>3, ConcatProperties
  <2>2. Len(d) + 1 - Len(d) = 1 /\ ~ (Len(d) + 1 <= Len(d))
    BY <1>2
  <2> QED BY <1>2, <1>3, <2>1, <2>2
<1> DEFINE e == d \o c
<1> HIDE DEF e
<1>7. /\ e \o body \in Seq(Bytes) /\ Len(e \o body) = Len(e) + length
      /\ \A i \in 1 .. Len(e) : (e \o body)[i] = e[i]
      /\ \A i \in Len(e) + 1 .. Len(e) + length : (e \o body)[i] = Byte("json", m)
  <2>1. e \in Seq(Bytes) /\ Len(e) \in Nat
    BY <1>2, <1>6 DEF e
  <2>2. /\ e \o body \in Seq(Bytes) /\ Len(e \o body) = Len(e) + Len(body)
        /\ \A i \in 1 .. Len(e) + Len(body) : (e \o body)[i] =
                     IF i <= Len(e) THEN e[i] ELSE body[i - Len(e)]
    BY <2>1, <1>4, ConcatProperties
  <2> QED BY <2>1, <2>2, <1>1, <1>4
<1>8. Len(e) = Len(d) + 1
  BY <1>6 DEF e
<1> QED BY <1>1, <1>2, <1>5, <1>6, <1>7, <1>8, SMTT(30) DEF d, e

\* Types of the messages that the other facts need.
Sized == /\ messages \in Seq(Message)
         /\ Len(messages) <= MaxMessages
         /\ \A m \in DOMAIN messages : messages[m].sent <= Total(m)

LEMMA RestBytes ==
  ASSUME Sized, NEW m \in DOMAIN messages
  PROVE  /\ m \in 1 .. MaxMessages /\ messages[m].length \in Lengths /\ messages[m].sent \in Nat
         /\ Total(m) = Width(messages[m].length) + 1 + messages[m].length
         /\ Total(m) \in Nat
         /\ Rest(m) \in Seq(Bytes)
         /\ Len(Rest(m)) = Total(m) - messages[m].sent
         /\ \A i \in 1 .. Total(m) - messages[m].sent :
              Rest(m)[i] = Bin[m][messages[m].length][messages[m].sent + i]
<1>1. /\ m \in 1 .. MaxMessages /\ messages[m] \in Message
      /\ messages[m].sent <= Total(m)
  BY Limits DEF Sized
<1>2. messages[m].length \in Lengths /\ messages[m].sent \in Nat
  BY <1>1 DEF Message
<1> DEFINE s == Bin[m][messages[m].length]
           k == messages[m].sent
<1>3. s \in Seq(Bytes) /\ Len(s) = Width(messages[m].length) + 1 + messages[m].length
  BY <1>1, <1>2, BinBytes
<1>4. Total(m) = Len(s) /\ Len(s) \in Nat
  BY <1>3 DEF Total
<1>5. Rest(m) = SubSeq(s, k + 1, Len(s))
  BY DEF Rest, Total
<1> HIDE DEF s, k
<1>6. k \in Nat /\ k <= Len(s)
  BY <1>1, <1>2, <1>4 DEF k
<1>7. /\ SubSeq(s, k + 1, Len(s)) \in Seq(Bytes)
      /\ Len(SubSeq(s, k + 1, Len(s))) = Len(s) - k
      /\ \A i \in 1 .. Len(s) - k : SubSeq(s, k + 1, Len(s))[i] = s[k + i]
  <2>1. \A i \in k + 1 .. Len(s) : s[i] \in Bytes
    BY <1>3, <1>6
  <2>2. /\ SubSeq(s, k + 1, Len(s)) \in Seq(Bytes)
        /\ Len(SubSeq(s, k + 1, Len(s))) = IF k + 1 <= Len(s) THEN Len(s) - (k + 1) + 1 ELSE 0
        /\ \A i \in 1 .. Len(s) - (k + 1) + 1 : SubSeq(s, k + 1, Len(s))[i] = s[k + 1 + i - 1]
    BY <2>1, <1>4, <1>6, SubSeqProperties
  <2> QED BY <2>2, <1>4, <1>6
<1> QED BY <1>1, <1>2, <1>3, <1>4, <1>5, <1>7 DEF s, k

LEMMA PutFacts ==
  ASSUME Sized, wire \in Seq(Bytes),
         NEW m \in DOMAIN messages, NEW k \in 0 .. Segment(m), Put(m, k)
  PROVE  /\ k \in Nat /\ messages[m].sent + k <= Total(m)
         /\ messages' \in Seq(Message) /\ Len(messages') = Len(messages)
         /\ \A n \in DOMAIN messages :
              /\ messages'[n].length = messages[n].length
              /\ messages'[n].sent = IF n = m THEN messages[n].sent + k ELSE messages[n].sent
         /\ wire' \in Seq(Bytes) /\ Len(wire') = Len(wire) + k
         /\ \A i \in 1 .. Len(wire) : wire'[i] = wire[i]
         /\ \A i \in 1 .. k :
              wire'[Len(wire) + i] = Bin[m][messages[m].length][messages[m].sent + i]
<1>1. k \in Nat /\ k <= Len(Rest(m)) /\ Len(Rest(m)) \in Nat
  BY RestBytes, Limits DEF Segment
<1>2. messages[m] \in Message /\ messages[m].sent \in Nat /\ messages[m].length \in Lengths
  BY RestBytes DEF Sized
<1>3. messages' = [messages EXCEPT ![m] = [messages[m] EXCEPT !.sent = @ + k]]
  BY DEF Put
<1>4. /\ [messages[m] EXCEPT !.sent = @ + k] \in Message
      /\ [messages[m] EXCEPT !.sent = @ + k].sent = messages[m].sent + k
      /\ [messages[m] EXCEPT !.sent = @ + k].length = messages[m].length
  BY <1>1, <1>2 DEF Message
<1>5. /\ messages' \in Seq(Message) /\ Len(messages') = Len(messages)
      /\ \A n \in DOMAIN messages :
              /\ messages'[n].length = messages[n].length
              /\ messages'[n].sent = IF n = m THEN messages[n].sent + k ELSE messages[n].sent
  BY <1>3, <1>4 DEF Sized
<1> DEFINE s == SubSeq(Rest(m), 1, k)
<1>6. /\ s \in Seq(Bytes) /\ Len(s) = k
      /\ \A i \in 1 .. k : s[i] = Bin[m][messages[m].length][messages[m].sent + i]
  <2>1. \A i \in 1 .. k : Rest(m)[i] \in Bytes
    BY <1>1, RestBytes
  <2>2. /\ s \in Seq(Bytes) /\ Len(s) = IF 1 <= k THEN k - 1 + 1 ELSE 0
        /\ \A i \in 1 .. k - 1 + 1 : s[i] = Rest(m)[1 + i - 1]
    BY <2>1, <1>1, SubSeqProperties
  <2>3. \A i \in 1 .. k : Rest(m)[i] = Bin[m][messages[m].length][messages[m].sent + i]
    BY <1>1, RestBytes
  <2> HIDE DEF s
  <2>4. \A i \in 1 .. k : s[i] = Rest(m)[i]
    BY <2>2, <1>1
  <2> QED BY <2>2, <2>3, <2>4, <1>1
<1>7. wire' = wire \o s
  BY DEF Put
<1> HIDE DEF s
<1>8. /\ wire \o s \in Seq(Bytes) /\ Len(wire \o s) = Len(wire) + Len(s)
      /\ \A i \in 1 .. Len(wire) + Len(s) : (wire \o s)[i] =
                     IF i <= Len(wire) THEN wire[i] ELSE s[i - Len(wire)]
  BY <1>6, ConcatProperties
<1>9. /\ wire' \in Seq(Bytes) /\ Len(wire') = Len(wire) + k
      /\ \A i \in 1 .. Len(wire) : wire'[i] = wire[i]
      /\ \A i \in 1 .. k : wire'[Len(wire) + i] = s[i]
  BY <1>1, <1>6, <1>7, <1>8
<1>10. messages[m].sent + k <= Total(m)
  BY <1>1, <1>2, RestBytes
<1> QED BY <1>1, <1>5, <1>6, <1>9, <1>10

-----------------------------------------------------------------------------
(***************************************************************************)
(* Types, and the mutex: a message is written only while it is the last,   *)
(* so all the others have as many bytes on the wire as they will ever have.*)
(***************************************************************************)
Last == Len(messages)
OnlyLast ==
  /\ Last <= MaxMessages
  /\ \A w \in Writers : writing[w] \in {0, Last}
Typed == TypeOK /\ OnlyLast

LEMMA TypedSized == Typed => /\ Sized /\ Last \in Nat /\ DOMAIN messages = 1 .. Last
                             /\ wire \in Seq(Bytes) /\ buf \in Seq(Bytes)
BY DEF Typed, TypeOK, OnlyLast, Sized, Message, Bytes, Last

\* A step that leaves the types of the writing side alone.
LEMMA WriterTypes ==
  ASSUME Typed, messages' \in Seq(Message), Len(messages') = Len(messages),
         \A m \in DOMAIN messages : /\ messages'[m].sent <= Total(m)
                                    /\ messages'[m].length = messages[m].length
  PROVE  /\ DOMAIN messages' = DOMAIN messages /\ Last' = Last
         /\ \A m \in DOMAIN messages' : messages'[m].sent <= Total(m)'
<1>1. DOMAIN messages' = DOMAIN messages /\ Last' = Last
  BY TypedSized DEF Last
<1>2. \A m \in DOMAIN messages : Total(m)' = Total(m)
  BY DEF Total
<1> QED BY <1>1, <1>2

LEMMA TypedPut ==
  ASSUME Typed, NEW w \in Writers, writing[w] # 0, NEW k \in 0 .. Segment(writing[w]),
         Put(writing[w], k)
  PROVE  /\ writing[w] = Last /\ Last \in DOMAIN messages
         /\ messages' \in Seq([length : Lengths, sent : Nat])
         /\ DOMAIN messages' = DOMAIN messages /\ Last' = Last
         /\ \A m \in DOMAIN messages' : messages'[m].sent <= Total(m)'
         /\ wire' \in Seq(Bytes)
<1>1. writing[w] = Last /\ Last \in DOMAIN messages
  BY TypedSized DEF Typed, OnlyLast, TypeOK
<1> DEFINE m == writing[w]
<1>2. Sized /\ wire \in Seq(Bytes) /\ m \in DOMAIN messages
  BY <1>1, TypedSized
<1> HIDE DEF m
<1>3. /\ messages' \in Seq(Message) /\ Len(messages') = Len(messages)
      /\ messages[m].sent + k <= Total(m)
      /\ \A n \in DOMAIN messages :
              /\ messages'[n].length = messages[n].length
              /\ messages'[n].sent = IF n = m THEN messages[n].sent + k ELSE messages[n].sent
      /\ wire' \in Seq(Bytes)
  BY <1>2, PutFacts DEF m
<1>4. \A n \in DOMAIN messages : messages'[n].sent <= Total(n)
  BY <1>2, <1>3 DEF Sized
<1> QED BY <1>1, <1>3, <1>4, WriterTypes DEF m, Message

LEMMA TypedInit == Init => Typed
<1> SUFFICES ASSUME Init PROVE Typed
  OBVIOUS
<1>1. Len(<<>>) = 0 /\ DOMAIN <<>> = {} /\ \A S : <<>> \in Seq(S)
  OBVIOUS
<1>2. Last = 0 /\ writing \in [Writers -> 0 .. Last]
      /\ \A w \in Writers : writing[w] = 0 /\ writeMutex # w
  BY <1>1, Limits DEF Init, Last
<1>3. OnlyLast
  BY <1>2, Limits DEF OnlyLast
<1>4. /\ messages \in Seq([length : Lengths, sent : Nat])
      /\ \A m \in DOMAIN messages : messages[m].sent <= Total(m)
      /\ wire \in Seq(Bytes) /\ buf \in Seq(Bytes) /\ Len(buf) <= MaxToken
      /\ delivered \in Seq(DOMAIN messages)
  BY <1>1, Limits DEF Init
<1>5. /\ \A w \in Writers : writing[w] # 0 <=> writeMutex = w
      /\ writeMutex \in Writers \cup {NoWriter} /\ end \in {"open", "eof", "broken"}
      /\ reader \in {"reading", "stopped"} /\ emptied \in BOOLEAN
  BY <1>2 DEF Init
<1> QED BY <1>2, <1>3, <1>4, <1>5 DEF Typed, TypeOK, Last, Bytes

LEMMA TypedLock == ASSUME Typed, NEW w \in Writers, Lock(w) PROVE Typed'
<1>0. Sized /\ Last \in Nat /\ DOMAIN messages = 1 .. Last
  BY TypedSized
<1>1. PICK length \in Lengths : messages' = Append(messages, [length |-> length, sent |-> 0])
  BY DEF Lock
<1>2. /\ messages' \in Seq(Message) /\ Last' = Last + 1
      /\ DOMAIN messages' = 1 .. Last + 1
      /\ \A m \in 1 .. Last : messages'[m] = messages[m]
      /\ messages'[Last + 1] = [length |-> length, sent |-> 0]
  BY <1>0, <1>1, Limits DEF Sized, Message, Last
<1>3. writeMutex = NoWriter /\ Last < MaxMessages
      /\ writeMutex' = w /\ writing' = [writing EXCEPT ![w] = Last + 1]
  BY DEF Lock, MutexFree, Last
<1>4. \A v \in Writers : writing[v] = 0
  BY <1>3, Limits DEF Typed, TypeOK
<1>5. \A m \in DOMAIN messages' : messages'[m].sent <= Total(m)'
  <2>1. ASSUME NEW m \in 1 .. Last
        PROVE  messages'[m].sent <= Total(m)'
    BY <1>0, <1>2 DEF Total, Sized
  <2>2. ASSUME NEW m, m = Last + 1
        PROVE  messages'[m].sent <= Total(m)'
    <3>1. m \in 1 .. MaxMessages
      BY <1>0, <1>3, <2>2, Limits
    <3>2. Len(Bin[m][length]) \in Nat
      BY <3>1, BinBytes
    <3>3. messages'[m].length = length /\ messages'[m].sent = 0
      BY <1>2, <2>2
    <3> QED BY <3>2, <3>3 DEF Total
  <2> QED BY <1>0, <1>2, <2>1, <2>2
<1>6. writing' \in [Writers -> 0 .. Last'] /\ \A v \in Writers : writing'[v] \in {0, Last'}
  BY <1>0, <1>2, <1>3, <1>4 DEF Typed, TypeOK
<1>7. /\ \A v \in Writers : writing'[v] # 0 <=> writeMutex' = v
      /\ writeMutex' \in Writers \cup {NoWriter}
  BY <1>0, <1>3, <1>4 DEF Typed, TypeOK
<1>8. delivered' \in Seq(DOMAIN messages')
  <2>1. DOMAIN messages \subseteq DOMAIN messages' /\ delivered \in Seq(DOMAIN messages)
    BY <1>0, <1>2 DEF Typed, TypeOK
  <2> QED BY <2>1, SeqMonotonic DEF Lock, readerVars
<1>9. OnlyLast'
  BY <1>0, <1>2, <1>3, <1>6, Limits DEF OnlyLast
<1> QED BY <1>2, <1>5, <1>6, <1>7, <1>8, <1>9
        DEF Typed, TypeOK, Lock, readerVars, Message, Last

LEMMA TypedWrite ==
  ASSUME Typed, NEW w \in Writers, WriteSegment(w) \/ WriteEnds(w)
  PROVE  Typed'
<1>1. writing[w] # 0
  BY DEF WriteSegment, WriteEnds
<1>2. \E k \in 0 .. Segment(writing[w]) : Put(writing[w], k)
  <2>1. Segment(writing[w]) \in Nat
    <3>1. Sized /\ writing[w] \in DOMAIN messages
      BY <1>1, TypedSized DEF Typed, OnlyLast, TypeOK
    <3> QED BY <3>1, RestBytes, Limits DEF Segment
  <2> QED BY <2>1 DEF WriteSegment, WriteEnds
<1>3. PICK k \in 0 .. Segment(writing[w]) : Put(writing[w], k)
  BY <1>2
<1>4. /\ writing[w] = Last /\ Last \in DOMAIN messages
      /\ messages' \in Seq([length : Lengths, sent : Nat])
      /\ DOMAIN messages' = DOMAIN messages /\ Last' = Last
      /\ \A m \in DOMAIN messages' : messages'[m].sent <= Total(m)'
      /\ wire' \in Seq(Bytes)
  BY <1>1, <1>3, TypedPut
<1>5. UNCHANGED <<end, readerVars>>
  BY DEF WriteSegment, WriteEnds
<1>6. /\ writing' \in [Writers -> 0 .. Last'] /\ \A v \in Writers : writing'[v] \in {0, Last'}
      /\ \A v \in Writers : writing'[v] # 0 <=> writeMutex' = v
      /\ writeMutex' \in Writers \cup {NoWriter}
  <2>1. CASE WriteSegment(w)
    BY <1>4, <2>1 DEF WriteSegment, Typed, TypeOK, OnlyLast, Last
  <2>2. CASE WriteEnds(w)
    <3>1. writing' = [writing EXCEPT ![w] = 0] /\ writeMutex' = NoWriter
      BY <2>2 DEF WriteEnds, Unlocked
    <3>2. \A v \in Writers : v # w => writing[v] = 0
      BY <1>1 DEF Typed, TypeOK
    <3>3. writing' = [v \in Writers |-> 0]
      BY <1>1, <3>1, <3>2 DEF Typed, TypeOK
    <3>4. NoWriter \notin Writers
      BY Limits
    <3>5. Last' \in Nat
      BY <1>4 DEF Last
    <3>6. \A v \in Writers : writing'[v] = 0
      BY <3>3
    <3>7. writing' \in [Writers -> 0 .. Last']
      BY <3>3, <3>5
    <3> QED BY <3>1, <3>4, <3>6, <3>7
  <2> QED BY <2>1, <2>2
<1>7. OnlyLast'
  BY <1>4, <1>6 DEF OnlyLast, Typed
<1>8. buf' = buf /\ end' = end /\ reader' = reader /\ delivered' = delivered /\ emptied' = emptied
  BY <1>5 DEF readerVars
<1> QED BY <1>4, <1>6, <1>7, <1>8 DEF Typed, TypeOK, Bytes, Last

\* What SplitJson finds.
LEMMA HeaderFound ==
  ASSUME NEW data \in Seq(Bytes), Headers(data) # {}
  PROVE  \E h \in 2 .. Len(data) :
           /\ Headers(data) = {h}
           /\ data[h].type = "comma" /\ \A i \in 1 .. h - 1 : data[i].type = "digit"
<1>1. PICK h \in Headers(data) : TRUE
  OBVIOUS
<1>2. h \in 2 .. Len(data) /\ data[h].type = "comma" /\ \A i \in 1 .. h - 1 : data[i].type = "digit"
  BY <1>1 DEF Headers
<1>3. ASSUME NEW g \in Headers(data)
      PROVE  g = h
  <2>1. g \in 2 .. Len(data) /\ data[g].type = "comma" /\ \A i \in 1 .. g - 1 : data[i].type = "digit"
    BY DEF Headers
  <2>2. Len(data) \in Nat
    OBVIOUS
  <2>3. ~ (g < h)
    <3>1. g < h => data[g].type = "digit"
      BY <1>2, <2>1, <2>2
    <3> QED BY <2>1, <3>1
  <2>4. ~ (h < g)
    <3>1. h < g => data[h].type = "digit"
      BY <1>2, <2>1, <2>2
    <3> QED BY <1>2, <3>1
  <2> QED BY <1>2, <2>1, <2>2, <2>3, <2>4
<1>4. Headers(data) = {h}
  BY <1>1, <1>3
<1> QED BY <1>2, <1>4

LEMMA SplitNone ==
  ASSUME NEW data, Headers(data) = {}
  PROVE  /\ SplitJson(data).kind = "error" <=> Len(data) > MaxHeader
         /\ SplitJson(data).kind # "token"
BY DEF SplitJson, More, SplitError

LEMMA SplitAt ==
  ASSUME NEW data \in Seq(Bytes), NEW h, Headers(data) = {h}
  PROVE  LET length == Value(SubSeq(data, 1, h - 1))
             split == SplitJson(data)
         IN /\ length \in Nat
            /\ split.kind = "error" <=> length > MaxLen
            /\ split.kind = "more" <=> length <= MaxLen /\ Len(data) < h + length
            /\ split.kind = "token" <=> length <= MaxLen /\ Len(data) >= h + length
            /\ split.kind = "token" =>
                 /\ split.advance = h + length
                 /\ split.token \in Seq(Bytes) /\ Len(split.token) = length
                 /\ \A i \in 1 .. length : split.token[i] = data[h + i]
<1> DEFINE p == SubSeq(data, 1, h - 1)
           length == Value(p)
           split == SplitJson(data)
<1>1. h \in 2 .. Len(data) /\ Len(data) \in Nat
  BY DEF Headers
<1>2. p \in Seq(Bytes)
  BY <1>1
<1> HIDE DEF p
<1>3. length \in Nat
  BY <1>2, ValueCounts, ValuesAreNat
<1>4. (CHOOSE g \in Headers(data) : TRUE) = h
  OBVIOUS
<1>5. split = IF length > MaxLen THEN SplitError
              ELSE IF Len(data) < h + length THEN More
              ELSE [kind |-> "token", advance |-> h + length,
                    token |-> SubSeq(data, h + 1, h + length)]
  BY <1>4 DEF SplitJson, Missing, Advance, p
<1> HIDE DEF length, split
<1>6. /\ split.kind = "error" <=> length > MaxLen
      /\ split.kind = "more" <=> length <= MaxLen /\ Len(data) < h + length
      /\ split.kind = "token" <=> length <= MaxLen /\ Len(data) >= h + length
  BY <1>1, <1>3, <1>5, Limits DEF SplitError, More
<1>7. ASSUME split.kind = "token"
      PROVE  /\ split.advance = h + length
             /\ split.token \in Seq(Bytes) /\ Len(split.token) = length
             /\ \A i \in 1 .. length : split.token[i] = data[h + i]
  <2>1. ~ (length > MaxLen) /\ ~ (Len(data) < h + length) /\ h + length <= Len(data)
    BY <1>1, <1>3, <1>6, <1>7, Limits
  <2>2. split.advance = h + length /\ split.token = SubSeq(data, h + 1, h + length)
    BY <1>5, <2>1
  <2>3. \A i \in h + 1 .. h + length : data[i] \in Bytes
    BY <1>1, <1>3, <2>1
  <2> DEFINE t == SubSeq(data, h + 1, h + length)
  <2>4. /\ t \in Seq(Bytes)
        /\ Len(t) = IF h + 1 <= h + length THEN (h + length) - (h + 1) + 1 ELSE 0
        /\ \A i \in 1 .. (h + length) - (h + 1) + 1 : t[i] = data[h + 1 + i - 1]
    BY <1>1, <1>3, <2>3, SubSeqProperties
  <2> HIDE DEF t
  <2>5. t \in Seq(Bytes) /\ Len(t) = length /\ \A i \in 1 .. length : t[i] = data[h + i]
    BY <1>1, <1>3, <2>4
  <2> QED BY <2>2, <2>5 DEF t
<1> QED BY <1>3, <1>6, <1>7 DEF length, p, split

LEMMA Cuts ==
  ASSUME NEW s \in Seq(Bytes), NEW k \in 0 .. Len(s)
  PROVE  /\ SubSeq(s, 1, k) \in Seq(Bytes) /\ Len(SubSeq(s, 1, k)) = k
         /\ \A i \in 1 .. k : SubSeq(s, 1, k)[i] = s[i]
         /\ SubSeq(s, k + 1, Len(s)) \in Seq(Bytes)
         /\ Len(SubSeq(s, k + 1, Len(s))) = Len(s) - k
         /\ \A i \in 1 .. Len(s) - k : SubSeq(s, k + 1, Len(s))[i] = s[k + i]
<1>0. k \in Nat /\ Len(s) \in Nat /\ k <= Len(s) /\ \A i \in 1 .. Len(s) : s[i] \in Bytes
  OBVIOUS
<1> DEFINE t == SubSeq(s, 1, k)
           u == SubSeq(s, k + 1, Len(s))
<1>1. /\ t \in Seq(Bytes) /\ Len(t) = IF 1 <= k THEN k - 1 + 1 ELSE 0
      /\ \A i \in 1 .. k - 1 + 1 : t[i] = s[1 + i - 1]
  BY <1>0, SubSeqProperties
<1>2. /\ u \in Seq(Bytes) /\ Len(u) = IF k + 1 <= Len(s) THEN Len(s) - (k + 1) + 1 ELSE 0
      /\ \A i \in 1 .. Len(s) - (k + 1) + 1 : u[i] = s[k + 1 + i - 1]
  BY <1>0, SubSeqProperties
<1> HIDE DEF t, u
<1>3. t \in Seq(Bytes) /\ Len(t) = k /\ \A i \in 1 .. k : t[i] = s[i]
  BY <1>0, <1>1
<1>4. u \in Seq(Bytes) /\ Len(u) = Len(s) - k /\ \A i \in 1 .. Len(s) - k : u[i] = s[k + i]
  BY <1>0, <1>2
<1> QED BY <1>3, <1>4 DEF t, u

\* A step of the reader: it reads a token only at the comma of a header.
LEMMA TokenAt ==
  ASSUME buf \in Seq(Bytes), Scans("token")
  PROVE  \E h \in 2 .. Len(buf) :
           LET length == Value(SubSeq(buf, 1, h - 1))
               split == SplitJson(buf)
           IN /\ Headers(buf) = {h}
              /\ buf[h].type = "comma" /\ \A i \in 1 .. h - 1 : buf[i].type = "digit"
              /\ length \in Nat /\ length <= MaxLen /\ h + length \in 0 .. Len(buf)
              /\ split.advance = h + length
              /\ split.token \in Seq(Bytes) /\ Len(split.token) = length
              /\ \A i \in 1 .. length : split.token[i] = buf[h + i]
<1>1. Headers(buf) # {} /\ SplitJson(buf).kind = "token"
  BY SplitNone DEF Scans
<1>2. PICK h \in 2 .. Len(buf) :
        /\ Headers(buf) = {h}
        /\ buf[h].type = "comma" /\ \A i \in 1 .. h - 1 : buf[i].type = "digit"
  BY <1>1, HeaderFound
<1> DEFINE length == Value(SubSeq(buf, 1, h - 1))
           split == SplitJson(buf)
<1>3. /\ length \in Nat /\ length <= MaxLen /\ Len(buf) >= h + length
      /\ split.advance = h + length
      /\ split.token \in Seq(Bytes) /\ Len(split.token) = length
      /\ \A i \in 1 .. length : split.token[i] = buf[h + i]
  BY <1>1, <1>2, SplitAt
<1> HIDE DEF length, split
<1>4. h + length \in 0 .. Len(buf)
  BY <1>2, <1>3
<1> QED BY <1>2, <1>3, <1>4 DEF length, split

\* What a Read, and the use of a token, make of the bytes that are left.
LEMMA FillFacts ==
  ASSUME buf \in Seq(Bytes), wire \in Seq(Bytes), Fill
  PROVE  /\ buf' \in Seq(Bytes) /\ wire' \in Seq(Bytes) /\ Len(buf') <= MaxToken
         /\ Len(buf') + Len(wire') = Len(buf) + Len(wire)
         /\ buf' \o wire' = buf \o wire
<1>1. PICK k \in 1 .. Len(wire) : /\ Len(buf) + k <= MaxToken
                                  /\ buf' = buf \o SubSeq(wire, 1, k)
                                  /\ wire' = SubSeq(wire, k + 1, Len(wire))
  BY DEF Fill
<1> DEFINE t == SubSeq(wire, 1, k)
           u == SubSeq(wire, k + 1, Len(wire))
<1>2. k \in Nat /\ k \in 0 .. Len(wire) /\ Len(wire) \in Nat /\ Len(buf) \in Nat
  BY <1>1
<1>3. /\ t \in Seq(Bytes) /\ Len(t) = k /\ \A i \in 1 .. k : t[i] = wire[i]
      /\ u \in Seq(Bytes) /\ Len(u) = Len(wire) - k
      /\ \A i \in 1 .. Len(wire) - k : u[i] = wire[k + i]
  BY <1>2, Cuts
<1>4. t \o u = wire
  <2>1. SubSeq(wire, 1, k) \o SubSeq(wire, k + 1, Len(wire)) = SubSeq(wire, 1, Len(wire))
    BY <1>2, ConcatAdjacentSubSeq
  <2> QED BY <2>1, SubSeqFull
<1>5. buf' = buf \o t /\ wire' = u
  BY <1>1
<1> HIDE DEF t, u
<1>6. buf \o t \in Seq(Bytes) /\ Len(buf \o t) = Len(buf) + k
  BY <1>3, ConcatProperties
<1>7. buf \in Seq(Bytes) /\ t \in Seq(Bytes) /\ u \in Seq(Bytes)
  BY <1>3
<1>8. (buf \o t) \o u = buf \o (t \o u)
  BY ONLY <1>7, ConcatAssociative
<1>9. buf' \o wire' = buf \o wire
  BY <1>4, <1>5, <1>8
<1>10. Len(buf') = Len(buf) + k /\ Len(wire') = Len(wire) - k
  BY <1>3, <1>5, <1>6
<1>11. Len(buf') + Len(wire') = Len(buf) + Len(wire)
  BY <1>2, <1>10
<1>12. Len(buf') <= MaxToken
  BY <1>1, <1>10
<1>13. buf' \in Seq(Bytes) /\ wire' \in Seq(Bytes)
  BY <1>3, <1>5, <1>6
<1> QED BY <1>9, <1>11, <1>12, <1>13

LEMMA TypedRead == ASSUME Typed, Read PROVE Typed'
<1>1. UNCHANGED <<writerVars, end>> /\ buf \in Seq(Bytes) /\ wire \in Seq(Bytes)
  BY TypedSized DEF Read, Fill, ReadToken, ReadFails, ReadAtEnd
<1>2. ASSUME buf' \in Seq(Bytes), wire' \in Seq(Bytes), Len(buf') <= MaxToken,
             reader' \in {"reading", "stopped"}, emptied' \in BOOLEAN,
             delivered' \in Seq(DOMAIN messages)
      PROVE  Typed'
  BY <1>1, <1>2 DEF Typed, TypeOK, OnlyLast, Last, Total, writerVars, Bytes
<1>3. CASE Fill
  BY <1>1, <1>2, <1>3, FillFacts DEF Fill, Typed, TypeOK
<1>4. CASE ReadToken
  <2>1. PICK h \in 2 .. Len(buf) : /\ Value(SubSeq(buf, 1, h - 1)) \in Nat
                                   /\ SplitJson(buf).advance = h + Value(SubSeq(buf, 1, h - 1))
                                   /\ h + Value(SubSeq(buf, 1, h - 1)) \in 0 .. Len(buf)
    BY <1>1, <1>4, TokenAt DEF ReadToken
  <2>2. SplitJson(buf).advance \in 0 .. Len(buf)
    BY <2>1
  <2>3. buf' = SubSeq(buf, SplitJson(buf).advance + 1, Len(buf))
    BY <1>4 DEF ReadToken
  <2>4. buf' \in Seq(Bytes) /\ Len(buf') = Len(buf) - SplitJson(buf).advance
    BY <1>1, <2>2, <2>3, Cuts
  <2>5. Len(buf') <= MaxToken
    BY <1>1, <2>2, <2>4, Limits DEF Typed, TypeOK
  <2>6. delivered' = delivered \/ \E m \in DOMAIN messages : delivered' = Append(delivered, m)
    BY <1>4 DEF ReadToken
  <2>7. delivered' \in Seq(DOMAIN messages)
    <3>1. delivered \in Seq(DOMAIN messages)
      BY DEF Typed, TypeOK
    <3>2. \A m \in DOMAIN messages : Append(delivered, m) \in Seq(DOMAIN messages)
      BY <3>1, AppendProperties
    <3> QED BY <2>6, <3>1, <3>2
  <2>8. reader' \in {"reading", "stopped"} /\ emptied' = emptied /\ wire' = wire
    BY <1>4 DEF ReadToken, Typed, TypeOK
  <2> QED BY <1>1, <1>2, <2>4, <2>5, <2>7, <2>8 DEF Typed, TypeOK
<1>5. CASE ReadFails
  BY <1>1, <1>2, <1>5 DEF ReadFails, Typed, TypeOK
<1>6. CASE ReadAtEnd
  <2>1. buf' \in Seq(Bytes) /\ Len(buf') <= MaxToken
    BY <1>6, Limits DEF ReadAtEnd
  <2> QED BY <1>1, <1>2, <1>6, <2>1 DEF ReadAtEnd, Typed, TypeOK
<1> QED BY <1>3, <1>4, <1>5, <1>6 DEF Read

LEMMA TypedNext == Typed /\ [Next]_vars => Typed'
<1> SUFFICES ASSUME Typed, [Next]_vars PROVE Typed'
  OBVIOUS
<1>1. ASSUME NEW w \in Writers, Lock(w) PROVE Typed'
  BY <1>1, TypedLock
<1>2. ASSUME NEW w \in Writers, WriteSegment(w) \/ WriteEnds(w) PROVE Typed'
  BY <1>2, TypedWrite
<1>3. CASE Close
  <2>1. UNCHANGED <<writerVars, readerVars>> /\ end' \in {"eof", "broken"}
    BY <1>3 DEF Close
  <2>2. wire \in Seq(Bytes) /\ <<>> \in Seq(Bytes) /\ (wire' = wire \/ wire' = <<>>)
    BY <1>3, TypedSized DEF Close
  <2> QED BY <2>1, <2>2 DEF Typed, TypeOK, OnlyLast, Last, Total, writerVars, readerVars, Bytes
<1>4. CASE Read
  BY <1>4, TypedRead
<1>5. CASE UNCHANGED vars
  BY <1>5 DEF vars, writerVars, readerVars, Typed, TypeOK, OnlyLast, Last, Total
<1> QED BY <1>1, <1>2, <1>3, <1>4, <1>5 DEF Next

\* Types; the writing mutex is held exactly while a message is being written;
\* the scanner's buffer stays within its limit (lines 81-101, 112-115).
THEOREM TypeCorrect == Spec => []TypeOK
<1>1. Typed => TypeOK
  BY DEF Typed
<1> QED BY <1>1, TypedInit, TypedNext, PTL DEF Spec

-----------------------------------------------------------------------------
(***************************************************************************)
(* The inductive invariant.  What is in the buffer and on the wire is the  *)
(* bytes written of the messages after the last one delivered, each where  *)
(* the one before it ends; only a broken connection, or the end of the     *)
(* stream once it was reported, takes bytes from the end of it.            *)
(***************************************************************************)
B(m) == Bin[m][messages[m].length]
W(m) == Width(messages[m].length)
Stream == buf \o wire
First == IF delivered = <<>> THEN 0 ELSE delivered[Len(delivered)]

\* Message m begins after the first pos[m] bytes of the stream.
Begins(pos, first) ==
  /\ pos \in [Nat -> Nat] /\ pos[first + 1] = 0
  /\ \A m, n \in Nat : first < m /\ m <= n => pos[m] <= pos[n]
Sums(pos, first) ==
  /\ \A m \in first + 1 .. Last : pos[m + 1] = pos[m] + messages[m].sent
  /\ \A n \in Nat : n > Last => pos[n] = pos[Last + 1]
Holds(stream, pos, first) ==
  /\ Len(stream) <= pos[Last + 1]
  /\ \A m \in first + 1 .. Last : \A j \in 1 .. messages[m].sent :
       pos[m] + j <= Len(stream) => stream[pos[m] + j] = B(m)[j]
Layout(stream, pos, first) ==
  Begins(pos, first) /\ Sums(pos, first) /\ Holds(stream, pos, first)

Streamed ==
  reader = "reading" =>
    \E pos : /\ Layout(Stream, pos, First)
             /\ end # "broken" /\ ~ emptied => Len(Stream) = pos[Last + 1]

\* What was delivered: all that is whole up to the last one delivered.
Unfinished(m) == messages[m].sent \in 1 .. Total(m) - 1 /\ messages[m].length > 0
Given ==
  /\ First \in 0 .. Last
  /\ First # 0 => Whole(First)
  /\ \A m \in 1 .. First : ~ Unfinished(m)
  /\ Enumerates(delivered, {m \in 1 .. First : Whole(m)})

AtEnd ==
  emptied => /\ end = "eof" /\ buf = <<>> /\ wire = <<>> /\ reader = "reading"
             /\ Enumerates(delivered, Deliverable)

IInv == Typed /\ Given /\ Streamed /\ AtEnd /\ ErrorHasCause

LEMMA StreamFacts ==
  ASSUME Typed
  PROVE  /\ Stream \in Seq(Bytes) /\ buf \in Seq(Bytes) /\ wire \in Seq(Bytes)
         /\ Len(buf) \in Nat /\ Len(wire) \in Nat
         /\ Len(Stream) = Len(buf) + Len(wire)
         /\ \A i \in 1 .. Len(buf) : Stream[i] = buf[i]
         /\ \A i \in 1 .. Len(wire) : Stream[Len(buf) + i] = wire[i]
<1>1. buf \in Seq(Bytes) /\ wire \in Seq(Bytes) /\ Len(buf) \in Nat /\ Len(wire) \in Nat
  BY TypedSized
<1>2. /\ buf \o wire \in Seq(Bytes) /\ Len(buf \o wire) = Len(buf) + Len(wire)
      /\ \A i \in 1 .. Len(buf) + Len(wire) : (buf \o wire)[i] =
                     IF i <= Len(buf) THEN buf[i] ELSE wire[i - Len(buf)]
  BY <1>1, ConcatProperties
<1> QED BY <1>1, <1>2 DEF Stream

LEMMA MessageFacts ==
  ASSUME Typed, NEW m \in 1 .. Last
  PROVE  /\ m \in Nat /\ m \in DOMAIN messages
         /\ messages[m].length \in Nat /\ messages[m].length \in Lengths
         /\ messages[m].sent \in Nat /\ messages[m].sent <= Total(m)
         /\ W(m) \in Nat \ {0} /\ Total(m) = W(m) + 1 + messages[m].length
         /\ \A j \in 1 .. Total(m) :
              /\ B(m)[j].type = "digit" <=> j <= W(m)
              /\ B(m)[j].type = "comma" <=> j = W(m) + 1
              /\ j <= W(m) => B(m)[j] = Digits[messages[m].length][j]
              /\ j > W(m) + 1 => B(m)[j] = Byte("json", m)
<1>1. Sized /\ m \in DOMAIN messages
  BY TypedSized
<1>2. /\ m \in 1 .. MaxMessages /\ messages[m].length \in Lengths /\ messages[m].sent \in Nat
      /\ messages[m].sent <= Total(m)
      /\ Total(m) = W(m) + 1 + messages[m].length
  BY <1>1, RestBytes DEF Sized, W
<1> DEFINE n == messages[m].length
<1>3. /\ n \in Nat /\ W(m) \in Nat \ {0}
      /\ \A j \in 1 .. W(m) : B(m)[j] = Digits[n][j]
      /\ B(m)[W(m) + 1] = Byte("comma", 0)
      /\ \A j \in W(m) + 2 .. W(m) + 1 + n : B(m)[j] = Byte("json", m)
  BY <1>2, BinBytes DEF B, W
<1>4. \A j \in 1 .. W(m) : Digits[n][j].type = "digit"
  <2>1. Digits[n] \in Seq(Bytes) /\ AllDigits(Digits[n])
    BY <1>3, DigitsAreDigits
  <2>2. DOMAIN Digits[n] = 1 .. W(m)
    BY <2>1 DEF W, Width
  <2> QED BY <2>1, <2>2 DEF AllDigits
<1>5. ASSUME NEW j \in 1 .. Total(m)
      PROVE  /\ B(m)[j].type = "digit" <=> j <= W(m)
             /\ B(m)[j].type = "comma" <=> j = W(m) + 1
             /\ j <= W(m) => B(m)[j] = Digits[n][j]
             /\ j > W(m) + 1 => B(m)[j] = Byte("json", m)
  <2> HIDE DEF n
  <2>1. j \in 1 .. W(m) \/ j = W(m) + 1 \/ j \in W(m) + 2 .. W(m) + 1 + n
    BY <1>2, <1>3 DEF n
  <2>2. CASE j \in 1 .. W(m)
    BY <1>3, <1>4, <2>2
  <2>3. CASE j = W(m) + 1
    BY <1>3, <2>3 DEF Byte
  <2>4. CASE j \in W(m) + 2 .. W(m) + 1 + n
    BY <1>3, <2>4 DEF Byte
  <2> QED BY <2>1, <2>2, <2>3, <2>4
<1>6. m \in Nat
  BY <1>2, Limits
<1> QED BY <1>1, <1>2, <1>3, <1>5, <1>6

\* The stream is laid out while the reader reads.
Laid(pos) == Typed /\ First \in 0 .. Last /\ Layout(Stream, pos, First)

\* A byte of the buffer belongs to a message.
LEMMA Owner ==
  ASSUME NEW pos, Laid(pos), NEW i \in 1 .. Len(buf)
  PROVE  \E a \in First + 1 .. Last :
           i - pos[a] \in 1 .. messages[a].sent /\ buf[i] = B(a)[i - pos[a]]
<1>0. /\ Last \in Nat /\ First \in Nat /\ First <= Last
      /\ i \in 1 .. Len(Stream) /\ Stream[i] = buf[i] /\ i \in Nat
  BY TypedSized, StreamFacts DEF Laid
<1>1. /\ \A n \in Nat : pos[n] \in Nat
      /\ pos[First + 1] = 0
      /\ \A m \in First + 1 .. Last : pos[m + 1] = pos[m] + messages[m].sent
      /\ Len(Stream) <= pos[Last + 1]
      /\ \A m \in First + 1 .. Last : \A j \in 1 .. messages[m].sent :
           pos[m] + j <= Len(Stream) => Stream[pos[m] + j] = B(m)[j]
  BY DEF Laid, Layout, Begins, Sums, Holds
<1> DEFINE T == {m \in First + 1 .. Last : i <= pos[m + 1]}
<1>2. Last \in T
  <2>1. i <= pos[Last + 1]
    BY <1>0, <1>1, StreamFacts DEF Laid
  <2>2. First # Last
    BY <1>0, <1>1, <2>1
  <2> QED BY <1>0, <2>1, <2>2
<1>3. PICK a \in T : \A b \in T : a <= b
  <2>1. T \subseteq Nat /\ T # {}
    BY <1>0, <1>2
  <2> QED BY <2>1, Least
<1>4. a \in First + 1 .. Last /\ a \in Nat /\ pos[a] \in Nat /\ i <= pos[a + 1]
  BY <1>0, <1>1, <1>3
<1>5. pos[a] < i
  <2>1. CASE a = First + 1
    BY <1>0, <1>1, <2>1
  <2>2. CASE a # First + 1
    <3>1. a - 1 \in First + 1 .. Last /\ (a - 1) + 1 = a /\ a - 1 \notin T
      BY <1>0, <1>3, <1>4, <2>2
    <3> QED BY <1>0, <1>4, <3>1
  <2> QED BY <2>1, <2>2
<1>6. messages[a].sent \in Nat /\ pos[a + 1] = pos[a] + messages[a].sent
  <2>1. a \in 1 .. Last
    BY <1>0, <1>4
  <2> QED BY <1>1, <1>4, <2>1, MessageFacts DEF Laid
<1>7. i - pos[a] \in 1 .. messages[a].sent /\ pos[a] + (i - pos[a]) = i
  BY <1>0, <1>4, <1>5, <1>6, SMTT(30)
<1>8. Stream[i] = B(a)[i - pos[a]]
  <2>1. pos[a] + (i - pos[a]) <= Len(Stream)
    BY <1>0, <1>7, StreamFacts DEF Laid
  <2> QED BY <1>1, <1>4, <1>7, <2>1
<1> QED BY <1>0, <1>4, <1>7, <1>8

\* A byte of message a in the buffer is the byte written.
LEMMA BufByte ==
  ASSUME NEW pos, Laid(pos), NEW a \in First + 1 .. Last,
         NEW j \in 1 .. messages[a].sent, pos[a] + j <= Len(buf)
  PROVE  /\ a \in 1 .. Last /\ pos[a] \in Nat /\ pos[a] + j \in 1 .. Len(buf)
         /\ j \in 1 .. Total(a)
         /\ buf[pos[a] + j] = B(a)[j]
<1>1. Last \in Nat /\ First \in Nat /\ Len(buf) \in Nat /\ Len(Stream) >= Len(buf)
  BY TypedSized, StreamFacts DEF Laid
<1>2. a \in 1 .. Last /\ a \in Nat
  BY <1>1
<1>3. pos[a] \in Nat /\ (pos[a] + j <= Len(Stream) => Stream[pos[a] + j] = B(a)[j])
  BY <1>2 DEF Laid, Layout, Begins, Holds
<1>4. messages[a].sent \in Nat /\ messages[a].sent <= Total(a) /\ Total(a) \in Nat
  BY <1>2, MessageFacts DEF Laid
<1>5. pos[a] + j \in 1 .. Len(buf) /\ j \in 1 .. Total(a) /\ pos[a] + j <= Len(Stream)
        /\ Len(Stream) \in Nat
  BY <1>1, <1>3, <1>4, StreamFacts, SMTT(30) DEF Laid
<1>6. Stream[pos[a] + j] = buf[pos[a] + j]
  BY <1>5, StreamFacts DEF Laid
<1> QED BY <1>2, <1>3, <1>5, <1>6

\* When only digits are in front of a message whose header is in the buffer,
\* they and the message's length make the number that SplitJson reads.
LEMMA HeaderOf ==
  ASSUME NEW pos, Laid(pos), NEW a \in First + 1 .. Last,
         messages[a].sent > W(a), pos[a] + W(a) + 1 <= Len(buf),
         \A i \in 1 .. pos[a] : buf[i].type = "digit"
  PROVE  LET h == pos[a] + W(a) + 1
             p == SubSeq(buf, 1, pos[a])
             number == Value(SubSeq(buf, 1, h - 1))
         IN /\ Headers(buf) = {h}
            /\ p \in Seq(Bytes) /\ Len(p) = pos[a] /\ \A i \in 1 .. pos[a] : p[i] = buf[i]
            /\ Value(p) \in Nat /\ number \in Nat
            /\ number >= messages[a].length + Value(p)
            /\ Value(p) = 0 => number = messages[a].length
<1> DEFINE h == pos[a] + W(a) + 1
           p == SubSeq(buf, 1, pos[a])
           front == SubSeq(buf, 1, h - 1)
           n == messages[a].length
           d == Digits[n]
<1>1. Typed /\ Last \in Nat /\ First \in Nat /\ buf \in Seq(Bytes) /\ Len(buf) \in Nat
  BY TypedSized, StreamFacts DEF Laid
<1>2. a \in 1 .. Last /\ a \in Nat
  BY <1>1
<1>3. /\ n \in Nat /\ W(a) \in Nat \ {0} /\ messages[a].sent \in Nat /\ pos[a] \in Nat
      /\ messages[a].sent <= Total(a) /\ Total(a) \in Nat
  <2>1. pos[a] \in Nat
    BY <1>2 DEF Laid, Layout, Begins
  <2>2. /\ n \in Nat /\ W(a) \in Nat \ {0} /\ messages[a].sent \in Nat
        /\ messages[a].sent <= Total(a) /\ Total(a) = W(a) + 1 + n
    BY <1>1, <1>2, MessageFacts
  <2> HIDE DEF n
  <2> QED BY <2>1, <2>2
<1>4. h \in 2 .. Len(buf) /\ h - 1 = pos[a] + W(a) /\ h \in Nat
      /\ pos[a] \in 0 .. Len(buf) /\ h - 1 \in 0 .. Len(buf)
  BY <1>1, <1>3, SMTT(30)
<1>5. \A j \in 1 .. W(a) : buf[pos[a] + j] = d[j] /\ buf[pos[a] + j].type = "digit"
  <2>1. ASSUME NEW j \in 1 .. W(a)
        PROVE  buf[pos[a] + j] = d[j] /\ buf[pos[a] + j].type = "digit"
    <3>1. j \in 1 .. messages[a].sent /\ pos[a] + j <= Len(buf) /\ j <= W(a)
      BY <1>1, <1>3, <1>4, SMTT(30)
    <3>2. buf[pos[a] + j] = B(a)[j] /\ j \in 1 .. Total(a)
      BY <3>1, BufByte
    <3> QED BY <1>1, <1>2, <3>1, <3>2, MessageFacts
  <2> QED BY <2>1
<1>6. buf[h].type = "comma"
  <2>1. W(a) + 1 \in 1 .. messages[a].sent /\ pos[a] + (W(a) + 1) <= Len(buf)
        /\ pos[a] + (W(a) + 1) = h
    <3> DEFINE o == pos[a]
               k == W(a)
    <3>1. o \in Nat /\ k \in Nat /\ h = o + k + 1 /\ messages[a].sent \in Nat
          /\ messages[a].sent > k /\ h <= Len(buf)
      BY <1>3, <1>4
    <3> HIDE DEF o, k, h
    <3>2. k + 1 \in 1 .. messages[a].sent /\ o + (k + 1) <= Len(buf) /\ o + (k + 1) = h
      BY <3>1, <1>1
    <3> QED BY <3>2 DEF o, k
  <2>2. buf[h] = B(a)[W(a) + 1] /\ W(a) + 1 \in 1 .. Total(a)
    BY <2>1, BufByte
  <2> QED BY <1>1, <1>2, <2>2, MessageFacts
<1>7. \A i \in 1 .. h - 1 : buf[i].type = "digit"
  <2>1. ASSUME NEW i \in 1 .. h - 1
        PROVE  buf[i].type = "digit"
    <3> DEFINE o == pos[a]
               k == W(a)
    <3>0. o \in Nat /\ k \in Nat /\ i \in 1 .. o + k
      BY <1>3, <1>4
    <3> HIDE DEF o, k
    <3>2. i \in 1 .. o \/ (i - o \in 1 .. k /\ o + (i - o) = i)
      BY <3>0
    <3>1. i \in 1 .. pos[a] \/ (i - pos[a] \in 1 .. W(a) /\ pos[a] + (i - pos[a]) = i)
      BY <3>2 DEF o, k
    <3> QED BY <1>5, <3>1
  <2> QED BY <2>1
<1>8. Headers(buf) = {h}
  <2>1. h \in Headers(buf)
    BY <1>4, <1>6, <1>7 DEF Headers
  <2> QED BY <1>1, <2>1, HeaderFound
<1>9. /\ p \in Seq(Bytes) /\ Len(p) = pos[a] /\ \A i \in 1 .. pos[a] : p[i] = buf[i]
      /\ front \in Seq(Bytes) /\ Len(front) = h - 1 /\ \A i \in 1 .. h - 1 : front[i] = buf[i]
  BY <1>1, <1>4, Cuts
<1>10. d \in Seq(Bytes) /\ Len(d) = W(a)
  BY <1>3, DigitsAreDigits DEF W, Width
<1> HIDE DEF h, p, front, d
<1>11. front = p \o d
  <2>1. /\ p \o d \in Seq(Bytes) /\ Len(p \o d) = Len(p) + Len(d)
        /\ \A i \in 1 .. Len(p) + Len(d) : (p \o d)[i] =
                     IF i <= Len(p) THEN p[i] ELSE d[i - Len(p)]
    BY <1>9, <1>10, ConcatProperties
  <2>2. Len(front) = Len(p \o d)
    BY <1>4, <1>9, <1>10, <2>1
  <2>3. ASSUME NEW i \in 1 .. Len(front)
        PROVE  front[i] = (p \o d)[i]
    <3>1. i \in 1 .. Len(p) + Len(d) /\ front[i] = buf[i]
      BY <1>9, <2>1, <2>2
    <3>2. CASE i <= Len(p)
      BY <1>3, <1>9, <2>1, <3>1, <3>2
    <3>3. CASE ~ (i <= Len(p))
      <4>1. i - pos[a] \in 1 .. W(a) /\ pos[a] + (i - pos[a]) = i
        BY <1>3, <1>9, <1>10, <3>1, <3>3, SMTT(30)
      <4>2. buf[i] = d[i - pos[a]]
        BY <1>5, <4>1
      <4> QED BY <1>9, <2>1, <3>1, <3>3, <4>2
    <3> QED BY <3>2, <3>3
  <2> QED BY <1>9, <2>1, <2>2, <2>3, SeqEqual
<1>12. /\ Value(p) \in Nat /\ Value(front) \in Nat
       /\ Value(front) >= n + Value(p)
       /\ Value(p) = 0 => Value(front) = n
  BY <1>3, <1>9, <1>11, ValueInFront DEF d
<1> QED BY <1>8, <1>9, <1>12 DEF h, p, front

LEMMA Order ==
  ASSUME NEW pos, Laid(pos), NEW a \in First + 1 .. Last
  PROVE  /\ a \in 1 .. Last /\ a \in Nat /\ messages[a].sent \in Nat
         /\ pos[a] \in Nat /\ pos[a + 1] \in Nat /\ pos[a + 1] = pos[a] + messages[a].sent
         /\ \A b \in First + 1 .. Last : a < b => pos[a + 1] <= pos[b]
<1>1. Last \in Nat /\ First \in Nat
  BY TypedSized DEF Laid
<1>2. a \in 1 .. Last /\ a \in Nat /\ a + 1 \in Nat
  BY <1>1
<1>3. messages[a].sent \in Nat
  BY <1>2, MessageFacts DEF Laid
<1>4. pos[a] \in Nat /\ pos[a + 1] \in Nat /\ pos[a + 1] = pos[a] + messages[a].sent
  BY <1>2 DEF Laid, Layout, Begins, Sums
<1>5. ASSUME NEW b \in First + 1 .. Last, a < b
      PROVE  pos[a + 1] <= pos[b]
  <2>1. a + 1 \in Nat /\ b \in Nat /\ a + 1 <= b /\ First < a + 1
    BY <1>1, <1>2, <1>5
  <2> QED BY <2>1 DEF Laid, Layout, Begins
<1> QED BY <1>2, <1>3, <1>4, <1>5

\* The header that SplitJson finds is that of a message, behind digits only.
LEMMA HeaderHas ==
  ASSUME NEW pos, Laid(pos), NEW h \in 2 .. Len(buf), buf[h].type = "comma",
         \A i \in 1 .. h - 1 : buf[i].type = "digit"
  PROVE  \E a \in First + 1 .. Last :
           /\ h = pos[a] + W(a) + 1 /\ messages[a].sent > W(a)
           /\ \A i \in 1 .. pos[a] : buf[i].type = "digit"
<1>0. Typed /\ Len(buf) \in Nat /\ h \in 1 .. Len(buf) /\ h \in Nat
  BY StreamFacts DEF Laid
<1>1. PICK a \in First + 1 .. Last :
        h - pos[a] \in 1 .. messages[a].sent /\ buf[h] = B(a)[h - pos[a]]
  BY <1>0, Owner
<1>2. a \in 1 .. Last /\ pos[a] \in Nat /\ messages[a].sent \in Nat
  BY Order
<1>3. /\ W(a) \in Nat /\ Total(a) \in Nat /\ messages[a].sent <= Total(a)
      /\ \A j \in 1 .. Total(a) : B(a)[j].type = "comma" <=> j = W(a) + 1
  <2>1. messages[a].length \in Nat /\ Total(a) = W(a) + 1 + messages[a].length /\ W(a) \in Nat
    BY <1>0, <1>2, MessageFacts
  <2>2. Total(a) \in Nat
    BY <2>1
  <2> QED BY <1>0, <1>2, <2>1, <2>2, MessageFacts
<1>4. h - pos[a] \in 1 .. Total(a)
  BY <1>0, <1>1, <1>2, <1>3
<1>5. h - pos[a] = W(a) + 1
  BY <1>1, <1>3, <1>4
<1>6. h = pos[a] + W(a) + 1 /\ messages[a].sent > W(a)
  BY <1>0, <1>1, <1>2, <1>3, <1>5
<1>7. \A i \in 1 .. pos[a] : i \in 1 .. h - 1
  BY <1>0, <1>2, <1>3, <1>6
<1> QED BY <1>6, <1>7

\* A token that Unmarshal accepts as message m is message m: it is whole, the
\* reader goes on behind it, and of the messages between the last one delivered
\* and m nothing was written but what has length 0.
LEMMA Accepted ==
  ASSUME NEW pos, Laid(pos), Scans("token"),
         NEW m \in DOMAIN messages, IsMessage(SplitJson(buf).token, m)
  PROVE  /\ m \in First + 1 .. Last /\ Whole(m)
         /\ SplitJson(buf).advance = pos[m + 1] /\ pos[m + 1] \in 0 .. Len(buf)
         /\ \A c \in First + 1 .. m - 1 : messages[c].sent = 0 \/ messages[c].length = 0
<1>0. Typed /\ buf \in Seq(Bytes) /\ Len(buf) \in Nat /\ First \in Nat /\ Last \in Nat
  BY StreamFacts, TypedSized DEF Laid
<1> DEFINE t == SplitJson(buf).token
           adv == SplitJson(buf).advance
           n == messages[m].length
<1>1. PICK h \in 2 .. Len(buf) :
        LET number == Value(SubSeq(buf, 1, h - 1))
        IN /\ buf[h].type = "comma" /\ \A i \in 1 .. h - 1 : buf[i].type = "digit"
           /\ number \in Nat /\ h + number \in 0 .. Len(buf)
           /\ adv = h + number /\ t \in Seq(Bytes) /\ Len(t) = number
           /\ \A i \in 1 .. number : t[i] = buf[h + i]
  BY <1>0, TokenAt
<1>2. Len(t) = n /\ t # <<>> /\ \A i \in DOMAIN t : t[i] = Byte("json", m)
  BY DEF IsMessage
<1> HIDE DEF t, adv
<1>3. /\ Value(SubSeq(buf, 1, h - 1)) = n /\ n \in Nat /\ n > 0 /\ adv = h + n
      /\ h + n \in 0 .. Len(buf) /\ h \in Nat
      /\ \A i \in 1 .. n : buf[h + i] = Byte("json", m)
  <2> DEFINE number == Value(SubSeq(buf, 1, h - 1))
  <2>1. /\ number \in Nat /\ h + number \in 0 .. Len(buf)
        /\ adv = h + number /\ t \in Seq(Bytes) /\ Len(t) = number
        /\ \A i \in 1 .. number : t[i] = buf[h + i]
    BY <1>1
  <2> HIDE DEF number, n
  <2>2. number = n /\ h \in Nat
    BY <1>0, <1>2, <2>1
  <2>3. n > 0
    BY <1>2, <2>1, <2>2, EmptySeq
  <2>4. DOMAIN t = 1 .. n
    BY <2>1, <2>2
  <2>5. \A i \in 1 .. n : buf[h + i] = Byte("json", m)
    BY <1>2, <2>1, <2>2, <2>4
  <2>6. Value(SubSeq(buf, 1, h - 1)) = n
    BY <2>2 DEF number
  <2> QED BY <2>1, <2>2, <2>3, <2>5, <2>6
<1> HIDE DEF n
<1>4. ASSUME NEW i \in 1 .. n
      PROVE  /\ m \in First + 1 .. Last
             /\ (h + i) - pos[m] \in 1 .. messages[m].sent /\ (h + i) - pos[m] > W(m) + 1
  <2>1. h + i \in 1 .. Len(buf) /\ h + i \in Nat
    BY <1>0, <1>3
  <2>2. PICK b \in First + 1 .. Last : /\ (h + i) - pos[b] \in 1 .. messages[b].sent
                                       /\ buf[h + i] = B(b)[(h + i) - pos[b]]
    BY <2>1, Owner
  <2> DEFINE k == (h + i) - pos[b]
  <2>3. b \in 1 .. Last /\ pos[b] \in Nat /\ messages[b].sent \in Nat /\ k \in 1 .. messages[b].sent
    BY <2>2, Order
  <2>4. messages[b].sent <= Total(b) /\ W(b) \in Nat /\ Total(b) \in Nat
        /\ \A j \in 1 .. Total(b) :
              /\ B(b)[j].type = "digit" <=> j <= W(b)
              /\ B(b)[j].type = "comma" <=> j = W(b) + 1
              /\ j > W(b) + 1 => B(b)[j] = Byte("json", b)
    <3>1. messages[b].length \in Nat /\ Total(b) = W(b) + 1 + messages[b].length /\ W(b) \in Nat
      BY <1>0, <2>3, MessageFacts
    <3>2. Total(b) \in Nat
      BY <3>1
    <3> QED BY <1>0, <2>3, <3>1, <3>2, MessageFacts
  <2>5. B(b)[k] = Byte("json", m)
    BY <1>3, <2>2
  <2> HIDE DEF k
  <2>6. k \in 1 .. Total(b) /\ k \in Nat
    BY <2>3, <2>4
  <2>7. B(b)[k].type = "json" /\ B(b)[k].value = m
    BY <2>5 DEF Byte
  <2>8. k > W(b) + 1
    BY <2>4, <2>6, <2>7
  <2>9. B(b)[k] = Byte("json", b)
    BY <2>4, <2>6, <2>8
  <2>10. b = m
    BY <2>7, <2>9 DEF Byte
  <2> QED BY <2>2, <2>3, <2>8, <2>10 DEF k
<1>5. PICK a \in First + 1 .. Last :
        /\ h = pos[a] + W(a) + 1 /\ messages[a].sent > W(a)
        /\ \A i \in 1 .. pos[a] : buf[i].type = "digit"
  BY <1>1, HeaderHas
<1>6. m \in First + 1 .. Last /\ m \in 1 .. Last
  <2>1. 1 \in 1 .. n
    BY <1>3
  <2> QED BY <1>0, <1>4, <2>1
<1>7. /\ pos[m] \in Nat /\ messages[m].sent \in Nat /\ pos[m + 1] = pos[m] + messages[m].sent
      /\ pos[a] \in Nat /\ messages[a].sent \in Nat /\ pos[a + 1] = pos[a] + messages[a].sent
      /\ a < m => pos[a + 1] <= pos[m]
      /\ m < a => pos[m + 1] <= pos[a]
      /\ a \in Nat /\ m \in Nat
  BY <1>6, Order
<1>8. /\ W(m) \in Nat /\ messages[m].sent <= Total(m) /\ Total(m) = W(m) + 1 + n
      /\ W(a) \in Nat
  <2>1. a \in 1 .. Last
    BY Order
  <2> QED BY <1>0, <1>6, <2>1, MessageFacts DEF n
<1>9. a = m
  <2>1. 1 \in 1 .. n
    BY <1>3
  <2>2. (h + 1) - pos[m] <= messages[m].sent /\ (h + 1) - pos[m] > W(m) + 1
    BY <1>4, <1>7, <2>1
  <2> DEFINE oa == pos[a]  ea == pos[a + 1]  sa == messages[a].sent  wa == W(a)
             om == pos[m]  em == pos[m + 1]  sm == messages[m].sent  wm == W(m)
  <2>3. /\ oa \in Nat /\ sa \in Nat /\ wa \in Nat /\ ea = oa + sa
        /\ om \in Nat /\ sm \in Nat /\ wm \in Nat /\ em = om + sm
        /\ h \in Nat /\ h = oa + wa + 1 /\ sa > wa
        /\ a < m => ea <= om
        /\ m < a => em <= oa
        /\ (h + 1) - om <= sm /\ (h + 1) - om > wm + 1
    BY <1>3, <1>5, <1>7, <1>8, <2>2
  <2> HIDE DEF oa, ea, sa, wa, om, em, sm, wm
  <2>4. ~ (a < m)
    BY <2>3
  <2>5. ~ (m < a)
    BY <2>3
  <2> QED BY <1>7, <2>4, <2>5
<1>10. messages[m].sent = Total(m) /\ adv = pos[m + 1]
  <2>1. n \in 1 .. n
    BY <1>3
  <2>2. (h + n) - pos[m] <= messages[m].sent
    BY <1>4, <1>7, <2>1
  <2> DEFINE om == pos[m]  sm == messages[m].sent  wm == W(m)  total == Total(m)
  <2>3. /\ om \in Nat /\ sm \in Nat /\ wm \in Nat /\ n \in Nat /\ h \in Nat
        /\ h = om + wm + 1 /\ sm <= total /\ total = wm + 1 + n
        /\ (h + n) - om <= sm
    BY <1>3, <1>5, <1>7, <1>8, <1>9, <2>2
  <2> HIDE DEF om, sm, wm, total
  <2>4. sm = total /\ h + n = om + sm
    BY <2>3
  <2> QED BY <1>3, <1>7, <2>4 DEF om, sm, total
<1>11. Whole(m)
  BY <1>3, <1>10 DEF Whole, n
<1> DEFINE p == SubSeq(buf, 1, pos[m])
<1>12. /\ p \in Seq(Bytes) /\ Len(p) = pos[m] /\ \A i \in 1 .. pos[m] : p[i] = buf[i]
       /\ Value(p) = 0
  <2>1. pos[m] + W(m) + 1 <= Len(buf) /\ h = pos[m] + W(m) + 1
    <3>1. h <= Len(buf)
      BY <1>0
    <3> QED BY <1>5, <1>9, <3>1
  <2>2. /\ p \in Seq(Bytes) /\ Len(p) = pos[m] /\ \A i \in 1 .. pos[m] : p[i] = buf[i]
        /\ Value(p) \in Nat /\ Value(SubSeq(buf, 1, h - 1)) >= n + Value(p)
    BY <1>5, <1>9, <2>1, HeaderOf DEF n
  <2> HIDE DEF p
  <2> QED BY <1>3, <2>2
<1> HIDE DEF p
<1>13. ASSUME NEW c \in First + 1 .. m - 1, messages[c].sent # 0
       PROVE  messages[c].length = 0
  <2>1. c \in First + 1 .. Last /\ c < m
    BY <1>0, <1>6
  <2>2. /\ c \in 1 .. Last /\ pos[c] \in Nat /\ messages[c].sent \in Nat
        /\ pos[c + 1] = pos[c] + messages[c].sent /\ pos[c + 1] <= pos[m]
    BY <1>6, <2>1, Order
  <2>3. 1 \in 1 .. messages[c].sent /\ pos[c] + 1 \in 1 .. pos[m] /\ pos[c] + 1 <= Len(buf)
    <3> DEFINE o == pos[c]  e == pos[c + 1]  k == messages[c].sent  om == pos[m]
    <3>1. /\ o \in Nat /\ k \in Nat /\ k # 0 /\ e = o + k /\ e <= om /\ om \in Nat
          /\ om <= Len(buf)
      <4>1. om <= h /\ h <= Len(buf) /\ om \in Nat
        <5> DEFINE wm == W(m)
        <5>1. h = om + wm + 1 /\ om \in Nat /\ wm \in Nat /\ h \in 2 .. Len(buf)
          BY <1>5, <1>7, <1>8, <1>9
        <5> HIDE DEF om, wm
        <5> QED BY <5>1, <1>0
      <4>2. om <= Len(buf)
        BY <1>0, <1>3, <4>1
      <4> QED BY <1>7, <1>13, <2>2, <4>2
    <3> HIDE DEF o, e, k, om
    <3>2. 1 \in 1 .. k /\ o + 1 \in 1 .. om /\ o + 1 <= Len(buf)
      BY <1>0, <3>1
    <3> QED BY <3>2 DEF o, k, om
  <2>4. buf[pos[c] + 1] = B(c)[1] /\ 1 \in 1 .. Total(c)
    BY <2>1, <2>3, BufByte
  <2>5. B(c)[1] = Digits[messages[c].length][1] /\ messages[c].length \in Nat
    <3>1. W(c) \in Nat \ {0} /\ messages[c].length \in Nat
      BY <1>0, <2>2, MessageFacts
    <3>2. 1 <= W(c)
      BY <3>1
    <3> QED BY <1>0, <2>2, <2>4, <3>1, <3>2, MessageFacts
  <2>6. p[pos[c] + 1].value <= 0
    <3>1. pos[c] + 1 \in 1 .. Len(p)
      BY <1>12, <2>3
    <3>2. 0 >= p[pos[c] + 1].value
      BY <1>12, <3>1, ValueBound
    <3>3. p[pos[c] + 1].value \in Nat
      BY <1>12, <3>1, ValuesAreNat
    <3> QED BY <3>2, <3>3
  <2>7. ~ (Digits[messages[c].length][1].value > 0)
    <3>1. p[pos[c] + 1] = Digits[messages[c].length][1]
      BY <1>12, <2>3, <2>4, <2>5
    <3>2. p[pos[c] + 1].value \in Nat
      BY <1>12, <2>3, ValuesAreNat
    <3> QED BY <2>6, <3>1, <3>2
  <2> QED BY <2>5, <2>7, DigitsAreDigits
<1>14. pos[m + 1] \in 0 .. Len(buf)
  BY <1>3, <1>10
<1> QED BY <1>6, <1>10, <1>11, <1>13, <1>14 DEF adv

-----------------------------------------------------------------------------
(***************************************************************************)
(* Errors have a cause: without one, what is in the buffer begins with a   *)
(* message that is whole, or still being written and not yet all read.     *)
(* A cause does not count while there is a message in front of it.         *)
(***************************************************************************)
Cause ==
  \/ end = "broken"
  \/ \E m \in DOMAIN messages :
       Bad(m) /\ \A c \in 1 .. m - 1 : Whole(c) => c \in Returned

AtFront(pos, a) ==
  /\ a \in First + 1 .. Last
  /\ pos[a] = 0 /\ messages[a].length > 0 /\ Fits(a)
  /\ messages[a].sent = Total(a) \/ Len(buf) <= messages[a].sent

LEMMA Front ==
  ASSUME NEW pos, Laid(pos), Given, ~ Cause, Len(buf) > 0
  PROVE  \E a : AtFront(pos, a)
<1>0. Typed /\ Len(buf) \in Nat /\ First \in Nat /\ Last \in Nat /\ 1 \in 1 .. Len(buf)
  BY StreamFacts, TypedSized DEF Laid
<1>1. PICK a \in First + 1 .. Last : 1 - pos[a] \in 1 .. messages[a].sent
  BY <1>0, Owner
<1>2. /\ a \in 1 .. Last /\ messages[a].sent \in Nat /\ pos[a] \in Nat
      /\ pos[a + 1] = pos[a] + messages[a].sent
  BY Order
<1>3. pos[a] = 0 /\ messages[a].sent \in 1 .. messages[a].sent
  BY <1>1, <1>2
<1>4. /\ messages[a].length \in Nat /\ messages[a].sent <= Total(a)
      /\ W(a) \in Nat /\ Total(a) = W(a) + 1 + messages[a].length /\ a \in DOMAIN messages
  BY <1>0, <1>2, MessageFacts
<1>8. ASSUME NEW c \in 1 .. a - 1, Whole(c)
      PROVE  c \in Returned
  <2>1. CASE c \in 1 .. First
    BY <1>8, <2>1 DEF Given, Enumerates, Returned
  <2>2. CASE c \notin 1 .. First
    <3>1. c \in First + 1 .. Last /\ c < a
      BY <1>0, <1>2, <2>2
    <3>2. c \in 1 .. Last /\ pos[c + 1] <= pos[a] /\ pos[c] \in Nat /\ messages[c].sent \in Nat
          /\ pos[c + 1] = pos[c] + messages[c].sent
      BY <3>1, Order
    <3>3. messages[c].sent > 0
      <4>1. /\ W(c) \in Nat /\ messages[c].length \in Nat
            /\ Total(c) = W(c) + 1 + messages[c].length
        BY <1>0, <3>2, MessageFacts
      <4> QED BY <1>8, <4>1 DEF Whole
    <3> QED BY <1>3, <3>2, <3>3
  <2> QED BY <2>1, <2>2
<1>5. ~ Cut(a) /\ messages[a].length # 0 /\ Fits(a)
  <2>1. messages[a].sent > 0
    BY <1>2, <1>3
  <2> QED BY <1>4, <1>8, <2>1 DEF Cause, Bad
<1>6. Total(a) \in Nat /\ messages[a].length > 0
  BY <1>4, <1>5
<1>7. ASSUME messages[a].sent # Total(a)
      PROVE  Len(buf) <= messages[a].sent
  <2>1. messages[a].sent \in 1 .. Total(a) - 1
    BY <1>2, <1>3, <1>4, <1>6, <1>7
  <2>2. PICK w \in Writers : writing[w] = a
    BY <1>5, <1>6, <2>1 DEF Cut
  <2>3. a = Last
    BY <1>0, <1>2, <2>2 DEF Typed, OnlyLast
  <2>4. Len(Stream) <= messages[a].sent
    <3>1. Len(Stream) <= pos[a + 1]
      BY <2>3 DEF Laid, Layout, Holds
    <3>2. pos[a + 1] = messages[a].sent
      BY <1>2, <1>3
    <3> QED BY <3>1, <3>2
  <2> QED BY <1>0, <1>2, <2>4, StreamFacts
<1> QED BY <1>3, <1>5, <1>6, <1>7 DEF AtFront

LEMMA FrontHeader ==
  ASSUME NEW pos, Laid(pos), NEW a, AtFront(pos, a)
  PROVE  /\ Headers(buf) = {} => Len(buf) <= W(a)
         /\ Headers(buf) # {} => /\ Headers(buf) = {W(a) + 1}
                                 /\ Value(SubSeq(buf, 1, (W(a) + 1) - 1)) = messages[a].length
<1>0. Typed /\ buf \in Seq(Bytes) /\ Len(buf) \in Nat /\ First \in Nat /\ Last \in Nat
  BY StreamFacts, TypedSized DEF Laid
<1>1. a \in First + 1 .. Last /\ pos[a] = 0
      /\ (messages[a].sent = Total(a) \/ Len(buf) <= messages[a].sent)
  BY DEF AtFront
<1>2. a \in 1 .. Last /\ messages[a].sent \in Nat
  BY <1>1, Order
<1>3. W(a) \in Nat /\ Total(a) \in Nat /\ Total(a) > W(a)
  <2>1. /\ W(a) \in Nat /\ messages[a].length \in Nat
        /\ Total(a) = W(a) + 1 + messages[a].length
    BY <1>0, <1>2, MessageFacts
  <2> QED BY <2>1
<1>4. ASSUME Len(buf) > W(a)
      PROVE  /\ Headers(buf) = {W(a) + 1}
             /\ Value(SubSeq(buf, 1, (W(a) + 1) - 1)) = messages[a].length
  <2>1. messages[a].sent > W(a) /\ pos[a] + W(a) + 1 <= Len(buf)
        /\ pos[a] + W(a) + 1 = W(a) + 1
    BY <1>0, <1>1, <1>2, <1>3, <1>4
  <2>2. \A i \in 1 .. pos[a] : buf[i].type = "digit"
    BY <1>1
  <2> DEFINE p == SubSeq(buf, 1, pos[a])
             number == Value(SubSeq(buf, 1, (W(a) + 1) - 1))
  <2>3. /\ Headers(buf) = {W(a) + 1}
        /\ p \in Seq(Bytes) /\ Len(p) = pos[a]
        /\ Value(p) = 0 => number = messages[a].length
    BY <1>1, <2>1, <2>2, HeaderOf
  <2> HIDE DEF p
  <2>4. p = <<>>
    BY <1>1, <2>3, EmptySeq
  <2> QED BY <2>3, <2>4, ValueEmpty
<1>5. ASSUME ~ (Len(buf) > W(a)), Headers(buf) # {}
      PROVE  FALSE
  <2>1. PICK h \in 2 .. Len(buf) : buf[h].type = "comma"
    BY <1>0, <1>5, HeaderFound
  <2>2. h \in 1 .. messages[a].sent /\ pos[a] + h = h /\ h <= Len(buf) /\ h <= W(a)
    BY <1>0, <1>1, <1>2, <1>3, <1>5
  <2>3. buf[h] = B(a)[h] /\ h \in 1 .. Total(a)
    BY <1>1, <2>2, BufByte
  <2>4. h # W(a) + 1
    BY <1>3, <2>2
  <2> QED BY <1>0, <1>2, <2>1, <2>3, <2>4, MessageFacts
<1>6. CASE Len(buf) > W(a)
  BY <1>4, <1>6
<1>7. CASE ~ (Len(buf) > W(a))
  <2>1. Len(buf) <= W(a)
    BY <1>0, <1>3, <1>7
  <2>2. Headers(buf) = {}
    BY <1>5, <1>7
  <2> QED BY <2>1, <2>2
<1> QED BY <1>6, <1>7

LEMMA ErrorsHaveCause ==
  ASSUME NEW pos, Laid(pos), Given, ~ Cause
  PROVE  LET split == SplitJson(buf)
         IN /\ split.kind # "error"
            /\ split.kind = "more" => Len(buf) # MaxToken
            /\ split.kind = "token" => \E m \in DOMAIN messages : IsMessage(split.token, m)
<1> DEFINE split == SplitJson(buf)
<1>0. Typed /\ buf \in Seq(Bytes) /\ Len(buf) \in Nat /\ First \in Nat /\ Last \in Nat
  BY StreamFacts, TypedSized DEF Laid
<1>1. CASE ~ (Len(buf) > 0)
  <2>1. Len(buf) = 0 /\ 2 .. 0 = {}
    BY <1>0, <1>1
  <2>2. Headers(buf) = {}
    BY <2>1 DEF Headers
  <2> QED BY <2>1, <2>2, SplitNone, Limits
<1>2. CASE Len(buf) > 0
  <2>1. PICK a : AtFront(pos, a)
    BY <1>2, Front
  <2>2. /\ a \in First + 1 .. Last /\ pos[a] = 0
        /\ messages[a].length > 0 /\ Fits(a)
        /\ messages[a].sent = Total(a) \/ Len(buf) <= messages[a].sent
    BY <2>1 DEF AtFront
  <2>3. a \in 1 .. Last /\ messages[a].sent \in Nat
    BY <2>2, Order
  <2> DEFINE n == messages[a].length
             wa == W(a)
  <2>4. /\ n \in Nat /\ n \in Lengths /\ wa \in Nat /\ Total(a) = wa + 1 + n
        /\ a \in DOMAIN messages
    BY <1>0, <2>3, MessageFacts
  <2>5. Total(a) <= MaxToken /\ n <= MaxLen
    BY <2>2 DEF Fits
  <2>6. wa <= MaxHeader
    BY <2>4, <2>5, FramingAssumption DEF W, Width
  <2>7. CASE Headers(buf) = {}
    <3>1. Len(buf) <= wa
      BY <2>1, <2>7, FrontHeader
    <3>2. split.kind # "error" /\ split.kind # "token"
      <4> HIDE DEF n, wa, split
      <4>1. ~ (Len(buf) > MaxHeader)
        BY <1>0, <2>4, <2>6, <3>1, Limits
      <4> QED BY <2>7, <4>1, SplitNone DEF split
    <3>3. Len(buf) # MaxToken
      <4> HIDE DEF n, wa
      <4> QED BY <1>0, <2>4, <2>5, <3>1, Limits
    <3> QED BY <3>2, <3>3
  <2>8. CASE Headers(buf) # {}
    <3> DEFINE h == W(a) + 1
    <3>1. Headers(buf) = {h} /\ Value(SubSeq(buf, 1, h - 1)) = n
      BY <2>1, <2>8, FrontHeader
    <3>2. /\ split.kind = "error" <=> n > MaxLen
          /\ split.kind = "more" <=> n <= MaxLen /\ Len(buf) < h + n
          /\ split.kind = "token" <=> n <= MaxLen /\ Len(buf) >= h + n
          /\ split.kind = "token" =>
               /\ split.token \in Seq(Bytes) /\ Len(split.token) = n
               /\ \A i \in 1 .. n : split.token[i] = buf[h + i]
      BY <1>0, <3>1, SplitAt
    <3> HIDE DEF split
    <3>3. split.kind # "error"
      <4> HIDE DEF n
      <4> QED BY <2>4, <2>5, <3>2, Limits
    <3>4. split.kind = "more" => Len(buf) # MaxToken
      <4>1. h + n = Total(a) /\ Total(a) \in Nat
        BY <2>4
      <4> HIDE DEF n, h
      <4> QED BY <1>0, <2>5, <3>2, <4>1, Limits
    <3>5. ASSUME split.kind = "token"
          PROVE  IsMessage(split.token, a)
      <4>1. h + n = Total(a) /\ Total(a) \in Nat /\ h = wa + 1
        BY <2>4
      <4>2. Len(buf) >= Total(a) /\ messages[a].sent = Total(a)
        <5>1. messages[a].sent <= Total(a)
          BY <1>0, <2>3, MessageFacts
        <5> HIDE DEF n, h
        <5> QED BY <1>0, <2>2, <2>3, <3>2, <3>5, <4>1, <5>1
      <4>3. ASSUME NEW i \in 1 .. n
            PROVE  split.token[i] = Byte("json", a)
        <5>1. h + i \in 1 .. Total(a) /\ h + i > wa + 1 /\ h + i \in 1 .. messages[a].sent
              /\ pos[a] + (h + i) <= Len(buf) /\ pos[a] + (h + i) = h + i
          <6> HIDE DEF n, h, wa
          <6> QED BY <1>0, <2>2, <2>4, <4>1, <4>2
        <5>2. buf[h + i] = B(a)[h + i]
          BY <2>2, <5>1, BufByte
        <5>3. B(a)[h + i] = Byte("json", a)
          BY <1>0, <2>3, <5>1, MessageFacts
        <5> QED BY <3>2, <3>5, <5>2, <5>3
      <4>4. split.token \in Seq(Bytes) /\ Len(split.token) = n
        BY <3>2, <3>5
      <4>5. DOMAIN split.token = 1 .. n
        BY <4>4
      <4>6. split.token # <<>>
        <5>1. Len(split.token) # 0
          BY <2>2, <2>4, <4>4
        <5> QED BY <5>1, EmptySeq
      <4> QED BY <4>3, <4>4, <4>5, <4>6 DEF IsMessage
    <3> QED BY <2>4, <3>3, <3>4, <3>5 DEF split
  <2> QED BY <2>7, <2>8
<1> QED BY <1>0, <1>1, <1>2

-----------------------------------------------------------------------------
(***************************************************************************)
(* At the end of the stream nothing is left that could be delivered: the   *)
(* first message written to its end would make a token.                    *)
(***************************************************************************)
LEMMA ZeroValue ==
  ASSUME NEW s \in Seq(Bytes), \A i \in 1 .. Len(s) : s[i].value = 0
  PROVE  Value(s) = 0
<1>1. PICK f \in [0 .. Len(s) -> Nat] : Counts(f, s) /\ Value(s) = f[Len(s)]
  BY ValueCounts
<1> DEFINE P == {n \in Nat : n <= Len(s) => f[n] = 0}
<1>2. Len(s) \in Nat
  OBVIOUS
<1>3. 0 \in P
  BY <1>1 DEF Counts
<1>4. ASSUME NEW n \in Nat, n \in P
      PROVE  n + 1 \in P
  <2> SUFFICES ASSUME n + 1 <= Len(s) PROVE f[n + 1] = 0
    OBVIOUS
  <2>1. n + 1 \in 1 .. Len(s) /\ (n + 1) - 1 = n
    BY <1>2
  <2>2. f[n] = 0
    BY <1>2, <1>4
  <2>3. f[n + 1] = Shifted(f[n]) + s[n + 1].value
    BY <1>1, <2>1 DEF Counts
  <2>4. Shifted(0) = 0
    BY Scaled
  <2> QED BY <2>1, <2>2, <2>3, <2>4
<1> HIDE DEF P
<1>5. Len(s) \in P
  BY <1>2, <1>3, <1>4, Induct
<1> QED BY <1>1, <1>2, <1>5 DEF P

LEMMA NothingLeft ==
  ASSUME NEW pos, Laid(pos), Len(buf) = pos[Last + 1],
         NEW m \in First + 1 .. Last, messages[m].sent = Total(m),
         \A c \in First + 1 .. m - 1 :
           messages[c].sent = Total(c) \/ messages[c].sent = 0 \/ messages[c].length = 0
  PROVE  SplitJson(buf).kind # "more"
<1>0. Typed /\ buf \in Seq(Bytes) /\ Len(buf) \in Nat /\ First \in Nat /\ Last \in Nat
  BY StreamFacts, TypedSized DEF Laid
<1> DEFINE T == {c \in First + 1 .. m : messages[c].sent = Total(c)}
<1>1. T \subseteq Nat /\ m \in T
  BY <1>0
<1>2. PICK a \in T : \A c \in T : a <= c
  <2> HIDE DEF T
  <2> QED BY <1>1, Least
<1>3. /\ a \in First + 1 .. Last /\ messages[a].sent = Total(a)
      /\ \A c \in First + 1 .. a - 1 :
           c \in First + 1 .. Last /\ messages[c].sent # Total(c)
           /\ (messages[c].sent = 0 \/ messages[c].length = 0)
  <2>1. a \in First + 1 .. m /\ messages[a].sent = Total(a)
    BY <1>2
  <2>2. ASSUME NEW c \in First + 1 .. a - 1
        PROVE  c \in First + 1 .. Last /\ c \in First + 1 .. m - 1 /\ c \notin T
    BY <1>0, <1>2, <2>1
  <2> QED BY <1>0, <2>1, <2>2
<1>4. /\ a \in 1 .. Last /\ a \in Nat /\ pos[a] \in Nat /\ messages[a].sent \in Nat
      /\ pos[a + 1] = pos[a] + messages[a].sent
  BY <1>3, Order
<1>5. /\ messages[a].length \in Nat /\ W(a) \in Nat
      /\ Total(a) = W(a) + 1 + messages[a].length
  BY <1>0, <1>4, MessageFacts
<1>6. pos[a + 1] <= Len(buf)
  <2>1. a + 1 \in Nat /\ Last + 1 \in Nat /\ a + 1 <= Last + 1 /\ First < a + 1
    BY <1>0, <1>3, <1>4
  <2>2. pos[a + 1] <= pos[Last + 1]
    BY <2>1 DEF Laid, Layout, Begins
  <2> QED BY <2>2
<1>7. ASSUME NEW i \in 1 .. pos[a]
      PROVE  buf[i].type = "digit" /\ buf[i].value = 0
  <2>1. i \in 1 .. Len(buf) /\ i \in Nat
    BY <1>0, <1>4, <1>6
  <2>2. PICK c \in First + 1 .. Last :
          i - pos[c] \in 1 .. messages[c].sent /\ buf[i] = B(c)[i - pos[c]]
    BY <2>1, Owner
  <2>3. /\ c \in 1 .. Last /\ c \in Nat /\ pos[c] \in Nat /\ messages[c].sent \in Nat
        /\ a < c => pos[a + 1] <= pos[c]
    BY <1>3, Order
  <2>4. c < a
    <3>1. pos[c] < i /\ i <= pos[a] /\ i \in Nat
      BY <1>4, <2>1, <2>2, <2>3
    <3>2. pos[c] < pos[a]
      BY <1>4, <2>3, <3>1
    <3>3. c # a
      BY <1>4, <3>2
    <3>4. ~ (a < c)
      BY <1>4, <2>3, <3>2
    <3> QED BY <1>4, <2>3, <3>3, <3>4
  <2>5. /\ messages[c].sent # Total(c)
        /\ messages[c].sent = 0 \/ messages[c].length = 0
    <3>1. c \in First + 1 .. a - 1
      BY <1>0, <1>4, <2>4
    <3> QED BY <1>3, <3>1
  <2>6. messages[c].length = 0
    BY <2>2, <2>3, <2>5
  <2>7. W(c) \in Nat /\ Total(c) = W(c) + 1 /\ messages[c].sent <= Total(c)
    <3>1. /\ messages[c].length \in Nat /\ W(c) \in Nat
          /\ Total(c) = W(c) + 1 + messages[c].length /\ messages[c].sent <= Total(c)
      BY <1>0, <2>3, MessageFacts
    <3> QED BY <2>6, <3>1
  <2> DEFINE j == i - pos[c]
  <2>8. j \in 1 .. Total(c) /\ j <= W(c)
    <3>1. j \in 1 .. messages[c].sent
      BY <2>2
    <3> HIDE DEF j
    <3> QED BY <2>3, <2>5, <2>7, <3>1
  <2>9. buf[i] = Digits[0][j] /\ j \in 1 .. Len(Digits[0])
    <3>1. B(c)[j] = Digits[messages[c].length][j]
      BY <1>0, <2>3, <2>8, MessageFacts
    <3>2. j \in 1 .. W(c)
      BY <2>7, <2>8
    <3> QED BY <2>2, <2>6, <3>1, <3>2 DEF W, Width
  <2>10. Digits[0] = <<Digit(0)>>
    <3>1. 0 \in Nat /\ 0 < Radix
      BY Limits
    <3> QED BY <3>1, DigitsDef
  <2> HIDE DEF j
  <2>11. buf[i] = Digit(0)
    BY <2>9, <2>10
  <2> QED BY <2>11 DEF Digit, Byte
<1> DEFINE h == pos[a] + W(a) + 1
           p == SubSeq(buf, 1, pos[a])
           n == messages[a].length
<1>8. h + n = pos[a + 1] /\ h <= Len(buf) /\ messages[a].sent > W(a)
  <2> DEFINE o == pos[a]  k == messages[a].sent  wa == W(a)  e == pos[a + 1]
  <2>1. /\ o \in Nat /\ k \in Nat /\ wa \in Nat /\ n \in Nat /\ k = wa + 1 + n
        /\ e = o + k /\ e <= Len(buf)
    BY <1>3, <1>4, <1>5, <1>6
  <2> HIDE DEF o, k, wa, n, e
  <2>2. (o + wa + 1) + n = e /\ o + wa + 1 <= Len(buf) /\ k > wa
    BY <1>0, <2>1
  <2> QED BY <2>2 DEF o, k, wa, e
<1>9. /\ Headers(buf) = {h}
      /\ p \in Seq(Bytes) /\ Len(p) = pos[a] /\ \A i \in 1 .. pos[a] : p[i] = buf[i]
      /\ Value(p) = 0 => Value(SubSeq(buf, 1, h - 1)) = n
  BY <1>3, <1>7, <1>8, HeaderOf
<1>10. Value(p) = 0
  <2> HIDE DEF p
  <2>1. \A i \in 1 .. Len(p) : p[i].value = 0
    BY <1>7, <1>9
  <2> QED BY <1>9, <2>1, ZeroValue
<1>11. SplitJson(buf).kind = "more" => Len(buf) < h + n
  BY <1>0, <1>9, <1>10, SplitAt
<1>12. pos[a + 1] \in Nat
  BY <1>3, Order
<1> HIDE DEF h, n
<1> QED BY <1>0, <1>6, <1>8, <1>11, <1>12

-----------------------------------------------------------------------------
(***************************************************************************)
(* The invariant is preserved.  First the steps of the writing side.       *)
(***************************************************************************)
Same(m) ==
  messages'[m].length = messages[m].length /\ messages'[m].sent = messages[m].sent

LEMMA SameFacts ==
  ASSUME NEW m, messages'[m].length = messages[m].length
  PROVE  /\ Total(m)' = Total(m) /\ B(m)' = B(m) /\ (Fits(m)' <=> Fits(m))
         /\ Same(m) => (Whole(m)' <=> Whole(m)) /\ (Unfinished(m)' <=> Unfinished(m))
<1>1. Total(m)' = Total(m) /\ B(m)' = B(m)
  BY DEF Total, B
<1> QED BY <1>1 DEF Fits, Same, Whole, Unfinished

\* Of the messages before the last nobody is writing one.
LEMMA DeliverableIs ==
  Typed => Deliverable = {m \in 1 .. Last : Whole(m) /\ \A c \in 1 .. m - 1 : ~ Unfinished(c)}
<1> SUFFICES ASSUME Typed
             PROVE  Deliverable =
                      {m \in 1 .. Last : Whole(m) /\ \A c \in 1 .. m - 1 : ~ Unfinished(c)}
  OBVIOUS
<1>1. DOMAIN messages = 1 .. Last /\ Last \in Nat
  BY TypedSized
<1>2. ASSUME NEW m \in 1 .. Last, NEW c \in 1 .. m - 1
      PROVE  Cut(c) <=> Unfinished(c)
  <2>1. c # Last /\ c # 0
    BY <1>1
  <2>2. \A w \in Writers : writing[w] # c
    BY <2>1 DEF Typed, OnlyLast
  <2> QED BY <2>2 DEF Cut, Unfinished
<1> QED BY <1>1, <1>2 DEF Deliverable

LEMMA GivenKept ==
  ASSUME Typed, Given, delivered' = delivered, Last' \in Nat, Last <= Last',
         \A m \in 1 .. First : Same(m)
  PROVE  Given' /\ First' = First
<1>1. First' = First
  BY DEF First
<1>2. \A m \in 1 .. First : (Whole(m)' <=> Whole(m)) /\ (Unfinished(m)' <=> Unfinished(m))
  BY SameFacts DEF Same
<1>3. First \in Nat /\ Last \in Nat /\ First \in 0 .. Last
  BY TypedSized DEF Given
<1>4. First' \in 0 .. Last'
  BY <1>1, <1>3
<1>5. {m \in 1 .. First : Whole(m)}' = {m \in 1 .. First : Whole(m)}
  BY <1>1, <1>2
<1>6. First # 0 => First \in 1 .. First
  BY <1>3
<1>7. First' # 0 => Whole(First)'
  <2>1. ASSUME NEW m, m = First, First # 0
        PROVE  Whole(m)'
    BY <1>2, <1>6, <2>1 DEF Given
  <2> QED BY <1>1, <2>1 DEF Whole, Total
<1>8. \A m \in 1 .. First' : ~ Unfinished(m)'
  BY <1>1, <1>2 DEF Given
<1>9. Enumerates(delivered, {m \in 1 .. First : Whole(m)})'
  BY <1>5 DEF Given, Enumerates
<1> QED BY <1>1, <1>4, <1>7, <1>8, <1>9 DEF Given

LEMMA LockFacts ==
  ASSUME Typed, NEW w \in Writers, Lock(w)
  PROVE  /\ Last' = Last + 1 /\ Last \in Nat /\ Last + 1 \in 1 .. MaxMessages
         /\ \A m \in 1 .. Last : Same(m)
         /\ messages'[Last + 1].sent = 0 /\ messages'[Last + 1].length \in Lengths
         /\ writing' = [writing EXCEPT ![w] = Last + 1]
         /\ UNCHANGED <<wire, end, readerVars>>
<1>0. Sized /\ Last \in Nat /\ DOMAIN messages = 1 .. Last
  BY TypedSized
<1>1. PICK length \in Lengths : messages' = Append(messages, [length |-> length, sent |-> 0])
  BY DEF Lock
<1>2. /\ Last' = Last + 1
      /\ \A m \in 1 .. Last : messages'[m] = messages[m]
      /\ messages'[Last + 1] = [length |-> length, sent |-> 0]
  BY <1>0, <1>1, Limits DEF Sized, Message, Last
<1>3. Last + 1 \in 1 .. MaxMessages
  BY <1>0, Limits DEF Lock, Last
<1> QED BY <1>0, <1>2, <1>3 DEF Lock, Last, Same

\* A Write, or the one that ends WriteCtx, adds k bytes to the last message.
LEMMA WriteFacts ==
  ASSUME Typed, Given, NEW w \in Writers, WriteSegment(w) \/ WriteEnds(w)
  PROVE  \E k \in Nat :
           /\ Last \in 1 .. Last /\ Last' = Last /\ DOMAIN messages = 1 .. Last
           /\ writing[w] = Last /\ writing' \in {writing, [writing EXCEPT ![w] = 0]}
           /\ end # "open" => k = 0
           /\ First = Last => k = 0
           /\ messages[Last].sent + k <= Total(Last)
           /\ \A m \in 1 .. Last :
                /\ messages'[m].length = messages[m].length
                /\ messages'[m].sent = IF m = Last THEN messages[m].sent + k ELSE messages[m].sent
           /\ wire' \in Seq(Bytes) /\ Len(wire') = Len(wire) + k
           /\ \A i \in 1 .. Len(wire) : wire'[i] = wire[i]
           /\ \A i \in 1 .. k : wire'[Len(wire) + i] = B(Last)[messages[Last].sent + i]
           /\ UNCHANGED <<end, readerVars>>
<1>0. Sized /\ Last \in Nat /\ DOMAIN messages = 1 .. Last /\ wire \in Seq(Bytes)
  BY TypedSized
<1>1. writing[w] # 0
  BY DEF WriteSegment, WriteEnds
<1>2. writing[w] = Last /\ Last \in DOMAIN messages
  BY <1>0, <1>1 DEF Typed, OnlyLast
<1>3. Segment(Last) \in Nat
  BY <1>0, <1>2, RestBytes, Limits DEF Segment
<1>4. PICK k \in 0 .. Segment(Last) : Put(Last, k) /\ (end = "open" \/ k = 0)
  BY <1>2, <1>3 DEF WriteSegment, WriteEnds
<1>5. /\ k \in Nat /\ messages[Last].sent + k <= Total(Last)
      /\ Len(messages') = Len(messages)
      /\ \A n \in DOMAIN messages :
           /\ messages'[n].length = messages[n].length
           /\ messages'[n].sent = IF n = Last THEN messages[n].sent + k ELSE messages[n].sent
      /\ wire' \in Seq(Bytes) /\ Len(wire') = Len(wire) + k
      /\ \A i \in 1 .. Len(wire) : wire'[i] = wire[i]
      /\ \A i \in 1 .. k :
           wire'[Len(wire) + i] = Bin[Last][messages[Last].length][messages[Last].sent + i]
  BY <1>0, <1>2, <1>4, PutFacts
<1>6. First = Last => k = 0
  <2>1. ASSUME First = Last
        PROVE  messages[Last].sent = Total(Last)
    BY <1>0, <1>2, <2>1 DEF Given, Whole
  <2>2. messages[Last].sent \in Nat
    BY <1>0, <1>2, MessageFacts
  <2> QED BY <1>5, <2>1, <2>2
<1>7. writing' \in {writing, [writing EXCEPT ![w] = 0]} /\ UNCHANGED <<end, readerVars>>
  BY DEF WriteSegment, WriteEnds
<1> QED BY <1>0, <1>2, <1>4, <1>5, <1>6, <1>7 DEF B, Last

LEMMA GivenFirst ==
  ASSUME Typed, Given
  PROVE  First \in 0 .. Last /\ First \in Nat /\ Last \in Nat
<1>1. First \in 0 .. Last /\ Last \in Nat
  BY TypedSized DEF Given
<1> HIDE DEF First, Last
<1> QED BY <1>1

LEMMA GivenLock ==
  ASSUME Typed, Given, NEW w \in Writers, Lock(w)
  PROVE  Given' /\ First' = First
<1>1. \A m \in 1 .. First : m \in 1 .. Last
  BY TypedSized DEF Given
<1>2. delivered' = delivered /\ Last' \in Nat /\ Last <= Last' /\ \A m \in 1 .. First : Same(m)
  BY <1>1, LockFacts DEF readerVars
<1> QED BY <1>2, GivenKept

LEMMA GivenWrite ==
  ASSUME Typed, Given, NEW w \in Writers, WriteSegment(w) \/ WriteEnds(w)
  PROVE  Given' /\ First' = First
<1>0. First \in 0 .. Last /\ Last \in Nat
  BY TypedSized DEF Given
<1>1. PICK k \in Nat :
         /\ Last' = Last
         /\ First = Last => k = 0
         /\ \A m \in 1 .. Last :
              /\ messages'[m].length = messages[m].length
              /\ messages'[m].sent = IF m = Last THEN messages[m].sent + k ELSE messages[m].sent
         /\ UNCHANGED <<end, readerVars>>
  BY WriteFacts
<1>2. ASSUME NEW m \in 1 .. First
      PROVE  Same(m)
  <2>1. m \in 1 .. Last /\ (m = Last => First = Last)
    BY <1>0
  <2>2. messages[m].sent \in Nat
    BY <2>1, MessageFacts
  <2> QED BY <1>1, <2>1, <2>2 DEF Same
<1>3. delivered' = delivered
  BY <1>1 DEF readerVars
<1> QED BY <1>0, <1>1, <1>2, <1>3, GivenKept
\* The layout of the stream, as the steps use it.
LEMMA LaidOut ==
  ASSUME Typed, Given, NEW pos, Layout(Stream, pos, First)
  PROVE  /\ Laid(pos) /\ pos \in [Nat -> Nat] /\ (\A n \in Nat : pos[n] \in Nat)
         /\ pos[First + 1] = 0 /\ Len(Stream) \in Nat /\ Len(Stream) <= pos[Last + 1]
         /\ \A m \in First + 1 .. Last :
              /\ m \in 1 .. Last /\ m \in Nat
              /\ pos[m + 1] = pos[m] + messages[m].sent
              /\ \A j \in 1 .. messages[m].sent :
                   pos[m] + j <= Len(Stream) => Stream[pos[m] + j] = B(m)[j]
         /\ \A m, n \in Nat : First < m /\ m <= n => pos[m] <= pos[n]
         /\ \A n \in Nat : n > Last => pos[n] = pos[Last + 1]
<1>1. First \in 0 .. Last /\ Last \in Nat /\ Len(Stream) \in Nat /\ First \in Nat
  BY GivenFirst, StreamFacts
<1>2. Laid(pos) /\ pos \in [Nat -> Nat] /\ \A n \in Nat : pos[n] \in Nat
  BY <1>1 DEF Laid, Layout, Begins
<1>3. \A m \in First + 1 .. Last : m \in 1 .. Last /\ m \in Nat
  BY <1>1
<1> QED BY <1>1, <1>2, <1>3 DEF Layout, Begins, Sums, Holds

\* The stream keeps its layout when it loses bytes at its end.
LEMMA LayoutPrefix ==
  ASSUME Typed, Given, NEW pos, Layout(Stream, pos, First),
         messages' = messages, First' = First,
         Len(Stream') \in Nat, Len(Stream') <= Len(Stream),
         \A i \in 1 .. Len(Stream') : Stream'[i] = Stream[i]
  PROVE  Layout(Stream, pos, First)'
<1>1. Last' = Last
  BY DEF Last
<1>2. ASSUME NEW m PROVE B(m)' = B(m)
  BY DEF B
<1>3. Begins(pos, First)'
  BY DEF Layout, Begins
<1>4. Sums(pos, First)'
  BY <1>1 DEF Layout, Sums
<1>5. Len(Stream') <= pos[Last + 1]
  <2>1. Last + 1 \in Nat
    BY GivenFirst
  <2>2. pos[Last + 1] \in Nat /\ Len(Stream) \in Nat /\ Len(Stream) <= pos[Last + 1]
    BY <2>1, LaidOut
  <2> QED BY <2>2
<1>6. ASSUME NEW m \in First + 1 .. Last, NEW j \in 1 .. messages[m].sent,
             pos[m] + j <= Len(Stream')
      PROVE  Stream'[pos[m] + j] = B(m)[j]
  <2>1. m \in 1 .. Last /\ m \in Nat
    BY LaidOut
  <2>2. pos[m] \in Nat /\ Len(Stream) \in Nat
    BY <2>1, LaidOut
  <2>3. messages[m].sent \in Nat
    BY <2>1, MessageFacts
  <2>4. pos[m] + j \in 1 .. Len(Stream') /\ pos[m] + j <= Len(Stream)
    BY <1>6, <2>2, <2>3
  <2>5. Stream[pos[m] + j] = B(m)[j]
    <3>1. \A i \in 1 .. messages[m].sent :
            pos[m] + i <= Len(Stream) => Stream[pos[m] + i] = B(m)[i]
      BY DEF Layout, Holds
    <3> QED BY <2>4, <3>1
  <2> QED BY <2>4, <2>5
<1>7. Holds(Stream, pos, First)'
  BY <1>1, <1>2, <1>5, <1>6 DEF Holds
<1> QED BY <1>3, <1>4, <1>7 DEF Layout

LEMMA StreamedLock ==
  ASSUME Typed, Given, Streamed, NEW w \in Writers, Lock(w)
  PROVE  Streamed'
<1>1. /\ Last' = Last + 1 /\ Last \in Nat
      /\ \A m \in 1 .. Last : Same(m)
      /\ messages'[Last + 1].sent = 0
      /\ Stream' = Stream /\ end' = end /\ reader' = reader /\ emptied' = emptied
  BY LockFacts DEF Stream, readerVars
<1>2. First' = First /\ First \in 0 .. Last /\ First \in Nat
  BY GivenLock, GivenFirst
<1> SUFFICES ASSUME reader = "reading" PROVE Streamed'
  BY <1>1 DEF Streamed
<1>3. PICK pos : /\ Layout(Stream, pos, First)
                 /\ end # "broken" /\ ~ emptied => Len(Stream) = pos[Last + 1]
  BY DEF Streamed
<1>4. pos[Last + 1] \in Nat /\ pos[Last + 2] = pos[Last + 1] /\ Last + 1 \in Nat
      /\ (Last + 1) + 1 = Last + 2
  <2>1. Last + 1 \in Nat /\ Last + 2 \in Nat /\ Last + 2 > Last
    BY <1>1
  <2>2. Layout(Stream, pos, First)
    BY <1>3
  <2>3. pos[Last + 1] \in Nat
    BY <2>1, <2>2, LaidOut
  <2>4. pos[Last + 2] = pos[Last + 1]
    BY <2>1, <2>2, LaidOut
  <2> QED BY <1>1, <2>1, <2>3, <2>4
<1>5. Begins(pos, First)
  BY <1>3 DEF Layout
<1>6. Sums(pos, First)'
  <2>1. ASSUME NEW m \in First + 1 .. Last + 1
        PROVE  pos[m + 1] = pos[m] + messages'[m].sent
    <3>1. CASE m = Last + 1
      BY <1>1, <1>4, <3>1
    <3>2. CASE m # Last + 1
      <4>1. m \in First + 1 .. Last
        BY <1>1, <1>2, <3>2
      <4>2. m \in 1 .. Last /\ pos[m + 1] = pos[m] + messages[m].sent
        BY <1>3, <4>1, LaidOut
      <4> QED BY <1>1, <4>2 DEF Same
    <3> QED BY <3>1, <3>2
  <2>2. ASSUME NEW n \in Nat, n > Last + 1
        PROVE  pos[n] = pos[Last + 2]
    <3>1. n > Last
      BY <1>1, <2>2
    <3> QED BY <1>3, <1>4, <3>1, LaidOut
  <2> QED BY <1>1, <1>2, <1>4, <2>1, <2>2 DEF Sums
<1>7. Holds(Stream, pos, First)'
  <2>1. Len(Stream) <= pos[Last + 2]
    BY <1>3, <1>4, LaidOut
  <2>2. ASSUME NEW m \in First + 1 .. Last + 1, NEW j \in 1 .. messages'[m].sent,
               pos[m] + j <= Len(Stream)
        PROVE  Stream[pos[m] + j] = B(m)'[j]
    <3>1. m # Last + 1
      BY <1>1
    <3>2. m \in First + 1 .. Last /\ m \in 1 .. Last
      BY <1>1, <1>2, <3>1
    <3>3. messages'[m].sent = messages[m].sent /\ B(m)' = B(m)
      BY <1>1, <3>2, SameFacts DEF Same
    <3>4. Stream[pos[m] + j] = B(m)[j]
      BY <1>3, <2>2, <3>2, <3>3, LaidOut
    <3> QED BY <3>3, <3>4
  <2> QED BY <1>1, <1>2, <1>4, <2>1, <2>2 DEF Holds
<1>8. Layout(Stream, pos, First)'
  BY <1>1, <1>2, <1>5, <1>6, <1>7 DEF Layout, Begins
<1>9. end' # "broken" /\ ~ emptied' => Len(Stream') = pos[Last' + 1]
  BY <1>1, <1>3, <1>4
<1> QED BY <1>8, <1>9 DEF Streamed
\* What the stream becomes when bytes are written.
LEMMA StreamLonger ==
  ASSUME Typed, NEW k \in Nat, buf' = buf, wire' \in Seq(Bytes), Len(wire') = Len(wire) + k,
         \A i \in 1 .. Len(wire) : wire'[i] = wire[i]
  PROVE  /\ Len(Stream) \in Nat /\ Len(Stream') = Len(Stream) + k
         /\ \A i \in 1 .. Len(Stream) : Stream'[i] = Stream[i]
         /\ \A i \in 1 .. k : Stream'[Len(Stream) + i] = wire'[Len(wire) + i]
<1>1. /\ buf \in Seq(Bytes) /\ Len(buf) \in Nat /\ Len(wire) \in Nat
      /\ Len(Stream) = Len(buf) + Len(wire)
      /\ \A i \in 1 .. Len(buf) : Stream[i] = buf[i]
      /\ \A i \in 1 .. Len(wire) : Stream[Len(buf) + i] = wire[i]
  BY StreamFacts
<1>2. buf \in Seq(Bytes) /\ wire' \in Seq(Bytes)
  BY <1>1
<1>3. /\ Len(buf \o wire') = Len(buf) + Len(wire')
      /\ \A i \in 1 .. Len(buf) + Len(wire') : (buf \o wire')[i] =
                     IF i <= Len(buf) THEN buf[i] ELSE wire'[i - Len(buf)]
  BY ONLY <1>2, ConcatProperties
<1>4. Stream' = buf \o wire'
  BY DEF Stream
<1>5. Len(Stream') = Len(Stream) + k /\ Len(Stream) \in Nat
  BY <1>1, <1>3, <1>4
<1>6. ASSUME NEW i \in 1 .. Len(Stream)
      PROVE  Stream'[i] = Stream[i]
  <2>1. i \in 1 .. Len(buf) + Len(wire')
    BY <1>1
  <2>2. CASE i <= Len(buf)
    BY <1>1, <1>3, <1>4, <2>1, <2>2
  <2>3. CASE ~ (i <= Len(buf))
    <3>1. i - Len(buf) \in 1 .. Len(wire) /\ Len(buf) + (i - Len(buf)) = i
      BY <1>1, <2>3
    <3> QED BY <1>1, <1>3, <1>4, <2>1, <2>3, <3>1
  <2> QED BY <2>2, <2>3
<1>7. ASSUME NEW i \in 1 .. k
      PROVE  Stream'[Len(Stream) + i] = wire'[Len(wire) + i]
  <2>1. /\ Len(Stream) + i \in 1 .. Len(buf) + Len(wire') /\ ~ (Len(Stream) + i <= Len(buf))
        /\ (Len(Stream) + i) - Len(buf) = Len(wire) + i
    BY <1>1
  <2> QED BY <1>3, <1>4, <2>1
<1> QED BY <1>5, <1>6, <1>7

LEMMA StreamedWrite ==
  ASSUME Typed, Given, Streamed, AtEnd, NEW w \in Writers, WriteSegment(w) \/ WriteEnds(w)
  PROVE  Streamed'
<1>0. First' = First /\ First \in 0 .. Last /\ First \in Nat /\ Last \in Nat /\ Last + 1 \in Nat
  BY GivenWrite, GivenFirst
<1>1. PICK k \in Nat :
        /\ Last \in 1 .. Last /\ Last' = Last
        /\ end # "open" => k = 0
        /\ First = Last => k = 0
        /\ \A m \in 1 .. Last :
             /\ messages'[m].length = messages[m].length
             /\ messages'[m].sent = IF m = Last THEN messages[m].sent + k ELSE messages[m].sent
        /\ wire' \in Seq(Bytes) /\ Len(wire') = Len(wire) + k
        /\ \A i \in 1 .. Len(wire) : wire'[i] = wire[i]
        /\ \A i \in 1 .. k : wire'[Len(wire) + i] = B(Last)[messages[Last].sent + i]
        /\ UNCHANGED <<end, readerVars>>
  BY WriteFacts
<1>2. buf' = buf /\ reader' = reader /\ emptied' = emptied /\ end' = end
  BY <1>1 DEF readerVars
<1> SUFFICES ASSUME reader = "reading" PROVE Streamed'
  BY <1>2 DEF Streamed
<1>3. PICK pos : /\ Layout(Stream, pos, First)
                 /\ end # "broken" /\ ~ emptied => Len(Stream) = pos[Last + 1]
  BY DEF Streamed
<1>4. Layout(Stream, pos, First)
  BY <1>3
<1>5. /\ \A n \in Nat : pos[n] \in Nat
      /\ pos[First + 1] = 0 /\ Len(Stream) <= pos[Last + 1] /\ Len(Stream) \in Nat
      /\ \A m \in First + 1 .. Last :
              /\ m \in 1 .. Last /\ m \in Nat
              /\ pos[m + 1] = pos[m] + messages[m].sent
  BY <1>4, LaidOut
<1>6. /\ \A m, n \in Nat : First < m /\ m <= n => pos[m] <= pos[n]
      /\ \A n \in Nat : n > Last => pos[n] = pos[Last + 1]
  BY <1>4, LaidOut
<1>7. k # 0 => Len(Stream) = pos[Last + 1] /\ First # Last
  BY <1>1, <1>3 DEF AtEnd
<1>8. /\ Len(Stream') = Len(Stream) + k
      /\ \A i \in 1 .. Len(Stream) : Stream'[i] = Stream[i]
      /\ \A i \in 1 .. k : Stream'[Len(Stream) + i] = wire'[Len(wire) + i]
  BY <1>1, <1>2, StreamLonger
<1>9. PICK npos :
        /\ npos \in [Nat -> Nat]
        /\ \A n \in Nat : npos[n] = IF n > Last THEN pos[n] + k ELSE pos[n]
  <2> DEFINE moved == [n \in Nat |-> IF n > Last THEN pos[n] + k ELSE pos[n]]
  <2>1. moved \in [Nat -> Nat]
    BY <1>0, <1>5
  <2>2. \A n \in Nat : moved[n] = IF n > Last THEN pos[n] + k ELSE pos[n]
    OBVIOUS
  <2> HIDE DEF moved
  <2> QED BY <2>1, <2>2
<1>10. npos[Last + 1] = pos[Last + 1] + k /\ pos[Last + 1] \in Nat
  <2>1. pos[Last + 1] \in Nat
    BY <1>0, <1>5
  <2>2. Last + 1 > Last
    BY <1>0
  <2> QED BY <1>0, <1>9, <2>1, <2>2
<1>11. Begins(npos, First)
  <2>1. npos[First + 1] = 0
    <3>1. First + 1 \in Nat /\ pos[First + 1] = 0
      BY <1>0, <1>5
    <3>2. First + 1 > Last => k = 0
      BY <1>0, <1>7
    <3> QED BY <1>9, <3>1, <3>2
  <2>2. ASSUME NEW m \in Nat, NEW n \in Nat, First < m, m <= n
        PROVE  npos[m] <= npos[n]
    <3>1. pos[m] <= pos[n] /\ pos[m] \in Nat /\ pos[n] \in Nat
      BY <1>5, <1>6, <2>2
    <3>2. m > Last => n > Last
      BY <1>0, <2>2
    <3> QED BY <1>9, <3>1, <3>2
  <2> QED BY <1>9, <2>1, <2>2 DEF Begins
<1>12. Sums(npos, First)'
  <2>1. ASSUME NEW m \in First + 1 .. Last
        PROVE  npos[m + 1] = npos[m] + messages'[m].sent
    <3>1. /\ m \in 1 .. Last /\ m \in Nat /\ m + 1 \in Nat /\ ~ (m > Last)
          /\ (m + 1 > Last <=> m = Last)
      BY <1>0, <1>5
    <3>2. pos[m] \in Nat /\ messages[m].sent \in Nat /\ pos[m + 1] = pos[m] + messages[m].sent
      BY <1>5, <3>1, MessageFacts
    <3>3. npos[m] = pos[m] /\ npos[m + 1] = IF m = Last THEN pos[m + 1] + k ELSE pos[m + 1]
      BY <1>9, <3>1
    <3>4. messages'[m].sent = IF m = Last THEN messages[m].sent + k ELSE messages[m].sent
      BY <1>1, <3>1
    <3> QED BY <3>2, <3>3, <3>4
  <2>2. ASSUME NEW n \in Nat, n > Last
        PROVE  npos[n] = npos[Last + 1]
    BY <1>6, <1>9, <1>10, <2>2
  <2> QED BY <1>0, <1>1, <2>1, <2>2 DEF Sums
<1>13. Holds(Stream, npos, First)'
  <2>1. Len(Stream') <= npos[Last + 1]
    BY <1>5, <1>8, <1>10
  <2>2. ASSUME NEW m \in First + 1 .. Last, NEW j \in 1 .. messages'[m].sent,
               npos[m] + j <= Len(Stream')
        PROVE  Stream'[npos[m] + j] = B(m)'[j]
    <3>1. m \in 1 .. Last /\ m \in Nat /\ ~ (m > Last) /\ m + 1 \in Nat /\ First < m + 1
          /\ m + 1 <= Last + 1
      BY <1>0, <1>5
    <3>2. npos[m] = pos[m] /\ pos[m] \in Nat /\ pos[m + 1] = pos[m] + messages[m].sent
      BY <1>5, <1>9, <3>1
    <3>3. messages[m].sent \in Nat /\ B(m)' = B(m)
      BY <1>1, <3>1, MessageFacts, SameFacts
    <3>4. messages'[m].sent = IF m = Last THEN messages[m].sent + k ELSE messages[m].sent
      BY <1>1, <3>1
    <3>5. k # 0 => pos[m] + messages[m].sent <= Len(Stream)
      <4>1. pos[m + 1] <= pos[Last + 1]
        BY <1>0, <1>6, <3>1
      <4> QED BY <1>7, <3>2, <4>1
    <3>6. CASE j <= messages[m].sent
      <4>1. pos[m] + j <= Len(Stream) /\ j \in 1 .. messages[m].sent
        BY <1>5, <1>8, <2>2, <3>2, <3>3, <3>5, <3>6
      <4>2. pos[m] + j \in 1 .. Len(Stream)
        BY <1>5, <3>2, <4>1
      <4>3. Stream[pos[m] + j] = B(m)[j]
        BY <1>4, <4>1 DEF Layout, Holds
      <4> QED BY <1>8, <3>2, <3>3, <4>2, <4>3
    <3>7. CASE ~ (j <= messages[m].sent)
      <4>1. m = Last /\ k # 0 /\ j - messages[m].sent \in 1 .. k /\ j \in Nat
        BY <3>3, <3>4, <3>7
      <4>2. Len(Stream) = pos[m] + messages[m].sent
        BY <1>7, <3>2, <4>1
      <4> DEFINE i == j - messages[m].sent
      <4>3. i \in 1 .. k /\ Len(Stream) + i = pos[m] + j /\ messages[m].sent + i = j
        BY <3>2, <3>3, <4>1, <4>2, SMTT(30)
      <4> HIDE DEF i
      <4>4. Stream'[Len(Stream) + i] = wire'[Len(wire) + i]
        BY <1>8, <4>3
      <4>5. wire'[Len(wire) + i] = B(m)[messages[m].sent + i]
        BY <1>1, <4>1, <4>3
      <4> QED BY <3>2, <3>3, <4>3, <4>4, <4>5
    <3> QED BY <3>3, <3>6, <3>7
  <2> QED BY <1>0, <1>1, <2>1, <2>2 DEF Holds
<1>14. Layout(Stream, npos, First)'
  BY <1>0, <1>11, <1>12, <1>13 DEF Layout, Begins
<1>15. end' # "broken" /\ ~ emptied' => Len(Stream') = npos[Last' + 1]
  BY <1>1, <1>2, <1>3, <1>8, <1>10
<1> QED BY <1>14, <1>15 DEF Streamed

-----------------------------------------------------------------------------
(***************************************************************************)
(* The steps that take bytes from the stream.                              *)
(***************************************************************************)
LEMMA StreamedPrefix ==
  ASSUME Typed, Given, Streamed, messages' = messages, delivered' = delivered,
         reader' = reader, Len(Stream') \in Nat, Len(Stream') <= Len(Stream),
         \A i \in 1 .. Len(Stream') : Stream'[i] = Stream[i],
         end' # "broken" /\ ~ emptied' =>
           end # "broken" /\ ~ emptied /\ Len(Stream') = Len(Stream)
  PROVE  Streamed'
<1>1. First' = First /\ Last' = Last
  BY DEF First, Last
<1> SUFFICES ASSUME reader = "reading" PROVE Streamed'
  BY DEF Streamed
<1>2. PICK pos : /\ Layout(Stream, pos, First)
                 /\ end # "broken" /\ ~ emptied => Len(Stream) = pos[Last + 1]
  BY DEF Streamed
<1>3. Layout(Stream, pos, First)'
  BY <1>1, <1>2, LayoutPrefix
<1>4. end' # "broken" /\ ~ emptied' => Len(Stream') = pos[Last' + 1]
  BY <1>1, <1>2
<1> QED BY <1>3, <1>4 DEF Streamed

LEMMA StreamedClose ==
  ASSUME Typed, Given, Streamed, Close
  PROVE  Streamed'
<1>1. /\ messages' = messages /\ delivered' = delivered /\ reader' = reader /\ buf' = buf
      /\ emptied' = emptied /\ end = "open"
      /\ (end' = "eof" /\ wire' = wire) \/ (end' = "broken" /\ wire' = <<>>)
  BY DEF Close, writerVars, readerVars
<1>2. /\ buf \in Seq(Bytes) /\ Len(Stream) = Len(buf) + Len(wire) /\ Len(buf) \in Nat
      /\ Len(wire) \in Nat /\ \A i \in 1 .. Len(buf) : Stream[i] = buf[i]
  BY StreamFacts
<1>3. CASE end' = "eof" /\ wire' = wire
  <2>1. Stream' = Stream /\ Len(Stream) \in Nat
    BY <1>1, <1>2, <1>3 DEF Stream
  <2> QED BY <1>1, <2>1, StreamedPrefix
<1>4. CASE end' = "broken" /\ wire' = <<>>
  <2>1. Stream' = buf
    BY <1>1, <1>2, <1>4, ConcatEmptySeq DEF Stream
  <2>2. Len(Stream') \in Nat /\ Len(Stream') <= Len(Stream)
    BY <1>2, <2>1
  <2> QED BY <1>1, <1>2, <1>4, <2>1, <2>2, StreamedPrefix
<1> QED BY <1>1, <1>3, <1>4

\* What is left of the stream when the reader has used up k bytes of its buffer.
LEMMA StreamShorter ==
  ASSUME Typed, NEW k \in 0 .. Len(buf), buf' = SubSeq(buf, k + 1, Len(buf)), wire' = wire
  PROVE  /\ Len(Stream) \in Nat /\ k \in Nat /\ Len(Stream') = Len(Stream) - k
         /\ \A i \in 1 .. Len(Stream) - k : Stream'[i] = Stream[k + i]
<1>1. /\ buf \in Seq(Bytes) /\ wire \in Seq(Bytes) /\ Len(buf) \in Nat /\ Len(wire) \in Nat
      /\ Len(Stream) = Len(buf) + Len(wire)
      /\ \A i \in 1 .. Len(buf) : Stream[i] = buf[i]
      /\ \A i \in 1 .. Len(wire) : Stream[Len(buf) + i] = wire[i]
  BY StreamFacts
<1> DEFINE t == SubSeq(buf, k + 1, Len(buf))
<1>2. t \in Seq(Bytes) /\ Len(t) = Len(buf) - k /\ \A i \in 1 .. Len(buf) - k : t[i] = buf[k + i]
  BY <1>1, Cuts
<1>3. Stream' = t \o wire
  BY DEF Stream
<1> HIDE DEF t
<1>4. t \in Seq(Bytes) /\ wire \in Seq(Bytes)
  BY <1>1, <1>2
<1>5. /\ Len(t \o wire) = Len(t) + Len(wire)
      /\ \A i \in 1 .. Len(t) + Len(wire) : (t \o wire)[i] =
                     IF i <= Len(t) THEN t[i] ELSE wire[i - Len(t)]
  BY ONLY <1>4, ConcatProperties
<1>6. k \in Nat /\ k <= Len(buf) /\ Len(Stream) \in Nat
  BY <1>1
<1>7. Len(Stream') = Len(Stream) - k /\ Len(t) + Len(wire) = Len(Stream) - k
  BY <1>1, <1>2, <1>3, <1>5, <1>6
<1>8. ASSUME NEW i \in 1 .. Len(Stream) - k
      PROVE  Stream'[i] = Stream[k + i]
  <2>1. i \in 1 .. Len(t) + Len(wire)
    BY <1>7
  <2>2. CASE i <= Len(t)
    <3>1. i \in 1 .. Len(buf) - k /\ k + i \in 1 .. Len(buf)
      BY <1>1, <1>2, <1>6, <2>2
    <3> QED BY <1>1, <1>2, <1>3, <1>5, <2>1, <2>2, <3>1
  <2>3. CASE ~ (i <= Len(t))
    <3>1. i - Len(t) \in 1 .. Len(wire) /\ Len(buf) + (i - Len(t)) = k + i
      BY <1>1, <1>2, <1>6, <1>7, <2>3
    <3>2. Stream[k + i] = wire[i - Len(t)]
      BY <1>1, <3>1
    <3> QED BY <1>3, <1>5, <2>1, <2>3, <3>2
  <2> QED BY <2>2, <2>3
<1> QED BY <1>6, <1>7, <1>8

\* A token that was accepted.
LEMMA TokenTaken ==
  ASSUME Typed, Given, NEW pos, Layout(Stream, pos, First), ReadToken, reader' = "reading"
  PROVE  \E m \in First + 1 .. Last :
           /\ m \in 1 .. Last /\ Whole(m)
           /\ delivered' = Append(delivered, m) /\ First' = m
           /\ pos[m + 1] \in 0 .. Len(buf) /\ buf' = SubSeq(buf, pos[m + 1] + 1, Len(buf))
           /\ \A c \in First + 1 .. m - 1 : messages[c].sent = 0 \/ messages[c].length = 0
           /\ UNCHANGED <<messages, wire, end, emptied>>
<1> DEFINE split == SplitJson(buf)
           valid == {m \in DOMAIN messages : IsMessage(split.token, m)}
<1>1. /\ Scans("token") /\ buf' = SubSeq(buf, split.advance + 1, Len(buf))
      /\ UNCHANGED <<messages, wire, end, emptied>>
      /\ IF valid = {} THEN reader' = "stopped"
                       ELSE \E m \in valid : delivered' = Append(delivered, m)
  BY DEF ReadToken, writerVars
<1>2. PICK m \in valid : delivered' = Append(delivered, m)
  BY <1>1
<1>3. Laid(pos) /\ m \in DOMAIN messages /\ IsMessage(split.token, m)
  BY LaidOut
<1>4. /\ m \in First + 1 .. Last /\ Whole(m)
      /\ split.advance = pos[m + 1] /\ pos[m + 1] \in 0 .. Len(buf)
      /\ \A c \in First + 1 .. m - 1 : messages[c].sent = 0 \/ messages[c].length = 0
  BY <1>1, <1>3, Accepted
<1>5. m \in 1 .. Last
  BY <1>4, GivenFirst
<1>6. First' = m
  <2>1. delivered \in Seq(DOMAIN messages)
    BY DEF Typed, TypeOK
  <2>2. /\ delivered' # <<>> /\ Len(delivered') = Len(delivered) + 1
        /\ delivered'[Len(delivered) + 1] = m
    BY <1>2, <1>3, <2>1, AppendProperties
  <2> QED BY <2>2 DEF First
<1> QED BY <1>1, <1>2, <1>4, <1>5, <1>6

LEMMA StreamedToken ==
  ASSUME Typed, Given, Streamed, ReadToken
  PROVE  Streamed'
<1> SUFFICES ASSUME reader' = "reading" PROVE Streamed'
  BY DEF Streamed
<1>1. reader = "reading"
  BY DEF ReadToken, Scans
<1>2. PICK pos : /\ Layout(Stream, pos, First)
                 /\ end # "broken" /\ ~ emptied => Len(Stream) = pos[Last + 1]
  BY <1>1 DEF Streamed
<1>3. Layout(Stream, pos, First)
  BY <1>2
<1>4. PICK m : /\ m \in First + 1 .. Last /\ First' = m
               /\ pos[m + 1] \in 0 .. Len(buf) /\ buf' = SubSeq(buf, pos[m + 1] + 1, Len(buf))
               /\ UNCHANGED <<messages, wire, end, emptied>>
  BY <1>3, TokenTaken
<1>5. /\ First \in Nat /\ Last \in Nat /\ Last + 1 \in Nat /\ Last' = Last
      /\ m \in Nat /\ m + 1 \in Nat /\ First < m + 1
  BY <1>4, GivenFirst DEF Last
<1>6. /\ \A n \in Nat : pos[n] \in Nat
      /\ Len(Stream) <= pos[Last + 1] /\ Len(Stream) \in Nat
      /\ \A c \in First + 1 .. Last :
              /\ c \in 1 .. Last /\ c \in Nat
              /\ pos[c + 1] = pos[c] + messages[c].sent
  BY <1>3, LaidOut
<1>7. /\ \A n, c \in Nat : First < n /\ n <= c => pos[n] <= pos[c]
      /\ \A n \in Nat : n > Last => pos[n] = pos[Last + 1]
  BY <1>3, LaidOut
<1>8. PICK a \in Nat : a = pos[m + 1]
  BY <1>5, <1>6
<1>9. \A n \in Nat : n > m => a <= pos[n]
  <2>1. ASSUME NEW n \in Nat, n > m PROVE m + 1 <= n
    BY <1>5, <2>1
  <2> QED BY <1>5, <1>7, <1>8, <2>1
<1>10. /\ Len(Stream') = Len(Stream) - a
       /\ \A i \in 1 .. Len(Stream) - a : Stream'[i] = Stream[a + i]
  <2>1. a \in 0 .. Len(buf) /\ buf' = SubSeq(buf, a + 1, Len(buf)) /\ wire' = wire
    BY <1>4, <1>8
  <2> QED BY <2>1, StreamShorter
<1>11. PICK npos :
         /\ npos \in [Nat -> Nat]
         /\ \A n \in Nat : npos[n] = IF n > m THEN pos[n] - a ELSE 0
  <2> DEFINE moved == [n \in Nat |-> IF n > m THEN pos[n] - a ELSE 0]
  <2>1. moved \in [Nat -> Nat]
    <3>1. \A n \in Nat : n > m => pos[n] - a \in Nat
      BY <1>6, <1>9
    <3> QED BY <3>1
  <2>2. \A n \in Nat : moved[n] = IF n > m THEN pos[n] - a ELSE 0
    OBVIOUS
  <2> HIDE DEF moved
  <2> QED BY <2>1, <2>2
<1>12. \A n \in Nat : n > m => npos[n] = pos[n] - a /\ pos[n] \in Nat
  BY <1>6, <1>11
<1>13. npos[Last + 1] = pos[Last + 1] - a /\ pos[Last + 1] \in Nat
  <2>1. Last + 1 > m
    BY <1>4, <1>5
  <2> QED BY <1>5, <1>12, <2>1
<1>14. Begins(npos, m)
  <2>1. npos[m + 1] = 0
    <3>1. m + 1 > m
      BY <1>5
    <3> QED BY <1>5, <1>8, <1>12, <3>1
  <2>2. ASSUME NEW n \in Nat, NEW c \in Nat, m < n, n <= c
        PROVE  npos[n] <= npos[c]
    <3>1. First < n /\ n > m /\ c > m
      BY <1>4, <1>5, <2>2
    <3>2. pos[n] <= pos[c]
      BY <1>7, <2>2, <3>1
    <3> QED BY <1>12, <3>1, <3>2
  <2> QED BY <1>11, <2>1, <2>2 DEF Begins
<1>15. Sums(npos, m)
  <2>1. ASSUME NEW c \in m + 1 .. Last
        PROVE  npos[c + 1] = npos[c] + messages[c].sent
    <3>1. c \in First + 1 .. Last /\ c \in Nat /\ c + 1 \in Nat /\ c > m /\ c + 1 > m
      BY <1>4, <1>5
    <3>2. c \in 1 .. Last /\ pos[c + 1] = pos[c] + messages[c].sent
      BY <1>6, <3>1
    <3>3. messages[c].sent \in Nat
      BY <3>2, MessageFacts
    <3>4. npos[c] = pos[c] - a /\ npos[c + 1] = pos[c + 1] - a /\ pos[c] \in Nat
      BY <1>12, <3>1
    <3> QED BY <3>2, <3>3, <3>4
  <2>2. ASSUME NEW n \in Nat, n > Last
        PROVE  npos[n] = npos[Last + 1]
    <3>1. n > m
      BY <1>4, <1>5, <2>2
    <3> QED BY <1>7, <1>12, <1>13, <2>2, <3>1
  <2> QED BY <2>1, <2>2 DEF Sums
<1>16. ASSUME NEW c \in m + 1 .. Last, NEW j \in 1 .. messages[c].sent,
              npos[c] + j <= Len(Stream')
       PROVE  Stream'[npos[c] + j] = B(c)[j]
  <2>1. c \in First + 1 .. Last /\ c \in Nat /\ c > m /\ c \in 1 .. Last
    BY <1>4, <1>5
  <2>2. messages[c].sent \in Nat
    BY <2>1, MessageFacts
  <2>3. npos[c] = pos[c] - a /\ pos[c] \in Nat /\ a <= pos[c]
    BY <1>9, <1>12, <2>1
  <2> DEFINE i == (pos[c] - a) + j
  <2>4. i \in 1 .. Len(Stream) - a /\ a + i = pos[c] + j /\ pos[c] + j <= Len(Stream)
    BY <1>6, <1>10, <1>16, <2>2, <2>3
  <2> HIDE DEF i
  <2>5. Stream'[i] = Stream[pos[c] + j]
    BY <1>10, <2>4
  <2>6. Stream[pos[c] + j] = B(c)[j]
    BY <1>3, <2>1, <2>4 DEF Layout, Holds
  <2> QED BY <2>3, <2>5, <2>6 DEF i
<1>17. Len(Stream') <= npos[Last + 1]
  BY <1>6, <1>10, <1>13
<1>18. Layout(Stream, npos, First)'
  <2>1. Sums(npos, First)'
    BY <1>4, <1>5, <1>15 DEF Sums
  <2>2. Begins(npos, First)'
    BY <1>4, <1>14 DEF Begins
  <2>3. Holds(Stream, npos, First)'
    BY <1>4, <1>5, <1>16, <1>17 DEF Holds, B
  <2> QED BY <2>1, <2>2, <2>3 DEF Layout
<1>19. end' # "broken" /\ ~ emptied' => Len(Stream') = npos[Last' + 1]
  BY <1>2, <1>4, <1>5, <1>10, <1>13
<1> QED BY <1>18, <1>19 DEF Streamed

LEMMA StreamedRead ==
  ASSUME Typed, Given, Streamed, Read
  PROVE  Streamed'
<1>1. CASE Fill
  <2>1. Stream' = Stream /\ Len(Stream) \in Nat
    BY <1>1, StreamFacts, FillFacts DEF Stream
  <2>2. UNCHANGED <<messages, delivered, reader, end, emptied>>
    BY <1>1 DEF Fill, writerVars
  <2> QED BY <2>1, <2>2, StreamedPrefix
<1>2. CASE ReadToken
  BY <1>2, StreamedToken
<1>3. CASE ReadFails
  BY <1>3 DEF ReadFails, Streamed
<1>4. CASE ReadAtEnd
  <2>1. /\ UNCHANGED <<messages, delivered, reader>> /\ emptied' = TRUE
        /\ buf' = <<>> /\ wire' = <<>>
    BY <1>4 DEF ReadAtEnd, writerVars
  <2>2. Stream' = <<>> /\ Len(Stream') = 0 /\ Len(Stream) \in Nat
    BY <2>1, StreamFacts, ConcatEmptySeq DEF Stream
  <2> QED BY <2>1, <2>2, StreamedPrefix
<1> QED BY <1>1, <1>2, <1>3, <1>4 DEF Read

-----------------------------------------------------------------------------
(***************************************************************************)
(* What was delivered.                                                     *)
(***************************************************************************)
\* A number greater than those enumerated so far can be added at the end.
LEMMA EnumeratesMore ==
  ASSUME NEW s \in Seq(Nat), NEW set, NEW n \in Nat,
         Enumerates(s, set), \A m \in set : m < n
  PROVE  Enumerates(Append(s, n), set \cup {n})
<1> DEFINE t == Append(s, n)
<1>1. /\ DOMAIN t = DOMAIN s \cup {Len(s) + 1} /\ t[Len(s) + 1] = n
      /\ \A i \in DOMAIN s : t[i] = s[i] /\ i < Len(s) + 1
  OBVIOUS
<1>2. \A i \in DOMAIN s : s[i] \in set
  BY DEF Enumerates
<1> HIDE DEF t
<1>3. {t[i] : i \in DOMAIN t} = set \cup {n}
  BY <1>1 DEF Enumerates
<1>4. ASSUME NEW i \in DOMAIN t, NEW j \in DOMAIN t, i < j PROVE t[i] < t[j]
  <2>1. i \in DOMAIN s
    BY <1>1, <1>4
  <2> QED BY <1>1, <1>2, <1>4, <2>1 DEF Enumerates
<1>5. Enumerates(t, set \cup {n})
  BY <1>3, <1>4 DEF Enumerates
<1> QED BY <1>5 DEF t

\* A message is whole, unfinished, empty or not begun.
LEMMA Kinds ==
  ASSUME Typed, NEW m \in 1 .. Last
  PROVE  /\ Whole(m) => messages[m].sent # 0 /\ messages[m].length # 0 /\ ~ Unfinished(m)
         /\ ~ Unfinished(m) =>
              messages[m].sent = Total(m) \/ messages[m].sent = 0 \/ messages[m].length = 0
         /\ messages[m].sent = 0 \/ messages[m].length = 0 => ~ Unfinished(m) /\ ~ Whole(m)
<1>1. /\ messages[m].length \in Nat /\ messages[m].sent \in Nat
      /\ messages[m].sent <= Total(m)
      /\ W(m) \in Nat /\ Total(m) = W(m) + 1 + messages[m].length
  BY MessageFacts
<1>2. Total(m) \in Nat /\ Total(m) # 0
  BY <1>1
<1> QED BY <1>1, <1>2 DEF Whole, Unfinished

LEMMA GivenToken ==
  ASSUME Typed, Given, Streamed, ReadToken, reader' = "reading"
  PROVE  Given'
<1>1. reader = "reading"
  BY DEF ReadToken, Scans
<1>2. PICK pos : Layout(Stream, pos, First)
  BY <1>1 DEF Streamed
<1>3. PICK m : /\ m \in First + 1 .. Last /\ m \in 1 .. Last /\ Whole(m)
               /\ delivered' = Append(delivered, m) /\ First' = m
               /\ \A c \in First + 1 .. m - 1 :
                    messages[c].sent = 0 \/ messages[c].length = 0
               /\ messages' = messages
  BY <1>2, TokenTaken
<1>4. First \in Nat /\ Last \in Nat /\ First <= Last /\ m \in Nat /\ First < m /\ m <= Last
      /\ Last' = Last
  BY <1>3, GivenFirst DEF Last
<1>5. ASSUME NEW c
      PROVE  (Whole(c)' <=> Whole(c)) /\ (Unfinished(c)' <=> Unfinished(c))
  BY <1>3 DEF Whole, Unfinished, Total
<1>6. ASSUME NEW c \in 1 .. m
      PROVE  /\ ~ Unfinished(c)
             /\ Whole(c) <=> (c \in 1 .. First /\ Whole(c)) \/ c = m
  <2>1. c \in 1 .. Last /\ (c \in 1 .. First \/ c \in First + 1 .. m - 1 \/ c = m)
    BY <1>4
  <2>2. CASE c \in 1 .. First
    <3>1. c # m
      BY <1>4, <2>2
    <3> QED BY <2>2, <3>1 DEF Given
  <2>3. CASE c \in First + 1 .. m - 1
    <3>1. c # m /\ c \notin 1 .. First
      BY <1>4, <2>3
    <3>2. ~ Unfinished(c) /\ ~ Whole(c)
      BY <1>3, <2>1, <2>3, Kinds
    <3> QED BY <3>1, <3>2
  <2>4. CASE c = m
    BY <1>3, <2>1, <2>4, Kinds
  <2> QED BY <2>1, <2>2, <2>3, <2>4
<1>7. {c \in 1 .. m : Whole(c)} = {c \in 1 .. First : Whole(c)} \cup {m}
  <2>1. 1 .. First \subseteq 1 .. m /\ m \in 1 .. m
    BY <1>4
  <2> QED BY <1>3, <1>6, <2>1
<1>8. Enumerates(delivered', {c \in 1 .. m : Whole(c)})
  <2> DEFINE set == {c \in 1 .. First : Whole(c)}
  <2>1. \A c \in set : c < m
    BY <1>4
  <2>2. delivered \in Seq(Nat)
    <3>1. delivered \in Seq(DOMAIN messages) /\ DOMAIN messages = 1 .. Last
      BY TypedSized DEF Typed, TypeOK
    <3>2. 1 .. Last \subseteq Nat
      BY <1>4
    <3>3. \A i \in 1 .. Len(delivered) : delivered[i] \in Nat
      BY <3>1, <3>2
    <3> QED BY <3>1, <3>3
  <2>3. Enumerates(delivered, set)
    BY DEF Given
  <2> HIDE DEF set
  <2>4. Enumerates(Append(delivered, m), set \cup {m})
    BY <1>4, <2>1, <2>2, <2>3, EnumeratesMore
  <2> QED BY <1>3, <1>7, <2>4 DEF set
<1>9. {c \in 1 .. First : Whole(c)}' = {c \in 1 .. m : Whole(c)}
  BY <1>3, <1>5
<1>10. First' \in 0 .. Last' /\ Whole(First)'
  <2>1. Whole(m)'
    BY <1>3, <1>5
  <2>2. First' \in 0 .. Last'
    BY <1>3, <1>4
  <2> QED BY <1>3, <2>1, <2>2 DEF Whole, Total
<1>11. \A c \in 1 .. First' : ~ Unfinished(c)'
  BY <1>3, <1>5, <1>6
<1>12. Enumerates(delivered, {c \in 1 .. First : Whole(c)})'
  BY <1>8, <1>9 DEF Enumerates
<1> QED BY <1>10, <1>11, <1>12 DEF Given

\* Nothing is delivered by a step other than the use of a token.
LEMMA GivenSame ==
  ASSUME Typed, Given, messages' = messages, delivered' = delivered
  PROVE  Given'
<1>1. Last' = Last /\ Last' \in Nat /\ Last <= Last' /\ \A m \in 1 .. First : Same(m)
  BY GivenFirst DEF Last, Same
<1> QED BY <1>1, GivenKept

LEMMA GivenRead ==
  ASSUME Typed, Given, Streamed, Read
  PROVE  Given'
<1>1. CASE ReadToken
  <2>1. CASE reader' = "reading"
    BY <1>1, <2>1, GivenToken
  <2>2. CASE reader' # "reading"
    <3>1. messages' = messages /\ delivered' = delivered
      BY <1>1, <2>2 DEF ReadToken, Scans, writerVars
    <3> QED BY <3>1, GivenSame
  <2> QED BY <2>1, <2>2
<1>2. CASE Fill \/ ReadFails \/ ReadAtEnd
  <2>1. messages' = messages /\ delivered' = delivered
    BY <1>2 DEF Fill, ReadFails, ReadAtEnd, writerVars
  <2> QED BY <2>1, GivenSame
<1> QED BY <1>1, <1>2 DEF Read

-----------------------------------------------------------------------------
(***************************************************************************)
(* The end of the stream: when SplitJson asks for more of a stream that    *)
(* has ended, everything that came whole was delivered.                    *)
(***************************************************************************)
LEMMA AllDelivered ==
  ASSUME Typed, Given, NEW pos, Laid(pos), Len(buf) = pos[Last + 1],
         SplitJson(buf).kind = "more"
  PROVE  Deliverable = {m \in 1 .. First : Whole(m)}
<1>0. First \in Nat /\ Last \in Nat /\ First <= Last
  BY GivenFirst
<1>1. ASSUME NEW m \in 1 .. Last, Whole(m), \A c \in 1 .. m - 1 : ~ Unfinished(c)
      PROVE  m <= First
  <2> SUFFICES ASSUME ~ (m <= First) PROVE FALSE
    OBVIOUS
  <2>1. m \in First + 1 .. Last /\ messages[m].sent = Total(m)
    BY <1>0, <1>1 DEF Whole
  <2>2. \A c \in First + 1 .. m - 1 :
          messages[c].sent = Total(c) \/ messages[c].sent = 0 \/ messages[c].length = 0
    <3>1. \A c \in First + 1 .. m - 1 : c \in 1 .. m - 1 /\ c \in 1 .. Last
      BY <1>0
    <3> QED BY <1>1, <3>1, Kinds
  <2> QED BY <2>1, <2>2, NothingLeft
<1>2. ASSUME NEW m \in 1 .. First
      PROVE  m \in 1 .. Last /\ \A c \in 1 .. m - 1 : ~ Unfinished(c)
  <2>1. \A c \in 1 .. m - 1 : c \in 1 .. First
    BY <1>0
  <2> QED BY <1>0, <2>1 DEF Given
<1>3. \A m \in 1 .. Last : m <= First <=> m \in 1 .. First
  BY <1>0
<1> QED BY <1>1, <1>2, <1>3, DeliverableIs

LEMMA AtEndRead ==
  ASSUME Typed, Given, Streamed, AtEnd, Read
  PROVE  AtEnd'
<1>1. ASSUME Deliverable' = Deliverable, delivered' = delivered,
             Enumerates(delivered, Deliverable)
      PROVE  Enumerates(delivered, Deliverable)'
  BY <1>1 DEF Enumerates
<1>2. ASSUME messages' = messages, writing' = writing
      PROVE  Deliverable' = Deliverable
  BY <1>2 DEF Deliverable, Whole, Cut, Total
<1>3. CASE emptied
  <2>1. /\ end = "eof" /\ buf = <<>> /\ wire = <<>> /\ reader = "reading"
        /\ Enumerates(delivered, Deliverable)
    BY <1>3 DEF AtEnd
  <2>2. Len(buf) = 0 /\ Len(wire) = 0 /\ Headers(buf) = {}
    BY <2>1 DEF Headers
  <2>3. SplitJson(buf).kind # "error" /\ SplitJson(buf).kind # "token"
    BY <2>2, SplitNone, Limits
  <2>4. ReadAtEnd
    BY <2>1, <2>2, <2>3, Limits DEF Read, Fill, ReadToken, ReadFails, Scans
  <2>5. /\ messages' = messages /\ writing' = writing /\ delivered' = delivered
        /\ end' = end /\ buf' = <<>> /\ wire' = wire /\ reader' = reader
    BY <2>4 DEF ReadAtEnd, writerVars
  <2> QED BY <1>1, <1>2, <2>1, <2>5 DEF AtEnd
<1>4. CASE ~ emptied
  <2> SUFFICES ASSUME emptied' PROVE AtEnd'
    BY DEF AtEnd
  <2>1. ReadAtEnd
    <3>1. emptied' # emptied
      BY <1>4
    <3> QED BY <3>1 DEF Read, Fill, ReadToken, ReadFails
  <2>2. /\ messages' = messages /\ writing' = writing /\ delivered' = delivered
        /\ end = "eof" /\ end' = end /\ buf' = <<>> /\ wire = <<>> /\ wire' = wire
        /\ reader = "reading" /\ reader' = reader /\ SplitJson(buf).kind = "more"
    BY <2>1 DEF ReadAtEnd, writerVars, Scans
  <2>3. PICK pos : Layout(Stream, pos, First) /\ Len(Stream) = pos[Last + 1]
    BY <1>4, <2>2 DEF Streamed
  <2>4. Laid(pos)
    BY <2>3, GivenFirst DEF Laid
  <2>5. Len(buf) = pos[Last + 1]
    BY <2>2, <2>3, StreamFacts
  <2>6. Enumerates(delivered, Deliverable)
    BY <2>2, <2>4, <2>5, AllDelivered DEF Given
  <2> QED BY <1>1, <1>2, <2>2, <2>6 DEF AtEnd
<1> QED BY <1>3, <1>4

LEMMA NotBegun == Typed => {m \in 1 .. Last : messages[m].sent = 0 /\ Whole(m)} = {}
BY Kinds

LEMMA DeliverableKept ==
  ASSUME Typed, Typed', Last \in Nat, Last' \in Nat, Last <= Last',
         \A m \in 1 .. Last : Same(m),
         \A m \in Last + 1 .. Last' : messages'[m].sent = 0
  PROVE  Deliverable' = Deliverable
<1>1. Deliverable = {m \in 1 .. Last : Whole(m) /\ \A c \in 1 .. m - 1 : ~ Unfinished(c)}
  BY DeliverableIs
<1>2. Deliverable'
        = {m \in 1 .. Last' : Whole(m)' /\ \A c \in 1 .. m - 1 : ~ Unfinished(c)'}
  <2>1. (Typed => Deliverable =
           {m \in 1 .. Last : Whole(m) /\ \A c \in 1 .. m - 1 : ~ Unfinished(c)})'
    BY DeliverableIs, PTL
  <2> QED BY <2>1
<1>3. ASSUME NEW m \in 1 .. Last
      PROVE  /\ m \in 1 .. Last' /\ (Whole(m)' <=> Whole(m))
             /\ \A c \in 1 .. m - 1 : Unfinished(c)' <=> Unfinished(c)
  <2>1. m \in 1 .. Last' /\ \A c \in 1 .. m - 1 : c \in 1 .. Last
    OBVIOUS
  <2> QED BY <2>1, SameFacts DEF Same
<1>4. (Typed => {m \in 1 .. Last : messages[m].sent = 0 /\ Whole(m)} = {})'
  BY NotBegun, PTL
<1>5. ASSUME NEW m \in Last + 1 .. Last'
      PROVE  ~ Whole(m)'
  <2>1. m \in 1 .. Last'
    OBVIOUS
  <2> QED BY <1>4, <2>1
<1>6. \A m \in 1 .. Last' : m \in 1 .. Last \/ m \in Last + 1 .. Last'
  OBVIOUS
<1> QED BY <1>1, <1>2, <1>3, <1>5, <1>6

LEMMA AtEndWriter ==
  ASSUME Typed, Typed', Given, AtEnd, NEW w \in Writers,
         Lock(w) \/ WriteSegment(w) \/ WriteEnds(w)
  PROVE  AtEnd'
<1>0. Last \in Nat
  BY GivenFirst
<1>1. CASE Lock(w)
  <2>1. /\ Last' = Last + 1 /\ \A m \in 1 .. Last : Same(m)
        /\ messages'[Last + 1].sent = 0 /\ UNCHANGED <<wire, end, readerVars>>
    BY <1>1, LockFacts
  <2>2. Last' \in Nat /\ Last <= Last' /\ \A m \in Last + 1 .. Last' : messages'[m].sent = 0
    BY <1>0, <2>1
  <2>3. Deliverable' = Deliverable
    BY <1>0, <2>1, <2>2, DeliverableKept
  <2> QED BY <2>1, <2>3 DEF AtEnd, readerVars, Enumerates
<1>2. CASE WriteSegment(w) \/ WriteEnds(w)
  <2>1. PICK k \in Nat :
          /\ Last' = Last /\ DOMAIN messages = 1 .. Last
          /\ end # "open" => k = 0
          /\ \A m \in 1 .. Last :
               /\ messages'[m].length = messages[m].length
               /\ messages'[m].sent = IF m = Last THEN messages[m].sent + k ELSE messages[m].sent
          /\ Len(wire') = Len(wire) + k
          /\ \A i \in 1 .. Len(wire) : wire'[i] = wire[i]
          /\ wire' \in Seq(Bytes)
          /\ UNCHANGED <<end, readerVars>>
    BY <1>2, WriteFacts
  <2> SUFFICES ASSUME emptied PROVE AtEnd'
    BY <2>1 DEF AtEnd, readerVars
  <2>2. end = "eof" /\ wire = <<>> /\ k = 0
    BY <2>1 DEF AtEnd
  <2>3. wire' = <<>>
    <3>1. Len(wire') = 0
      BY <2>1, <2>2
    <3> QED BY <2>1, <3>1, EmptySeq
  <2>4. ASSUME NEW m \in 1 .. Last
        PROVE  Same(m)
    <3>1. messages[m].sent \in Nat
      BY MessageFacts
    <3> QED BY <2>1, <2>2, <3>1 DEF Same
  <2>5. Deliverable' = Deliverable
    <3>1. Last' \in Nat /\ Last <= Last' /\ \A m \in Last + 1 .. Last' : messages'[m].sent = 0
      BY <1>0, <2>1
    <3> QED BY <1>0, <2>4, <3>1, DeliverableKept
  <2> QED BY <2>1, <2>2, <2>3, <2>5 DEF AtEnd, readerVars, Enumerates
<1> QED BY <1>1, <1>2

-----------------------------------------------------------------------------
(***************************************************************************)
(* An error has a cause, and the cause does not go away: nobody goes on    *)
(* with a message that is cut.                                             *)
(***************************************************************************)
LEMMA CauseKept ==
  ASSUME Typed, end' = end, delivered' = delivered,
         DOMAIN messages \subseteq DOMAIN messages',
         \A m \in DOMAIN messages :
           /\ messages'[m].length = messages[m].length
           /\ messages'[m].sent \in Nat /\ messages'[m].sent >= messages[m].sent
           /\ (\A w \in Writers : writing[w] # m) =>
                Same(m) /\ \A w \in Writers : writing'[w] # m,
         Cause
  PROVE  Cause'
<1>0. DOMAIN messages = 1 .. Last /\ Last \in Nat
  BY TypedSized
<1>1. CASE end = "broken"
  BY <1>1 DEF Cause
<1>2. ASSUME NEW m \in DOMAIN messages, Bad(m),
             \A c \in 1 .. m - 1 : Whole(c) => c \in Returned
      PROVE  Cause'
  <2>1. messages'[m].length = messages[m].length /\ Total(m)' = Total(m)
        /\ (Fits(m)' <=> Fits(m)) /\ m \in DOMAIN messages'
    BY SameFacts
  <2>2. Cut(m) => Cut(m)'
    BY <2>1 DEF Cut, Same
  <2>3. Bad(m)'
    <3>1. /\ messages[m].sent \in Nat /\ messages'[m].sent \in Nat
          /\ messages'[m].sent >= messages[m].sent
      BY <1>0, MessageFacts
    <3>2. messages'[m].sent > 0
      <4>1. messages[m].sent > 0
        BY <1>2 DEF Bad
      <4> QED BY <3>1, <4>1
    <3> QED BY <1>2, <2>1, <2>2, <3>2 DEF Bad
  <2>4. ASSUME NEW c \in 1 .. m - 1
        PROVE  Whole(c)' <=> Whole(c)
    <3>1. c \in DOMAIN messages /\ c # 0 /\ c # Last
      BY <1>0
    <3>2. \A w \in Writers : writing[w] # c
      BY <3>1 DEF Typed, OnlyLast
    <3> QED BY <3>1, <3>2, SameFacts DEF Same
  <2>5. Returned' = Returned
    BY DEF Returned
  <2> QED BY <1>2, <2>1, <2>3, <2>4, <2>5 DEF Cause
<1> QED BY <1>1, <1>2 DEF Cause

LEMMA CauseWriter ==
  ASSUME Typed, Given, NEW w \in Writers, Lock(w) \/ WriteSegment(w) \/ WriteEnds(w), Cause
  PROVE  Cause'
<1>0. DOMAIN messages = 1 .. Last /\ Last \in Nat /\ writing \in [Writers -> 0 .. Last]
  BY TypedSized DEF Typed, TypeOK, Last
<1>1. CASE Lock(w)
  <2>1. /\ Last' = Last + 1 /\ \A m \in 1 .. Last : Same(m)
        /\ writing' = [writing EXCEPT ![w] = Last + 1] /\ end' = end /\ delivered' = delivered
    BY <1>1, LockFacts DEF readerVars
  <2>2. DOMAIN messages' = 1 .. Last + 1
    <3>1. PICK length \in Lengths : messages' = Append(messages, [length |-> length, sent |-> 0])
      BY <1>1 DEF Lock
    <3> QED BY <1>0, <3>1 DEF Typed, TypeOK, Last
  <2>3. DOMAIN messages \subseteq DOMAIN messages'
    BY <1>0, <2>2
  <2>4. \A m \in DOMAIN messages :
          /\ messages'[m].length = messages[m].length /\ Same(m) /\ m # Last + 1
          /\ messages'[m].sent \in Nat /\ messages'[m].sent >= messages[m].sent
    BY <1>0, <2>1, MessageFacts DEF Same
  <2>5. ASSUME NEW m \in DOMAIN messages, \A v \in Writers : writing[v] # m
        PROVE  \A v \in Writers : writing'[v] # m
    BY <1>0, <2>1, <2>4, <2>5
  <2> QED BY <2>1, <2>3, <2>4, <2>5, CauseKept
<1>2. CASE WriteSegment(w) \/ WriteEnds(w)
  <2>1. PICK k \in Nat :
          /\ writing[w] = Last /\ writing' \in {writing, [writing EXCEPT ![w] = 0]}
          /\ \A m \in 1 .. Last :
               /\ messages'[m].length = messages[m].length
               /\ messages'[m].sent = IF m = Last THEN messages[m].sent + k ELSE messages[m].sent
          /\ end' = end /\ delivered' = delivered
    BY <1>2, WriteFacts DEF readerVars
  <2>2. DOMAIN messages' = DOMAIN messages
    BY <1>2 DEF WriteSegment, WriteEnds, Put
  <2>3. ASSUME NEW m \in DOMAIN messages, \A v \in Writers : writing[v] # m
        PROVE  Same(m) /\ \A v \in Writers : writing'[v] # m
    <3>1. m # Last /\ m # 0
      BY <1>0, <2>1, <2>3
    <3>2. Same(m)
      BY <1>0, <2>1, <3>1 DEF Same
    <3> QED BY <1>0, <2>1, <2>3, <3>1, <3>2
  <2>4. ASSUME NEW m \in DOMAIN messages
        PROVE  /\ messages'[m].length = messages[m].length
               /\ messages'[m].sent \in Nat /\ messages'[m].sent >= messages[m].sent
    <3>1. messages[m].sent \in Nat
      BY <1>0, MessageFacts
    <3> QED BY <1>0, <2>1, <3>1
  <2> QED BY <2>1, <2>2, <2>3, <2>4, CauseKept
<1> QED BY <1>1, <1>2

LEMMA CauseRead ==
  ASSUME Typed, Given, Streamed, Read, reader' = "stopped"
  PROVE  Cause'
<1>1. /\ messages' = messages /\ writing' = writing /\ end' = end
      /\ reader = "reading" /\ delivered' = delivered
      /\ ReadToken \/ ReadFails
  BY DEF Read, Fill, ReadToken, ReadFails, ReadAtEnd, Scans, writerVars
<1>2. Cause' <=> Cause
  BY <1>1 DEF Cause, Bad, Whole, Returned, Cut, Fits, Total
<1>3. PICK pos : Layout(Stream, pos, First)
  BY <1>1 DEF Streamed
<1>4. ASSUME ~ Cause PROVE FALSE
  <2>1. Laid(pos)
    BY <1>3, GivenFirst DEF Laid
  <2>2. /\ SplitJson(buf).kind # "error"
        /\ SplitJson(buf).kind = "more" => Len(buf) # MaxToken
        /\ SplitJson(buf).kind = "token" =>
             \E m \in DOMAIN messages : IsMessage(SplitJson(buf).token, m)
    BY <1>4, <2>1, ErrorsHaveCause
  <2>3. end # "broken"
    BY <1>4 DEF Cause
  <2>4. ReadToken
    BY <1>1, <2>2, <2>3 DEF ReadFails, Scans
  <2> QED BY <1>1, <2>2, <2>4 DEF ReadToken, Scans
<1> QED BY <1>2, <1>4

-----------------------------------------------------------------------------
LEMMA InitIInv == Init => IInv
<1> SUFFICES ASSUME Init PROVE IInv
  OBVIOUS
<1>1. /\ messages = <<>> /\ buf = <<>> /\ wire = <<>> /\ delivered = <<>> /\ emptied = FALSE
      /\ reader = "reading" /\ Last = 0 /\ First = 0 /\ Stream = <<>>
  <2>1. <<>> \in Seq(Bytes)
    OBVIOUS
  <2>2. <<>> \o <<>> = <<>>
    BY <2>1, ConcatEmptySeq
  <2> QED BY <2>2 DEF Init, Last, First, Stream
<1>2. Typed
  BY TypedInit
<1>3. Given
  <2>1. 1 .. 0 = {}
    OBVIOUS
  <2>2. Enumerates(delivered, {})
    BY <1>1 DEF Enumerates
  <2>3. {m \in 1 .. First : Whole(m)} = {}
    BY <1>1, <2>1
  <2>4. First \in 0 .. Last
    BY <1>1
  <2> QED BY <1>1, <2>1, <2>2, <2>3, <2>4 DEF Given
<1>4. Streamed
  <2> DEFINE zero == [n \in Nat |-> 0]
  <2>1. zero \in [Nat -> Nat] /\ (\A n \in Nat : zero[n] = 0) /\ 0 + 1 \in Nat
        /\ 0 + 1 .. 0 = {}
    OBVIOUS
  <2> HIDE DEF zero
  <2>2. Begins(zero, First)
    BY <1>1, <2>1 DEF Begins
  <2>3. Sums(zero, First)
    BY <1>1, <2>1 DEF Sums
  <2>4. Len(Stream) = 0 /\ Len(Stream) = zero[Last + 1]
    BY <1>1, <2>1
  <2>5. Holds(Stream, zero, First)
    BY <1>1, <2>1, <2>4 DEF Holds
  <2> QED BY <2>2, <2>3, <2>4, <2>5 DEF Streamed, Layout
<1>5. AtEnd /\ ErrorHasCause
  BY <1>1 DEF AtEnd, ErrorHasCause
<1> QED BY <1>2, <1>3, <1>4, <1>5 DEF IInv

LEMMA NextIInv == IInv /\ [Next]_vars => IInv'
<1> SUFFICES ASSUME IInv, [Next]_vars PROVE IInv'
  OBVIOUS
<1>1. Typed /\ Given /\ Streamed /\ AtEnd /\ (reader = "stopped" => Cause)
  BY DEF IInv, ErrorHasCause, Cause
<1>2. Typed'
  BY <1>1, TypedNext
<1>3. ASSUME Given', Streamed', AtEnd', reader' = "stopped" => Cause'
      PROVE  IInv'
  BY <1>2, <1>3 DEF IInv, ErrorHasCause, Cause
<1>4. ASSUME NEW w \in Writers, Lock(w)
      PROVE  IInv'
  <2>1. reader' = reader
    BY <1>4 DEF Lock, readerVars
  <2> QED BY <1>1, <1>2, <1>3, <1>4, <2>1, GivenLock, StreamedLock, AtEndWriter, CauseWriter
<1>5. ASSUME NEW w \in Writers, WriteSegment(w) \/ WriteEnds(w)
      PROVE  IInv'
  <2>1. reader' = reader
    BY <1>5 DEF WriteSegment, WriteEnds, readerVars
  <2> QED BY <1>1, <1>2, <1>3, <1>5, <2>1, GivenWrite, StreamedWrite, AtEndWriter, CauseWriter
<1>6. CASE Close
  <2>1. /\ UNCHANGED <<messages, writing, buf, delivered, reader, emptied>> /\ end = "open"
    BY <1>6 DEF Close, writerVars, readerVars
  <2>2. Given'
    BY <1>1, <2>1, GivenSame
  <2>3. AtEnd'
    BY <1>1, <2>1 DEF AtEnd
  <2>4. Cause => Cause'
    BY <2>1 DEF Cause, Bad, Whole, Returned, Cut, Fits, Total
  <2> QED BY <1>1, <1>3, <1>6, <2>1, <2>2, <2>3, <2>4, StreamedClose
<1>7. CASE Read
  <2>1. Given' /\ Streamed' /\ AtEnd'
    BY <1>1, <1>7, GivenRead, StreamedRead, AtEndRead
  <2>2. reader' = "stopped" => Cause'
    BY <1>1, <1>7, CauseRead
  <2> QED BY <1>3, <2>1, <2>2
<1>8. CASE UNCHANGED vars
  <2>1. UNCHANGED <<messages, writing, wire, end, buf, reader, delivered, emptied>>
    BY <1>8 DEF vars, writerVars, readerVars
  <2>2. Given'
    BY <1>1, <2>1, GivenSame
  <2>3. Streamed'
    <3>1. Stream' = Stream /\ Len(Stream) \in Nat
      BY <1>1, <2>1, StreamFacts DEF Stream
    <3> QED BY <1>1, <2>1, <3>1, StreamedPrefix
  <2>4. AtEnd'
    <3>1. Deliverable' = Deliverable
      BY <2>1 DEF Deliverable, Whole, Cut, Total
    <3> QED BY <1>1, <2>1, <3>1 DEF AtEnd, Enumerates
  <2>5. Cause => Cause'
    BY <2>1 DEF Cause, Bad, Whole, Returned, Cut, Fits, Total
  <2> QED BY <1>1, <1>3, <2>1, <2>2, <2>3, <2>4, <2>5
<1> QED BY <1>4, <1>5, <1>6, <1>7, <1>8 DEF Next

\* The inductive invariant holds: what the reader has not used up is laid out
\* as the writers wrote it (lines 38-101).
THEOREM Invariance == Spec => []IInv
BY InitIInv, NextIInv, PTL DEF Spec

LEMMA GivenIntact == IInv => IntactInOrder
<1> SUFFICES ASSUME IInv PROVE IntactInOrder
  OBVIOUS
<1>1. Typed /\ Given /\ AtEnd
  BY DEF IInv
<1>2. First \in 0 .. Last /\ First \in Nat /\ Last \in Nat
  BY <1>1, GivenFirst
<1>3. {m \in Deliverable : m <= First} = {m \in 1 .. First : Whole(m)}
  <2>1. ASSUME NEW m \in 1 .. First
        PROVE  m \in 1 .. Last /\ m <= First /\ \A c \in 1 .. m - 1 : ~ Unfinished(c)
    <3>1. m \in 1 .. Last /\ m <= First /\ \A c \in 1 .. m - 1 : c \in 1 .. First
      BY <1>2
    <3> QED BY <1>1, <3>1 DEF Given
  <2>2. \A m \in 1 .. Last : m <= First => m \in 1 .. First
    BY <1>2
  <2> QED BY <1>1, <2>1, <2>2, DeliverableIs
<1>4. Enumerates(delivered, {m \in Deliverable : m <= First})
  BY <1>1, <1>3 DEF Given
<1>5. emptied => end = "eof" /\ Enumerates(delivered, Deliverable)
  BY <1>1 DEF AtEnd
<1> QED BY <1>2, <1>4, <1>5 DEF IntactInOrder, Last

\* Messages come out whole, once and in the order of the lock, none is made of
\* the rest of one that was cut, and the end of the stream is reported only
\* when all that came whole was returned (lines 38-65, 67-79, 84-101).
THEOREM MessagesIntact == Spec => []IntactInOrder
BY Invariance, GivenIntact, PTL

\* The reader stops with an error only for a cause, and only when all that came
\* whole before it was returned: a broken connection, a write cut half way, a
\* message that could not be encoded or that does not fit the scanner's buffer
\* (lines 44-64, 74-77).
THEOREM ErrorsOnlyForCause == Spec => []ErrorHasCause
<1>1. IInv => ErrorHasCause
  BY DEF IInv
<1> QED BY <1>1, Invariance, PTL
=============================================================================
