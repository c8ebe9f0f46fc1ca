---------------------------- MODULE CodecProofs ----------------------------
(***************************************************************************)
(* What TLC checks of Codec on bytes of five bits, proved for every base    *)
(* and width: that a value comes back from its bytes as it was written.     *)
(***************************************************************************)
EXTENDS Codec, NaturalsInduction, WellFoundedInduction, SequenceTheorems, TLAPS

-----------------------------------------------------------------------------
(* Induction, over a set of numbers *)

LEMMA Least ==
  ASSUME NEW T \in SUBSET Nat, T # {}
  PROVE  \E x \in T : \A y \in T : x <= y
<1>1. PICK x \in T : \A y \in T : <<y, x>> \notin OpToRel(<, Nat)
      BY NatLessThanWellFounded, WFMin
<1>2. \A y \in T : ~(y < x) BY <1>1 DEF OpToRel
<1> QED BY <1>2

LEMMA SetInduction ==
  ASSUME NEW T \in SUBSET Nat, 0 \in T, \A m \in T : m + 1 \in T
  PROVE  T = Nat
<1> SUFFICES ASSUME Nat \ T # {} PROVE FALSE
    OBVIOUS
<1>1. PICK x \in Nat \ T : \A y \in Nat \ T : x <= y BY Least
<1>2. x - 1 \in T BY <1>1
<1> QED BY <1>1, <1>2
-----------------------------------------------------------------------------
(* Division *)

LEMMA Quotient ==
  ASSUME NEW a \in Int, NEW b \in Nat \ {0}
  PROVE  /\ a \div b \in Int /\ a % b \in 0 .. b - 1 /\ a = b * (a \div b) + (a % b)
OBVIOUS

\* A quotient and a remainder that fit are those of the division.
LEMMA QuotientIs ==
  ASSUME NEW a \in Int, NEW b \in Nat \ {0}, NEW q \in Int, NEW r \in 0 .. b - 1, a = b * q + r
  PROVE  a \div b = q /\ a % b = r
<1>1. PICK p \in Int, s \in Int : p = a \div b /\ s = a % b /\ s \in 0 .. b - 1 /\ a = b * p + s
      BY Quotient
<1>2. PICK d \in Int : d = p - q OBVIOUS
<1>3. b * d = r - s
  <2>1. b * d = b * p - b * q BY <1>2
  <2> QED BY <1>1, <2>1
<1>4. d = 0
  <2>1. d >= 1 => b * d >= b OBVIOUS
  <2>2. d <= -1 => b * d <= -b OBVIOUS
  <2> QED BY <1>1, <1>3, <2>1, <2>2
<1> QED BY <1>1, <1>2, <1>3, <1>4

\* Dividing by a product is dividing by one factor after the other.
LEMMA QuotientOfProduct ==
  ASSUME NEW a \in Int, NEW b \in Nat \ {0}, NEW c \in Nat \ {0}
  PROVE  a \div (b * c) = (a \div c) \div b
<1>1. PICK q \in Int, r \in Int : q = a \div c /\ r = a % c /\ r \in 0 .. c - 1 /\ a = c * q + r
      BY Quotient
<1>2. PICK p \in Int, s \in Int : p = q \div b /\ s = q % b /\ s \in 0 .. b - 1 /\ q = b * p + s
      BY Quotient
<1>3. a = (b * c) * p + (c * s + r)
  <2>1. a = c * (b * p + s) + r BY <1>1, <1>2
  <2>2. c * (b * p + s) = (b * c) * p + c * s OBVIOUS
  <2> QED BY <2>1, <2>2
<1>4. c * s + r \in 0 .. (b * c) - 1
  <2>1. c * s >= 0 /\ c * s + r >= 0 BY <1>1, <1>2
  <2>2. c * s <= c * (b - 1) BY <1>2
  <2>3. c * (b - 1) = b * c - c OBVIOUS
  <2> QED BY <1>1, <1>2, <2>1, <2>2, <2>3
<1>5. b * c \in Nat \ {0} OBVIOUS
<1>6. PICK e \in Nat \ {0} : e = b * c BY <1>5
<1>7. PICK t \in Int : t = c * s + r BY <1>1, <1>2
<1>8. a = e * p + t /\ t \in 0 .. e - 1 BY <1>3, <1>4, <1>6, <1>7
<1>9. a \div e = p BY <1>8, QuotientIs
<1> QED BY <1>1, <1>2, <1>6, <1>9
-----------------------------------------------------------------------------
(* Powers: the recursive function of the definition exists *)

PowersUpto(b, f, m) == \A i \in 0 .. m : f[i] = IF i = 0 THEN 1 ELSE b * f[i - 1]

LEMMA PowersExist == ASSUME NEW b \in Nat PROVE \A m \in Nat : \E f : PowersUpto(b, f, m)
<1> DEFINE Upto == {m \in Nat : \E f : PowersUpto(b, f, m)}
<1>1. 0 \in Upto
  <2>1. PICK f : f = [i \in 0 .. 0 |-> 1] OBVIOUS
  <2>2. PowersUpto(b, f, 0) BY <2>1 DEF PowersUpto
  <2> QED BY <2>2
<1>2. ASSUME NEW m \in Upto PROVE m + 1 \in Upto
  <2>1. PICK f : PowersUpto(b, f, m) OBVIOUS
  <2>2. PICK h : h = [i \in 0 .. (m + 1) |-> IF i = m + 1 THEN b * f[m] ELSE f[i]] OBVIOUS
  <2>3. ASSUME NEW i \in 0 .. (m + 1) PROVE h[i] = IF i = 0 THEN 1 ELSE b * h[i - 1]
    <3>1. CASE i = m + 1
      <4>1. h[i] = b * f[m] /\ h[m] = f[m] /\ i # 0 /\ i - 1 = m BY <2>2, <3>1
      <4> QED BY <4>1
    <3>2. CASE i \in 0 .. m
      <4>1. h[i] = f[i] /\ (i # 0 => h[i - 1] = f[i - 1]) BY <2>2, <3>2
      <4> QED BY <2>1, <3>2, <4>1 DEF PowersUpto
    <3> QED BY <3>1, <3>2
  <2>4. PowersUpto(b, h, m + 1) BY <2>3 DEF PowersUpto
  <2> QED BY <2>4
<1>3. Upto \in SUBSET Nat OBVIOUS
<1>4. \A m \in Nat : m \in Upto
  <2> HIDE DEF Upto
  <2> QED BY <1>1, <1>2, <1>3, SetInduction
<1> QED BY <1>4

LEMMA PowersAgree ==
  ASSUME NEW b \in Nat, NEW m \in Nat, NEW f, NEW g, PowersUpto(b, f, m), PowersUpto(b, g, m)
  PROVE  f[m] = g[m]
<1> DEFINE Same == {i \in Nat : i <= m => f[i] = g[i]}
<1>1. 0 \in Same BY DEF PowersUpto
<1>2. ASSUME NEW i \in Same PROVE i + 1 \in Same
  <2> SUFFICES ASSUME i + 1 <= m PROVE f[i + 1] = g[i + 1]
      OBVIOUS
  <2>1. i + 1 \in 0 .. m /\ i + 1 # 0 /\ (i + 1) - 1 = i OBVIOUS
  <2>2. f[i + 1] = b * f[i] /\ g[i + 1] = b * g[i] BY <2>1 DEF PowersUpto
  <2>3. f[i] = g[i] OBVIOUS
  <2> QED BY <2>2, <2>3
<1>3. Same \in SUBSET Nat OBVIOUS
<1>4. m \in Same
  <2> HIDE DEF Same
  <2> QED BY <1>1, <1>2, <1>3, SetInduction
<1> QED BY <1>4

LEMMA PowersAre ==
  ASSUME NEW b \in Nat
  PROVE  Power(b, 0) = 1 /\ \A k \in Nat : Power(b, k + 1) = b * Power(b, k)
<1> DEFINE Part(k) == CHOOSE f : PowersUpto(b, f, k)
           Body(f, k) == IF k = 0 THEN 1 ELSE b * f[k - 1]
<1>1. \A k \in Nat : PowersUpto(b, Part(k), k) BY PowersExist
<1> HIDE DEF Part
<1>2. PICK h : h = [k \in Nat |-> Part(k)[k]] OBVIOUS
<1>3. ASSUME NEW k \in Nat PROVE h[k] = Body(h, k)
  <2>1. CASE k = 0 BY <1>1, <1>2, <2>1 DEF PowersUpto
  <2>2. CASE k # 0
    <3>1. Part(k)[k] = b * Part(k)[k - 1] BY <1>1, <2>2 DEF PowersUpto
    <3>2. k - 1 \in Nat /\ \A i \in 0 .. k - 1 : i \in 0 .. k BY <2>2
    <3>3. PowersUpto(b, Part(k), k - 1) BY <1>1, <3>2 DEF PowersUpto
    <3>4. Part(k)[k - 1] = Part(k - 1)[k - 1] BY <1>1, <3>2, <3>3, PowersAgree
    <3> QED BY <1>2, <2>2, <3>1, <3>2, <3>4
  <2> QED BY <2>1, <2>2
<1>4. h = [k \in Nat |-> Body(h, k)]
  <2> HIDE DEF Body
  <2>1. h = [k \in Nat |-> h[k]] BY <1>2
  <2> QED BY <1>3, <2>1
<1> DEFINE power == CHOOSE f : f = [k \in Nat |-> Body(f, k)]
<1>5. power = [k \in Nat |-> Body(power, k)]
  <2> HIDE DEF Body
  <2> QED BY <1>4
<1>6. \A k \in Nat : Power(b, k) = power[k] BY DEF Power, Powers
<1> HIDE DEF power
<1>7. \A k \in Nat : power[k] = Body(power, k)
  <2> HIDE DEF Body
  <2> QED BY <1>5
<1>8. ASSUME NEW k \in Nat PROVE power[k + 1] = b * power[k]
  <2>1. k + 1 \in Nat /\ k + 1 # 0 /\ (k + 1) - 1 = k OBVIOUS
  <2> QED BY <1>7, <2>1
<1>9. power[0] = 1 BY <1>7
<1> QED BY <1>6, <1>8, <1>9

LEMMA PowersPositive == ASSUME NEW b \in Nat \ {0} PROVE \A k \in Nat : Power(b, k) \in Nat \ {0}
<1> DEFINE T == {k \in Nat : Power(b, k) \in Nat \ {0}}
<1>1. 0 \in T BY PowersAre
<1>2. ASSUME NEW k \in T PROVE k + 1 \in T
  <2>1. PICK p \in Nat \ {0} : p = Power(b, k) OBVIOUS
  <2>2. Power(b, k + 1) = b * p BY <2>1, PowersAre
  <2>3. b * p \in Nat \ {0} OBVIOUS
  <2> QED BY <2>2, <2>3
<1>3. T \in SUBSET Nat OBVIOUS
<1>4. T = Nat
  <2> HIDE DEF T
  <2> QED BY <1>1, <1>2, <1>3, SetInduction
<1> QED BY <1>4

LEMMA PowersAdd ==
  ASSUME NEW b \in Nat \ {0}, NEW j \in Nat
  PROVE  \A k \in Nat : Power(b, k + j) = Power(b, k) * Power(b, j)
<1> DEFINE T == {k \in Nat : Power(b, k + j) = Power(b, k) * Power(b, j)}
<1>0. PICK q \in Nat : q = Power(b, j) BY PowersPositive
<1>1. 0 \in T BY <1>0, PowersAre
<1>2. ASSUME NEW k \in T PROVE k + 1 \in T
  <2>1. PICK p \in Nat : p = Power(b, k) BY PowersPositive
  <2>2. Power(b, k + j) = p * q BY <1>0, <2>1
  <2>3. Power(b, k + 1) = b * p BY <2>1, PowersAre
  <2>4. (k + 1) + j = (k + j) + 1 /\ k + j \in Nat OBVIOUS
  <2>5. Power(b, (k + 1) + j) = b * Power(b, k + j) BY <2>4, PowersAre
  <2>6. Power(b, (k + 1) + j) = b * (p * q) BY <2>2, <2>5
  <2>7. b * (p * q) = (b * p) * q OBVIOUS
  <2> QED BY <1>0, <2>3, <2>6, <2>7
<1>3. T \in SUBSET Nat OBVIOUS
<1>4. T = Nat
  <2> HIDE DEF T
  <2> QED BY <1>1, <1>2, <1>3, SetInduction
<1> QED BY <1>4
-----------------------------------------------------------------------------
(* The number of some digits *)

LEMMA NumberDefined ==
  ASSUME NEW s, Len(s) \in Nat
  PROVE  \E f : /\ f[0] = 0 /\ \A i \in 1 .. Len(s) : f[i] = f[i - 1] * Base + s[i]
                /\ Number(s) = f[Len(s)]
<1> DEFINE Body(f, i) == IF i = 0 THEN 0 ELSE f[i - 1] * Base + s[i]
           Upto == {m \in Nat : \E f : f = [i \in 0 .. m |-> Body(f, i)]}
<1>1. 0 \in Upto
  <2>1. PICK f : f = [i \in 0 .. 0 |-> 0] OBVIOUS
  <2>2. \A i \in 0 .. 0 : 0 = Body(f, i) OBVIOUS
  <2> HIDE DEF Body
  <2>3. f = [i \in 0 .. 0 |-> Body(f, i)] BY <2>1, <2>2
  <2> QED BY <2>3
<1>2. ASSUME NEW m \in Upto PROVE m + 1 \in Upto
  <2>1. PICK f : f = [i \in 0 .. m |-> Body(f, i)] OBVIOUS
  <2>2. PICK h : h = [i \in 0 .. (m + 1) |-> IF i = m + 1 THEN Body(f, m + 1) ELSE f[i]] OBVIOUS
  <2>3. \A i \in 0 .. m : h[i] = f[i] BY <2>2
  <2>4. ASSUME NEW i \in 0 .. (m + 1) PROVE h[i] = Body(h, i)
    <3>1. CASE i = m + 1
      <4>1. h[i] = Body(f, m + 1) BY <2>2, <3>1
      <4>2. i - 1 \in 0 .. m BY <3>1
      <4> QED BY <2>3, <3>1, <4>1, <4>2
    <3>2. CASE i \in 0 .. m
      <4>1. h[i] = f[i] BY <2>3, <3>2
      <4>2. f[i] = Body(f, i)
        <5> HIDE DEF Body
        <5> QED BY <2>1, <3>2
      <4>3. i = 0 \/ i - 1 \in 0 .. m BY <3>2
      <4> QED BY <2>3, <4>1, <4>2, <4>3
    <3> QED BY <3>1, <3>2
  <2> HIDE DEF Body
  <2>5. h = [i \in 0 .. (m + 1) |-> h[i]] BY <2>2
  <2>6. h = [i \in 0 .. (m + 1) |-> Body(h, i)] BY <2>4, <2>5
  <2> QED BY <2>6
<1>3. Upto = Nat
  <2> HIDE DEF Body
  <2>1. Upto \in SUBSET Nat OBVIOUS
  <2> HIDE DEF Upto
  <2> QED BY <1>1, <1>2, <2>1, SetInduction
<1> DEFINE sum == CHOOSE f : f = [i \in 0 .. Len(s) |-> Body(f, i)]
<1>4. sum = [i \in 0 .. Len(s) |-> Body(sum, i)]
  <2> HIDE DEF Body
  <2>1. \E f : f = [i \in 0 .. Len(s) |-> Body(f, i)] BY <1>3
  <2> QED BY <2>1
<1>5. Number(s) = sum[Len(s)] BY DEF Number
<1> HIDE DEF sum
<1>6. \A i \in 0 .. Len(s) : sum[i] = Body(sum, i)
  <2> HIDE DEF Body
  <2> QED BY <1>4
<1>7. 0 \in 0 .. Len(s) /\ \A i \in 1 .. Len(s) : i \in 0 .. Len(s) /\ i # 0 OBVIOUS
<1> QED BY <1>5, <1>6, <1>7

\* A loop that has the right number after each digit has it in the end.
LEMMA NumberIs ==
  ASSUME NEW s, Len(s) \in Nat, NEW g, g[0] = 0,
         \A i \in 1 .. Len(s) : g[i] = g[i - 1] * Base + s[i]
  PROVE  Number(s) = g[Len(s)]
<1>1. PICK f : /\ f[0] = 0 /\ \A i \in 1 .. Len(s) : f[i] = f[i - 1] * Base + s[i]
               /\ Number(s) = f[Len(s)]
      BY NumberDefined
<1> DEFINE Same == {i \in Nat : i <= Len(s) => f[i] = g[i]}
<1>2. 0 \in Same BY <1>1
<1>3. ASSUME NEW i \in Same PROVE i + 1 \in Same
  <2> SUFFICES ASSUME i + 1 <= Len(s) PROVE f[i + 1] = g[i + 1]
      OBVIOUS
  <2>1. i + 1 \in 1 .. Len(s) /\ (i + 1) - 1 = i OBVIOUS
  <2>2. f[i + 1] = f[i] * Base + s[i + 1] /\ g[i + 1] = g[i] * Base + s[i + 1] BY <1>1, <2>1
  <2>3. f[i] = g[i] OBVIOUS
  <2> QED BY <2>2, <2>3
<1>4. Same \in SUBSET Nat OBVIOUS
<1>5. Len(s) \in Same
  <2> HIDE DEF Same
  <2> QED BY <1>2, <1>3, <1>4, SetInduction
<1> QED BY <1>1, <1>5

LEMMA Sizes == ASSUME NEW k \in Nat PROVE Size(k) \in Nat \ {0} /\ (k # 0 => Size(k) >= 2)
<1>1. Size(k) \in Nat \ {0} BY PowersPositive, CodecAssumption DEF Size
<1>2. ASSUME k # 0 PROVE Size(k) >= 2
  <2>1. PICK p \in Nat \ {0} : p = Power(Base, k - 1) BY <1>2, PowersPositive, CodecAssumption
  <2>2. k - 1 \in Nat /\ (k - 1) + 1 = k BY <1>2
  <2>3. Size(k) = Base * p BY <2>1, <2>2, PowersAre, CodecAssumption DEF Size
  <2>4. Base * p >= 2 BY CodecAssumption
  <2> QED BY <2>3, <2>4
<1> QED BY <1>1, <1>2

LEMMA FunctionIsSeq ==
  ASSUME NEW n \in Nat, NEW S, NEW f \in [1 .. n -> S]
  PROVE  f \in Seq(S) /\ Len(f) = n
OBVIOUS

LEMMA DigitsSeq ==
  ASSUME NEW n \in Int, NEW k \in Nat
  PROVE  Digits(n, k) \in Seq(0 .. Base - 1) /\ Len(Digits(n, k)) = k
<1>1. Base \in Nat \ {0} BY CodecAssumption
<1>2. PICK m \in Int : m = n % Size(k) BY Sizes
<1>3. ASSUME NEW i \in 1 .. k PROVE (m \div Power(Base, k - i)) % Base \in 0 .. Base - 1
  <2>1. PICK p \in Nat \ {0} : p = Power(Base, k - i) BY <1>1, PowersPositive
  <2>2. m \div p \in Int BY Quotient
  <2> QED BY <1>1, <2>1, <2>2, Quotient
<1>4. Digits(n, k) \in [1 .. k -> 0 .. Base - 1] BY <1>2, <1>3 DEF Digits
<1> QED BY <1>4, FunctionIsSeq

\* Reading back what was written gives the number, but for what the bytes lack
\* room for.
LEMMA NumberOfDigits ==
  ASSUME NEW n \in Int, NEW k \in Nat
  PROVE  Number(Digits(n, k)) = n % Size(k)
<1>1. Base \in Nat \ {0} BY CodecAssumption
<1>2. PICK m \in Int : m = n % Size(k) /\ m \in 0 .. Size(k) - 1
  <2>1. PICK z \in Nat \ {0} : z = Size(k) BY Sizes
  <2>2. n % z \in 0 .. z - 1 BY Quotient
  <2> QED BY <2>1, <2>2
<1>3. PICK g : g = [i \in 0 .. k |-> m \div Power(Base, k - i)] OBVIOUS
<1>4. PICK s : s = Digits(n, k) OBVIOUS
<1>5. Len(s) = k BY <1>4, DigitsSeq
<1>6. g[0] = 0
  <2>1. PICK z \in Nat \ {0} : z = Size(k) BY Sizes
  <2>2. g[0] = m \div z BY <1>3, <2>1 DEF Size
  <2>3. m = z * 0 + m /\ m \in 0 .. z - 1 BY <1>2, <2>1
  <2> QED BY <2>2, <2>3, QuotientIs
<1>7. ASSUME NEW i \in 1 .. k PROVE g[i] = g[i - 1] * Base + s[i]
  <2>1. PICK p \in Nat \ {0} : p = Power(Base, k - i) BY <1>1, PowersPositive
  <2>2. k - (i - 1) = (k - i) + 1 /\ k - i \in Nat /\ i - 1 \in 0 .. k OBVIOUS
  <2>3. Power(Base, k - (i - 1)) = Base * p BY <1>1, <2>1, <2>2, PowersAre
  <2>4. PICK q \in Int : q = m \div p BY <2>1, Quotient
  <2>5. m \div (Base * p) = q \div Base BY <1>1, <2>1, <2>4, QuotientOfProduct
  <2>6. g[i] = q /\ g[i - 1] = q \div Base BY <1>3, <2>1, <2>2, <2>3, <2>4, <2>5
  <2>7. s[i] = q % Base BY <1>2, <1>4, <2>1, <2>4 DEF Digits
  <2>8. PICK d \in Int, r \in Int : d = q \div Base /\ r = q % Base /\ q = Base * d + r BY <1>1, Quotient
  <2>9. d * Base = Base * d BY <1>1
  <2> QED BY <2>6, <2>7, <2>8, <2>9
<1>8. Number(s) = g[k] BY <1>5, <1>6, <1>7, NumberIs
<1>9. g[k] = m
  <2>1. k \in 0 .. k /\ k - k = 0 OBVIOUS
  <2>2. g[k] = m \div 1 BY <1>1, <1>3, <2>1, PowersAre
  <2> QED BY <2>2
<1> QED BY <1>2, <1>4, <1>8, <1>9

\* Two numbers have the same digits exactly if they differ by what is cut off.
LEMMA SameDigits ==
  ASSUME NEW n \in Int, NEW m \in Int, NEW k \in Nat
  PROVE  (Digits(n, k) = Digits(m, k)) <=> (n % Size(k) = m % Size(k))
<1>1. Digits(n, k) = Digits(m, k) => n % Size(k) = m % Size(k) BY NumberOfDigits
<1>2. n % Size(k) = m % Size(k) => Digits(n, k) = Digits(m, k) BY DEF Digits
<1> QED BY <1>1, <1>2

LEMMA Remainder == ASSUME NEW k \in Nat, NEW n \in 0 .. Size(k) - 1 PROVE n % Size(k) = n
<1>1. PICK z \in Nat \ {0} : z = Size(k) BY Sizes
<1>2. n \in Int /\ n \in 0 .. z - 1 /\ n = z * 0 + n BY <1>1
<1> QED BY <1>1, <1>2, QuotientIs

\* The greatest number that fits has all its bits set.
LEMMA DigitsOfOnes == ASSUME NEW k \in Nat PROVE Digits(Size(k) - 1, k) = Ones(k)
<1>1. Base \in Nat \ {0} BY CodecAssumption
<1>2. PICK z \in Nat \ {0} : z = Size(k) BY Sizes
<1>3. (z - 1) % z = z - 1
  <2>1. z - 1 = z * 0 + (z - 1) /\ z - 1 \in 0 .. z - 1 /\ z - 1 \in Int OBVIOUS
  <2> QED BY <2>1, QuotientIs
<1>4. ASSUME NEW i \in 1 .. k PROVE ((z - 1) \div Power(Base, k - i)) % Base = Base - 1
  <2>1. PICK p \in Nat \ {0} : p = Power(Base, k - i) BY <1>1, PowersPositive
  <2>2. PICK o \in Nat \ {0} : o = Power(Base, i - 1) BY <1>1, PowersPositive
  <2>3. k - i \in Nat /\ i - 1 \in Nat /\ i \in Nat /\ (i - 1) + 1 = i /\ i + (k - i) = k OBVIOUS
  <2>4. Power(Base, i) = Base * o BY <1>1, <2>2, <2>3, PowersAre
  <2>5. PICK w \in Nat \ {0} : w = Base * o BY <1>1
  <2>6. z = w * p BY <1>1, <1>2, <2>1, <2>3, <2>4, <2>5, PowersAdd DEF Size
  <2>7. z - 1 = p * (w - 1) + (p - 1)
    <3>1. p * (w - 1) = w * p - p OBVIOUS
    <3> QED BY <2>6, <3>1
  <2>8. p - 1 \in 0 .. p - 1 /\ w - 1 \in Int /\ z - 1 \in Int OBVIOUS
  <2>9. (z - 1) \div p = w - 1 BY <2>7, <2>8, QuotientIs
  <2>10. w - 1 = Base * (o - 1) + (Base - 1)
    <3>1. Base * (o - 1) = Base * o - Base BY <1>1
    <3> QED BY <1>1, <2>5, <3>1
  <2>11. Base - 1 \in 0 .. Base - 1 /\ o - 1 \in Int BY <1>1
  <2>12. (w - 1) % Base = Base - 1 BY <1>1, <2>8, <2>10, <2>11, QuotientIs
  <2> QED BY <2>1, <2>9, <2>12
<1> QED BY <1>2, <1>3, <1>4 DEF Digits, Ones
-----------------------------------------------------------------------------
(* Integers, dates and points *)

LEMMA ReadDigits ==
  ASSUME NEW n \in Int, NEW k \in Nat
  PROVE  Read(Digits(n, k), k) = n % Size(k)
<1>1. PICK s, D : s = Digits(n, k) /\ D = 0 .. Base - 1 /\ s \in Seq(D) /\ Len(s) = k BY DigitsSeq
<1>2. SubSeq(s, 1, k) = s BY <1>1, SubSeqFull
<1>3. ~(Len(s) < k) BY <1>1
<1>4. Read(s, k) = Number(s) BY <1>2, <1>3, Zenon DEF Read
<1> QED BY <1>1, <1>4, NumberOfDigits

LEMMA ReadBack ==
  ASSUME NEW k \in Nat, NEW n \in 0 .. Size(k) - 1
  PROVE  n \in Int /\ Read(Digits(n, k), k) = n
<1>1. n \in Int BY Sizes
<1> QED BY <1>1, ReadDigits, Remainder

\* An integer of k bytes comes back from its two's complement.
LEMMA SignedBack ==
  ASSUME NEW k \in Nat \ {0}, NEW n \in Int, 2 * n \in -Size(k) .. Size(k) - 2
  PROVE  Signed(n % Size(k), k) = n
<1>1. PICK z \in Nat \ {0} : z = Size(k) BY Sizes
<1>2. CASE n >= 0
  <2>1. n \in 0 .. z - 1 /\ n = z * 0 + n BY <1>1, <1>2
  <2>2. n % z = n BY <2>1, QuotientIs
  <2> QED BY <1>1, <2>1, <2>2 DEF Signed
<1>3. CASE n < 0
  <2>1. n + z \in 0 .. z - 1 /\ n = z * (-1) + (n + z) /\ n + z \in Int BY <1>1, <1>3
  <2>2. n % z = n + z BY <2>1, QuotientIs
  <2>3. 2 * (n + z) >= z BY <1>1
  <2> QED BY <1>1, <2>1, <2>2, <2>3 DEF Signed
<1> QED BY <1>2, <1>3

\* The null of a signed integer is its greatest value.
LEMMA SignedNull ==
  ASSUME NEW k \in Nat \ {0}, NEW n \in Int, 2 * n \in -Size(k) .. Size(k) - 2
  PROVE  (Digits(n, k) = MaxSigned(k)) <=> (n = (Size(k) \div 2) - 1)
<1>1. PICK z \in Nat \ {0} : z = Size(k) /\ z >= 2 BY Sizes
<1>2. PICK m \in Int : m = (z \div 2) - 1 /\ m \in 0 .. z - 1 /\ 2 * m \in -z .. z - 2 BY <1>1
<1>3. (Digits(n, k) = Digits(m, k)) <=> (n % z = m % z) BY <1>1, SameDigits
<1>4. Signed(n % z, k) = n /\ Signed(m % z, k) = m BY <1>1, <1>2, SignedBack
<1>5. (n % z = m % z) <=> n = m BY <1>4
<1> QED BY <1>1, <1>2, <1>3, <1>5 DEF MaxSigned

\* The null of an unsigned integer is its greatest value.
LEMMA UnsignedNull ==
  ASSUME NEW k \in Nat, NEW n \in 0 .. Size(k) - 1
  PROVE  (Digits(n, k) = Ones(k)) <=> (n = Size(k) - 1)
<1>1. n \in Int /\ Size(k) - 1 \in 0 .. Size(k) - 1 /\ Size(k) - 1 \in Int BY Sizes
<1>2. n % Size(k) = n /\ (Size(k) - 1) % Size(k) = Size(k) - 1 BY <1>1, Remainder
<1> QED BY <1>1, <1>2, SameDigits, DigitsOfOnes

\* Rounding a coordinate that is rounded changes nothing.
LEMMA FormatTwice == ASSUME NEW c \in Int PROVE Format(c) \in Int /\ Format(Format(c)) = Format(c)
<1>1. PICK u \in Nat \ {0} : u = Unit BY CodecAssumption
<1>2. PICK w \in Nat \ {0} : w = 2 * u OBVIOUS
<1>3. PICK q \in Int : q = (2 * c + u) \div w BY Quotient
<1>4. Format(c) = q * u BY <1>1, <1>2, <1>3 DEF Format
<1>5. PICK d \in Int : d = q * u OBVIOUS
<1>6. 2 * d + u = w * q + u BY <1>2, <1>5
<1>7. u \in 0 .. w - 1 /\ 2 * d + u \in Int BY <1>2
<1>8. (2 * d + u) \div w = q BY <1>6, <1>7, QuotientIs
<1>9. Format(d) = q * u BY <1>1, <1>2, <1>8 DEF Format
<1> QED BY <1>4, <1>5, <1>9

LEMMA ClockBits == \A i \in 1 .. 4 : Bits(i) \in Nat \ {0}
<1>1. \A i \in 1 .. 4 : Clock[i] \in Nat BY CodecAssumption
<1> QED BY <1>1, PowersPositive DEF Bits

\* One field more.
LEMMA Shift ==
  ASSUME NEW a \in Nat, NEW b \in Nat \ {0}, NEW r \in Nat, r < b
  PROVE  /\ a * b + r \in Nat /\ (a * b + r) \div b = a /\ (a * b + r) % b = r
         /\ \A c \in Nat : a < c => a * b + r < c * b
<1>1. PICK n \in Nat : n = a * b + r OBVIOUS
<1>2. n = b * a + r /\ r \in 0 .. b - 1 /\ a \in Int BY <1>1
<1>3. n \div b = a /\ n % b = r BY <1>2, QuotientIs
<1>4. ASSUME NEW c \in Nat, a < c PROVE a * b + r < c * b
  <2>1. (a + 1) * b <= c * b BY <1>4
  <2>2. (a + 1) * b = a * b + b OBVIOUS
  <2> QED BY <2>1, <2>2
<1> QED BY <1>1, <1>3, <1>4

\* A date comes back from its bits, and is neither 0 nor the null one.
LEMMA DateBack ==
  ASSUME NEW f, Fields(f), f[1] \in 100 .. Limit
  PROVE  /\ TimeToUint64(f) \in 1 .. Size(Long) - 2
         /\ Uint64ToTime(TimeToUint64(f)) = f
<1>1. f \in Seq(Nat) /\ Len(f) = 7 BY DEF Fields
<1>2. \A i \in 1 .. 7 : f[i] \in Nat BY <1>1, ElementOfSeq
<1>3. PICK y \in Nat, m \in Nat, d \in Nat : y = f[1] /\ m = f[2] /\ d = f[3] BY <1>2
<1>4. PICK h \in Nat, i \in Nat : h = f[4] /\ i = f[5] BY <1>2
<1>5. PICK s \in Nat, u \in Nat : s = f[6] /\ u = f[7] BY <1>2
<1>6. PICK b \in Nat \ {0}, c \in Nat \ {0}, e \in Nat \ {0}, g \in Nat \ {0} :
        b = Bits(1) /\ c = Bits(2) /\ e = Bits(3) /\ g = Bits(4)
      BY ClockBits
<1>7. m < 13 /\ m >= 1 /\ d < 32 /\ h < b /\ i < c /\ s < e /\ u < g
  <2>1. f[2] \in 1 .. 12 /\ f[3] \in 1 .. 31 /\ \A j \in 1 .. 4 : f[3 + j] < Bits(j) BY DEF Fields
  <2>2. f[3 + 1] < Bits(1) /\ f[3 + 2] < Bits(2) /\ f[3 + 3] < Bits(3) /\ f[3 + 4] < Bits(4) BY <2>1
  <2> QED BY <1>3, <1>4, <1>5, <1>6, <2>1, <2>2
<1>8. PICK ym \in Nat : ym = y * 13 + m /\ ym \div 13 = y /\ ym % 13 = m
      BY <1>7
<1>9. PICK day \in Nat : day = ym * 32 + d /\ day \div 32 = ym /\ day % 32 = d BY <1>7
<1>10. PICK hour \in Nat : hour = day * b + h /\ hour \div b = day /\ hour % b = h BY <1>7, Shift
<1>11. PICK minute \in Nat : minute = hour * c + i /\ minute \div c = hour /\ minute % c = i BY <1>7, Shift
<1>12. PICK second \in Nat : second = minute * e + s /\ second \div e = minute /\ second % e = s BY <1>7, Shift
<1>13. PICK n \in Nat : n = second * g + u /\ n \div g = second /\ n % g = u BY <1>7, Shift
<1>14. TimeToUint64(f) = n
  <2>1. TimeToUint64(f) = (((((y * 13 + m) * 32 + d) * b + h) * c + i) * e + s) * g + u
        BY <1>3, <1>4, <1>5, <1>6 DEF TimeToUint64
  <2> QED BY <1>8, <1>9, <1>10, <1>11, <1>12, <1>13, <2>1
<1>15. Century(y) = y BY <1>3, CodecAssumption DEF Century
<1>16. Uint64ToTime(n) = <<y, m, d, h, i, s, u>>
      BY <1>6, <1>8, <1>9, <1>10, <1>11, <1>12, <1>13, <1>15 DEF Uint64ToTime
<1>17. f = <<y, m, d, h, i, s, u>> BY <1>1, <1>3, <1>4, <1>5
<1>18. n >= 1
  <2>1. ym >= 1 BY <1>7, <1>8
  <2>2. day >= 1 BY <1>9, <2>1
  <2>3. hour >= 1 BY <1>10, <2>2
  <2>4. minute >= 1 BY <1>11, <2>3
  <2>5. second >= 1 BY <1>12, <2>4
  <2> QED BY <1>13, <2>5
<1>19. n < Size(Long) - 1
  <2>1. PICK l \in Nat : l = Limit /\ y <= l BY <1>3, CodecAssumption
  <2>2. PICK v \in Nat : v = (l + 1) * 13 * 32 /\ day < v
    <3>1. ym < (l + 1) * 13 BY <1>7, <1>8, <2>1
    <3> QED BY <1>7, <1>9, <3>1
  <2>3. PICK v1 \in Nat : v1 = v * b /\ hour < v1 BY <1>7, <1>10, <2>2, Shift
  <2>4. PICK v2 \in Nat : v2 = v1 * c /\ minute < v2 BY <1>7, <1>11, <2>3, Shift
  <2>5. PICK v3 \in Nat : v3 = v2 * e /\ second < v3 BY <1>7, <1>12, <2>4, Shift
  <2>6. PICK v4 \in Nat : v4 = v3 * g /\ n < v4 BY <1>7, <1>13, <2>5, Shift
  <2>7. v4 < Size(Long) BY <1>6, <2>1, <2>2, <2>3, <2>4, <2>5, <2>6, DateAssumption
  <2> QED BY <2>6, <2>7, Sizes, CodecAssumption
<1>20. n \in 1 .. Size(Long) - 2 BY <1>18, <1>19, Sizes, CodecAssumption
<1> QED BY <1>14, <1>16, <1>17, <1>20
-----------------------------------------------------------------------------
(* The tables of types *)

LEMMA GoOfIs ==
  /\ DOMAIN GoOf = {"INT32", "INT64", "UINT32", "UINT64"}
  /\ GoOf["INT32"] = "int32" /\ GoOf["INT64"] = "int64" /\ GoOf["UINT32"] = "uint32" /\ GoOf["UINT64"] = "uint64"
BY DEF GoOf

LEMMA IntsAre ==
  /\ DOMAIN Ints = {"int", "int32", "uint32", "float32", "int64", "uint64", "float64"}
  /\ Ints["int"] = Short /\ Ints["int32"] = Short /\ Ints["uint32"] = Short /\ Ints["float32"] = Short
  /\ Ints["int64"] = Long /\ Ints["uint64"] = Long /\ Ints["float64"] = Long
BY DEF Ints

LEMMA OwnIs ==
  /\ DOMAIN Own = {"INT32", "INT64", "UINT32", "UINT64", "FLOAT", "DOUBLE", "STRING", "TEXT", "BLOB", "BOOL",
                   "DECIMAL", "POINT", "DATETIME", "TIMESTAMP"}
  /\ Own["INT32"] = {"int", "int32"} /\ Own["INT64"] = {"int64"} /\ Own["UINT32"] = {"uint32"}
  /\ Own["UINT64"] = {"uint64"} /\ Own["FLOAT"] = {"float32"} /\ Own["DOUBLE"] = {"float64"}
  /\ Own["STRING"] = {"string"} /\ Own["TEXT"] = {"string"} /\ Own["BLOB"] = {"bytes"} /\ Own["BOOL"] = {"bool"}
  /\ Own["DECIMAL"] = {"string", "int", "int64"} /\ Own["POINT"] = {"point"} /\ Own["DATETIME"] = {"time"}
  /\ Own["TIMESTAMP"] = {"instant"}
BY DEF Own

\* Which bytes of a type are null.
LEMMA NullsAre ==
  ASSUME NEW b
  PROVE  /\ IsNull("INT32", b) <=> b = MaxSigned(Short)
         /\ IsNull("INT64", b) <=> b = MaxSigned(Long)
         /\ \A t \in {"UINT32", "TIMESTAMP", "FLOAT"} : IsNull(t, b) <=> b = Ones(Short)
         /\ \A t \in {"UINT64", "DOUBLE", "DATETIME"} : IsNull(t, b) <=> b = Ones(Long)
         /\ \A t \in {"STRING", "TEXT"} : IsNull(t, b) <=> b = <<0>>
         /\ IsNull("POINT", b) <=> b = Ones(2 * Long)
         /\ \A t \in {"LIST", "MAP"} : IsNull(t, b) <=> b = NullData
         /\ IsNull("BOOL", b) <=> b = <<2>>
         /\ IsNull("NULL_", b)
<1>1. \A c : <<c>> = <<b>> <=> b = c OBVIOUS
<1>2. /\ GetNullBytes("INT32") = <<MaxSigned(Short)>> /\ GetNullBytes("INT64") = <<MaxSigned(Long)>>
      /\ GetNullBytes("POINT") = <<Ones(2 * Long)>> /\ GetNullBytes("BOOL") = << <<2>> >>
      BY DEF GetNullBytes
<1>3. /\ \A t \in {"UINT32", "TIMESTAMP", "FLOAT"} : GetNullBytes(t) = <<Ones(Short)>>
      /\ \A t \in {"UINT64", "DOUBLE", "DATETIME"} : GetNullBytes(t) = <<Ones(Long)>>
      BY DEF GetNullBytes
<1>4. /\ \A t \in {"STRING", "TEXT"} : GetNullBytes(t) = << <<0>> >>
      /\ \A t \in {"LIST", "MAP"} : GetNullBytes(t) = <<NullData>>
      BY DEF GetNullBytes
<1> QED BY <1>1, <1>2, <1>3, <1>4 DEF IsNull

Tabled == {"INT32", "INT64", "UINT32", "TIMESTAMP", "FLOAT", "UINT64", "DOUBLE", "DATETIME", "STRING", "TEXT",
           "POINT", "LIST", "MAP", "BOOL"}

\* The types that have a null, and those that have none.
LEMMA NullTable ==
  ASSUME NEW t
  PROVE  /\ t \in Tabled => \E b : GetNullBytes(t) = <<b>>
         /\ t \notin Tabled => GetNullBytes(t) = <<>>
<1>1. ASSUME t \in Tabled PROVE \E b : GetNullBytes(t) = <<b>>
      BY <1>1 DEF Tabled, GetNullBytes
<1>2. ASSUME t \notin Tabled PROVE GetNullBytes(t) = <<>>
      BY <1>2 DEF Tabled, GetNullBytes
<1> QED BY <1>1, <1>2
-----------------------------------------------------------------------------
(* A value that is no list, on its way to the server and back *)

Through(x, t) == DecodeAtom(Kept(x, t, EncodeAtom(x, t).v), t)
Expected(x, t) ==
  IF x = nil THEN NullOf(t) ELSE IF Canonical(x, t) \in Unstorable(t) THEN nil ELSE Canonical(x, t)

LEMMA NilBack ==
  ASSUME NEW t, t # "MAP"
  PROVE  EncodeAtom(nil, t).go = "bytes" /\ Through(nil, t) = NullOf(t)
<1>1. nil.go = "nil" BY DEF nil, Go
<1>2. \A b : Kept(nil, t, b) = b BY <1>1 DEF Kept
<1>3. CASE t \in Tabled
  <2>1. PICK b : GetNullBytes(t) = <<b>> BY <1>3, NullTable
  <2>2. GetNullBytes(t) # <<>> /\ GetNullBytes(t)[1] = b BY <2>1
  <2>3. EncodeAtom(nil, t) = Go("bytes", b) BY <2>2 DEF EncodeAtom
  <2>4. EncodeAtom(nil, t).go = "bytes" /\ EncodeAtom(nil, t).v = b BY <2>3 DEF Go
  <2>5. IsNull(t, b) BY <2>1 DEF IsNull
  <2>6. Through(nil, t) = nil BY <1>2, <2>4, <2>5 DEF Through, DecodeAtom
  <2>7. NullOf(t) = nil BY <1>3 DEF NullOf, Tabled
  <2> QED BY <2>4, <2>6, <2>7
<1>4. CASE t \notin Tabled
  <2>1. GetNullBytes(t) = <<>> BY <1>4, NullTable
  <2>2. EncodeAtom(nil, t) = Go("bytes", <<>>) BY <2>1 DEF EncodeAtom
  <2>3. EncodeAtom(nil, t).go = "bytes" /\ EncodeAtom(nil, t).v = <<>> BY <2>2 DEF Go
  <2>4. Through(nil, t) = DecodeAtom(<<>>, t) BY <1>2, <2>3 DEF Through
  <2>5. t # "NULL_" => ~IsNull(t, <<>>) BY <2>1 DEF IsNull
  <2>6. CASE t = "NULL_" BY <2>3, <2>4, <2>6 DEF DecodeAtom, IsNull, NullOf
  <2>7. CASE t = "DECIMAL" BY <2>3, <2>4, <2>7 DEF DecodeAtom, NullOf
  <2>8. CASE t = "BLOB" BY <2>3, <2>4, <2>5, <2>8 DEF DecodeAtom, NullOf
  <2>9. CASE t = "SET" BY <2>3, <2>4, <2>5, <2>9 DEF DecodeAtom, NullOf
  <2>10. CASE t \notin {"NULL_", "DECIMAL", "BLOB", "SET"}
    <3>1. DecodeAtom(<<>>, t) = nil BY <1>4, <2>5, <2>10 DEF DecodeAtom, Tabled
    <3> QED BY <2>3, <2>4, <2>10, <3>1 DEF NullOf
  <2> QED BY <2>6, <2>7, <2>8, <2>9, <2>10
<1> QED BY <1>3, <1>4

\* A value of one number.
LEMMA OneNumber ==
  ASSUME NEW x, Scalar(x), x.go \in DOMAIN Ints \cup {"instant"}
  PROVE  /\ x.v[1] \in Int /\ x.v = <<x.v[1]>> /\ x # nil
         /\ x = Go(x.go, x.v)
<1>1. x.v \in Seq(Int) /\ Len(x.v) = 1 BY DEF Scalar, Fits
<1>2. x.v[1] \in Int BY <1>1, ElementOfSeq
<1>3. x.v = <<x.v[1]>> BY <1>1
<1>4. x.go # "nil" BY IntsAre
<1>5. x # nil BY <1>4 DEF nil, Go
<1>6. x = Go(x.go, x.v) BY DEF Scalar
<1> QED BY <1>2, <1>3, <1>5, <1>6

LEMMA NumberSent ==
  ASSUME NEW x, Scalar(x), x.go \in DOMAIN Ints,
         NEW t \in {"INT32", "INT64", "UINT32", "UINT64", "FLOAT", "DOUBLE"}
  PROVE  /\ EncodeAtom(x, t) = Go("bytes", Digits(x.v[1], Ints[x.go]))
         /\ Through(x, t) = DecodeAtom(Digits(x.v[1], Ints[x.go]), t)
<1>1. x # nil BY OneNumber
<1>2. EncodeAtom(x, t) = ConvertInterfaceToBytes(x) BY <1>1 DEF EncodeAtom
<1>3. EncodeAtom(x, t) = Go("bytes", Digits(x.v[1], Ints[x.go])) BY <1>2 DEF ConvertInterfaceToBytes
<1>4. EncodeAtom(x, t).v = Digits(x.v[1], Ints[x.go]) BY <1>3 DEF Go
<1>5. Kept(x, t, EncodeAtom(x, t).v) = EncodeAtom(x, t).v BY DEF Kept
<1> QED BY <1>3, <1>4, <1>5 DEF Through

\* Integers with a sign: t is the type, g the Go type that it is read as.
LEMMA SignedValueBack ==
  ASSUME NEW x, Scalar(x), NEW k \in Nat \ {0}, NEW t, NEW g,
         \/ t = "INT32" /\ g = "int32" /\ k = Short /\ x.go \in {"int", "int32"} /\ InRange(x.v[1], "INT32")
         \/ t = "INT64" /\ g = "int64" /\ k = Long /\ x.go = "int64"
  PROVE  Through(x, t) = Expected(x, t)
<1>1. PICK n \in Int : n = x.v[1] /\ x.v = <<n>> /\ x # nil /\ x = Go(x.go, <<n>>) BY OneNumber, IntsAre
<1>2. InRange(n, t) BY <1>1, GoOfIs DEF Scalar, Fits
<1>3. 2 * n \in -Size(k) .. Size(k) - 2 BY <1>2 DEF InRange
<1>4. PICK b : b = Digits(n, k) OBVIOUS
<1>5. Through(x, t) = DecodeAtom(b, t) BY <1>1, <1>4, NumberSent, IntsAre
<1>6. Canonical(x, t) = Go(g, <<n>>) BY <1>1 DEF Canonical
<1>7. IsNull(t, b) <=> n = (Size(k) \div 2) - 1 BY <1>3, <1>4, NullsAre, SignedNull
<1>8. CASE IsNull(t, b)
  <2>1. DecodeAtom(b, t) = nil BY <1>8 DEF DecodeAtom
  <2>2. Unstorable(t) = {Go(g, <<(Size(k) \div 2) - 1>>)} BY GoOfIs DEF Unstorable
  <2> QED BY <1>1, <1>5, <1>6, <1>7, <1>8, <2>1, <2>2 DEF Expected
<1>9. CASE ~IsNull(t, b)
  <2>1. Signed(Read(b, k), k) = n BY <1>3, <1>4, ReadDigits, SignedBack
  <2>2. DecodeAtom(b, t) = Go(g, <<n>>) BY <1>9, <2>1 DEF DecodeAtom
  <2>3. Unstorable(t) = {Go(g, <<(Size(k) \div 2) - 1>>)} BY GoOfIs DEF Unstorable
  <2>4. Go(g, <<n>>) # Go(g, <<(Size(k) \div 2) - 1>>)
    <3>1. Go(g, <<n>>).v = <<n>> /\ Go(g, <<(Size(k) \div 2) - 1>>).v = <<(Size(k) \div 2) - 1>> BY DEF Go
    <3>2. <<n>>[1] = n /\ <<(Size(k) \div 2) - 1>>[1] = (Size(k) \div 2) - 1 OBVIOUS
    <3> QED BY <1>7, <1>9, <3>1, <3>2
  <2> QED BY <1>1, <1>5, <1>6, <2>2, <2>3, <2>4 DEF Expected
<1> QED BY <1>8, <1>9

\* Integers without a sign, and the bits of floats.
LEMMA UnsignedValueBack ==
  ASSUME NEW x, Scalar(x), NEW k \in Nat \ {0}, NEW t,
         \/ t = "UINT32" /\ x.go = "uint32" /\ k = Short
         \/ t = "UINT64" /\ x.go = "uint64" /\ k = Long
         \/ t = "FLOAT" /\ x.go = "float32" /\ k = Short /\ x.v[1] < Size(k) - 1
         \/ t = "DOUBLE" /\ x.go = "float64" /\ k = Long /\ x.v[1] < Size(k) - 1
  PROVE  Through(x, t) = Expected(x, t)
<1>1. PICK n \in Int, g \in {x.go} : g = x.go /\ n = x.v[1] /\ x.v = <<n>> /\ x # nil /\ x = Go(g, <<n>>)
      BY OneNumber, IntsAre
<1>2. n \in 0 .. Size(k) - 1
  <2>1. CASE t \in {"UINT32", "UINT64"}
    <3>1. InRange(n, t) BY <1>1, <2>1, GoOfIs DEF Scalar, Fits
    <3> QED BY <2>1, <3>1 DEF InRange
  <2>2. CASE t \in {"FLOAT", "DOUBLE"} BY <1>1, <2>2, IntsAre DEF Scalar, Fits
  <2> QED BY <2>1, <2>2
<1>3. PICK b : b = Digits(n, k) OBVIOUS
<1>4. Through(x, t) = DecodeAtom(b, t)
  <2>1. x.go \in DOMAIN Ints /\ Ints[x.go] = k /\ t \in {"UINT32", "UINT64", "FLOAT", "DOUBLE"} BY IntsAre
  <2>2. Through(x, t) = DecodeAtom(Digits(x.v[1], Ints[x.go]), t) BY <2>1, NumberSent
  <2> QED BY <1>1, <1>3, <2>1, <2>2
<1>5. Canonical(x, t) = Go(g, <<n>>) BY <1>1 DEF Canonical
<1>6. IsNull(t, b) <=> n = Size(k) - 1 BY <1>2, <1>3, NullsAre, UnsignedNull
<1>7. Unstorable(t) = IF t \in {"UINT32", "UINT64"} THEN {Go(g, <<Size(k) - 1>>)} ELSE {}
      BY <1>1, GoOfIs DEF Unstorable
<1>8. CASE IsNull(t, b)
  <2>1. DecodeAtom(b, t) = nil BY <1>8 DEF DecodeAtom
  <2>2. t \in {"UINT32", "UINT64"} BY <1>1, <1>6, <1>8
  <2> QED BY <1>1, <1>4, <1>5, <1>6, <1>7, <1>8, <2>1, <2>2 DEF Expected
<1>9. CASE ~IsNull(t, b)
  <2>1. Read(b, k) = n BY <1>2, <1>3, ReadBack
  <2>2. DecodeAtom(b, t) = Go(g, <<n>>) BY <1>1, <1>9, <2>1 DEF DecodeAtom
  <2>3. Go(g, <<n>>) # Go(g, <<Size(k) - 1>>)
    <3>1. Go(g, <<n>>).v = <<n>> /\ Go(g, <<Size(k) - 1>>).v = <<Size(k) - 1>> BY DEF Go
    <3>2. <<n>>[1] = n /\ <<Size(k) - 1>>[1] = Size(k) - 1 OBVIOUS
    <3> QED BY <1>6, <1>9, <3>1, <3>2
  <2> QED BY <1>1, <1>4, <1>5, <1>7, <2>2, <2>3 DEF Expected
<1> QED BY <1>8, <1>9

LEMMA ScalarRecord == ASSUME NEW x, Scalar(x) PROVE x = Go(x.go, x.v) /\ x.v \in Seq(Int)
BY DEF Scalar

LEMMA StringBack ==
  ASSUME NEW x, Scalar(x), NEW t \in {"STRING", "TEXT"}, x.go = "string"
  PROVE  Through(x, t) = Expected(x, t)
<1>1. PICK b : b = x.v /\ x = Go("string", b) BY ScalarRecord
<1>2. x # nil BY DEF nil, Go
<1>3. EncodeAtom(x, t) = ConvertInterfaceToBytes(x) BY <1>2 DEF EncodeAtom
<1>4. EncodeAtom(x, t) = Go("bytes", b) BY <1>1, <1>3, IntsAre DEF ConvertInterfaceToBytes
<1>5. Through(x, t) = DecodeAtom(b, t) BY <1>4 DEF Go, Kept, Through
<1>6. Canonical(x, t) = x BY IntsAre DEF Canonical
<1>7. Unstorable(t) = {Go("string", <<0>>)} BY DEF Unstorable
<1>8. x = Go("string", <<0>>) <=> b = <<0>> BY <1>1 DEF Go
<1>9. IsNull(t, b) <=> b = <<0>> BY NullsAre
<1>10. DecodeAtom(b, t) = IF b = <<0>> THEN nil ELSE x BY <1>1, <1>9 DEF DecodeAtom
<1> QED BY <1>2, <1>5, <1>6, <1>7, <1>8, <1>10 DEF Expected

LEMMA BlobBack ==
  ASSUME NEW x, Scalar(x), x.go = "bytes"
  PROVE  Through(x, "BLOB") = Expected(x, "BLOB")
<1>1. PICK b : b = x.v /\ x = Go("bytes", b) BY ScalarRecord
<1>2. x # nil BY DEF nil, Go
<1>3. EncodeAtom(x, "BLOB") = ConvertInterfaceToBytes(x) BY <1>2 DEF EncodeAtom
<1>4. EncodeAtom(x, "BLOB") = Go("bytes", b) BY <1>1, <1>3, IntsAre DEF ConvertInterfaceToBytes
<1>5. Through(x, "BLOB") = DecodeAtom(b, "BLOB") BY <1>4 DEF Go, Kept, Through
<1>6. Canonical(x, "BLOB") = x /\ Unstorable("BLOB") = {} BY IntsAre DEF Canonical, Unstorable
<1>7. GetNullBytes("BLOB") = <<>> BY NullTable DEF Tabled
<1>8. ~IsNull("BLOB", b) BY <1>7 DEF IsNull
<1>9. DecodeAtom(b, "BLOB") = x BY <1>1, <1>8 DEF DecodeAtom
<1> QED BY <1>2, <1>5, <1>6, <1>9 DEF Expected

LEMMA BoolBack ==
  ASSUME NEW x, Scalar(x), x.go = "bool"
  PROVE  Through(x, "BOOL") = Expected(x, "BOOL")
<1>1. PICK b : b = x.v /\ x = Go("bool", b) /\ b \in {<<0>>, <<1>>} BY ScalarRecord DEF Scalar, Fits
<1>2. x # nil BY DEF nil, Go
<1>3. PICK w : w = IF b = <<1>> THEN True ELSE False OBVIOUS
<1>4. EncodeAtom(x, "BOOL") = Go("bytes", w) BY <1>1, <1>2, <1>3 DEF EncodeAtom
<1>5. Through(x, "BOOL") = DecodeAtom(w, "BOOL") BY <1>4 DEF Go, Kept, Through
<1>6. Canonical(x, "BOOL") = x /\ Unstorable("BOOL") = {} BY IntsAre DEF Canonical, Unstorable
<1>7. <<0>> # <<1>> /\ <<3>> # <<4>> /\ <<3>> # <<2>> /\ <<4>> # <<2>> /\ <<3>> # <<>> /\ <<4>> # <<>> OBVIOUS
<1>8. ~IsNull("BOOL", w) /\ w # <<>> BY <1>3, <1>7, NullsAre DEF True, False
<1>9. DecodeAtom(w, "BOOL") = Go("bool", IF w = True THEN <<1>> ELSE <<0>>) BY <1>3, <1>8 DEF DecodeAtom
<1>10. (IF w = True THEN <<1>> ELSE <<0>>) = b BY <1>1, <1>3, <1>7 DEF True, False
<1> QED BY <1>1, <1>2, <1>5, <1>6, <1>9, <1>10 DEF Expected

LEMMA DecimalBack ==
  ASSUME NEW x, Scalar(x), x.go \in {"string", "int", "int64"}
  PROVE  Through(x, "DECIMAL") = Expected(x, "DECIMAL")
<1>1. x # nil BY DEF nil, Go
<1>2. GetNullBytes("DECIMAL") = <<>> BY NullTable DEF Tabled
<1>3. \A b : DecodeAtom(b, "DECIMAL") = IF b = <<>> THEN nil ELSE Go("string", b)
      BY <1>2 DEF DecodeAtom, IsNull
<1>4. Unstorable("DECIMAL") = {Go("string", <<>>)} BY DEF Unstorable
<1>5. CASE x.go = "string"
  <2>1. PICK b : b = x.v /\ x = Go("string", b) BY <1>5, ScalarRecord
  <2>2. EncodeAtom(x, "DECIMAL") = Go("bytes", b) BY <1>1, <1>5, <2>1, IntsAre DEF EncodeAtom
  <2>3. Through(x, "DECIMAL") = DecodeAtom(b, "DECIMAL") BY <2>2 DEF Go, Kept, Through
  <2>4. Canonical(x, "DECIMAL") = x BY <1>5, IntsAre DEF Canonical
  <2>5. x = Go("string", <<>>) <=> b = <<>> BY <2>1 DEF Go
  <2> QED BY <1>1, <1>3, <1>4, <2>1, <2>3, <2>4, <2>5 DEF Expected
<1>6. CASE x.go \in {"int", "int64"}
  <2>1. PICK b : b = DecimalText(x.v[1]) OBVIOUS
  <2>2. b # <<>> BY <2>1 DEF DecimalText
  <2>3. EncodeAtom(x, "DECIMAL") = Go("bytes", b) BY <1>1, <1>6, <2>1, IntsAre DEF EncodeAtom
  <2>4. Through(x, "DECIMAL") = DecodeAtom(b, "DECIMAL") BY <1>6, <2>3 DEF Go, Kept, Through
  <2>5. Canonical(x, "DECIMAL") = Go("string", b) BY <1>6, <2>1, IntsAre DEF Canonical
  <2>6. Go("string", b) # Go("string", <<>>) BY <2>2 DEF Go
  <2> QED BY <1>1, <1>3, <1>4, <2>2, <2>4, <2>5, <2>6 DEF Expected
<1> QED BY <1>5, <1>6

LEMMA NotEmpty == ASSUME NEW n \in Int, NEW k \in Nat \ {0} PROVE Digits(n, k) # <<>>
<1>1. Len(Digits(n, k)) = k BY DigitsSeq
<1>2. Len(<<>>) = 0 OBVIOUS
<1> QED BY <1>1, <1>2

LEMMA DatetimeBack ==
  ASSUME NEW x, Scalar(x), x.go = "time", x.v[1] \in 100 .. Limit
  PROVE  Through(x, "DATETIME") = Expected(x, "DATETIME")
<1>1. PICK f : f = x.v /\ x = Go("time", f) /\ Fields(f) BY ScalarRecord DEF Scalar, Fits
<1>2. x # nil BY DEF nil, Go
<1>3. PICK n \in Int : /\ n = TimeToUint64(f) /\ n \in 0 .. Size(Long) - 1 /\ n # 0 /\ n # Size(Long) - 1
                       /\ Uint64ToTime(n) = f
      BY <1>1, DateBack, Sizes, CodecAssumption
<1>4. PICK b : b = Digits(n, Long) OBVIOUS
<1>5. EncodeAtom(x, "DATETIME") = Go("bytes", b) BY <1>1, <1>2, <1>3, <1>4 DEF EncodeAtom
<1>6. Through(x, "DATETIME") = DecodeAtom(b, "DATETIME") BY <1>5 DEF Go, Kept, Through
<1>7. Canonical(x, "DATETIME") = x /\ Unstorable("DATETIME") = {} BY IntsAre DEF Canonical, Unstorable
<1>8. ~IsNull("DATETIME", b)
  <2>1. Digits(n, Long) = Ones(Long) <=> n = Size(Long) - 1 BY <1>3, CodecAssumption, UnsignedNull
  <2> QED BY <1>3, <1>4, <2>1, NullsAre
<1>9. b # <<>> BY <1>4, CodecAssumption, NotEmpty
<1>10. Read(b, Long) = n BY <1>3, <1>4, CodecAssumption, ReadBack
<1>11. DecodeAtom(b, "DATETIME") = x BY <1>1, <1>3, <1>8, <1>9, <1>10 DEF DecodeAtom
<1> QED BY <1>2, <1>6, <1>7, <1>11 DEF Expected

LEMMA TimestampBack ==
  ASSUME NEW x, Scalar(x), x.go = "instant", x.v[1] \div Second \in 0 .. Size(Short) - 2
  PROVE  Through(x, "TIMESTAMP") = Expected(x, "TIMESTAMP")
<1>1. x # nil BY DEF nil, Go
<1>2. PICK n \in Int : n = x.v[1] \div Second /\ n \in 0 .. Size(Short) - 1 /\ n # Size(Short) - 1
      BY Sizes, CodecAssumption
<1>3. PICK b : b = Digits(n, Short) OBVIOUS
<1>4. EncodeAtom(x, "TIMESTAMP") = Go("bytes", b) BY <1>1, <1>2, <1>3 DEF EncodeAtom
<1>5. Through(x, "TIMESTAMP") = DecodeAtom(b, "TIMESTAMP") BY <1>4 DEF Go, Kept, Through
<1>6. Canonical(x, "TIMESTAMP") = Go("instant", <<n * Second>>) /\ Unstorable("TIMESTAMP") = {}
      BY <1>2, IntsAre DEF Canonical, Unstorable
<1>7. ~IsNull("TIMESTAMP", b)
  <2>1. Digits(n, Short) = Ones(Short) <=> n = Size(Short) - 1 BY <1>2, CodecAssumption, UnsignedNull
  <2> QED BY <1>2, <1>3, <2>1, NullsAre
<1>8. b # <<>> BY <1>3, CodecAssumption, NotEmpty
<1>9. Read(b, Short) = n BY <1>2, <1>3, CodecAssumption, ReadBack
<1>10. DecodeAtom(b, "TIMESTAMP") = Go("instant", <<n * Second>>) BY <1>7, <1>8, <1>9 DEF DecodeAtom
<1> QED BY <1>1, <1>5, <1>6, <1>10 DEF Expected

\* The halves of what two numbers are written to.
LEMMA Halves ==
  ASSUME NEW S, NEW k \in Nat, NEW s \in Seq(S), NEW t \in Seq(S), Len(s) = k, Len(t) = k
  PROVE  /\ s \o t \in Seq(S) /\ Len(s \o t) = 2 * k
         /\ SubSeq(s \o t, 1, k) = s /\ SubSeq(s \o t, k + 1, 2 * k) = t
<1>0. PICK b : b = s \o t OBVIOUS
<1>1. b \in Seq(S) /\ Len(b) = 2 * k /\ \A i \in 1 .. 2 * k : b[i] = IF i <= k THEN s[i] ELSE t[i - k]
  <2>1. /\ b \in Seq(S) /\ Len(b) = Len(s) + Len(t)
        /\ \A i \in 1 .. Len(s) + Len(t) : b[i] = IF i <= Len(s) THEN s[i] ELSE t[i - Len(s)]
        BY <1>0, ConcatProperties
  <2> QED BY <2>1
<1>2. \A i \in 1 .. 2 * k : b[i] \in S BY <1>1, ElementOfSeq
<1>3. SubSeq(b, 1, k) = s
  <2>1. \A i \in 1 .. k : b[i] \in S BY <1>2
  <2>0. PICK u : u = SubSeq(b, 1, k) OBVIOUS
  <2>2. u \in Seq(S) /\ Len(u) = k /\ \A i \in 1 .. k : u[i] = b[i]
    <3>1. 1 \in Int /\ k \in Int OBVIOUS
    <3>2. /\ u \in Seq(S) /\ Len(u) = (IF 1 <= k THEN k - 1 + 1 ELSE 0)
          /\ \A i \in 1 .. k - 1 + 1 : u[i] = b[1 + i - 1]
          BY <2>0, <2>1, <3>1, SubSeqProperties
    <3> QED BY <3>2
  <2>3. \A i \in 1 .. k : u[i] = s[i] BY <1>1, <2>2
  <2> QED BY <2>0, <2>2, <2>3, SeqEqual
<1>4. SubSeq(b, k + 1, 2 * k) = t
  <2>1. \A i \in k + 1 .. 2 * k : b[i] \in S BY <1>2
  <2>0. PICK u : u = SubSeq(b, k + 1, 2 * k) OBVIOUS
  <2>2. u \in Seq(S) /\ Len(u) = k /\ \A i \in 1 .. k : u[i] = b[i + k]
    <3>1. k + 1 \in Int /\ 2 * k \in Int OBVIOUS
    <3>2. /\ u \in Seq(S) /\ Len(u) = (IF k + 1 <= 2 * k THEN 2 * k - (k + 1) + 1 ELSE 0)
          /\ \A i \in 1 .. 2 * k - (k + 1) + 1 : u[i] = b[(k + 1) + i - 1]
          BY <2>0, <2>1, <3>1, SubSeqProperties
    <3> QED BY <3>2
  <2>3. \A i \in 1 .. k : u[i] = t[i] BY <1>1, <2>2
  <2> QED BY <2>0, <2>2, <2>3, SeqEqual
<1> QED BY <1>0, <1>1, <1>3, <1>4

LEMMA PointBack ==
  ASSUME NEW x, Scalar(x), x.go = "point"
  PROVE  Through(x, "POINT") = Expected(x, "POINT")
<1>1. /\ x.v \in Seq(Int) /\ Len(x.v) = 2 /\ x # nil
      /\ Format(x.v[1]) \in 0 .. NaN - 1 /\ Format(x.v[2]) \in 0 .. NaN - 1
  <2>1. x # nil BY DEF nil, Go
  <2> QED BY <2>1, ScalarRecord DEF Scalar, Fits
<1>2. x.v[1] \in Int /\ x.v[2] \in Int BY <1>1, ElementOfSeq
<1>3. PICK a \in Int, c \in Int : a = Format(x.v[1]) /\ c = Format(x.v[2]) /\ Format(a) = a /\ Format(c) = c
      BY <1>2, FormatTwice
<1>4. PICK l \in Nat \ {0}, z \in Nat : l = Long /\ z = Size(l) /\ z >= 2 BY CodecAssumption, Sizes
<1>5. a \in 0 .. Size(l) - 1 /\ c \in 0 .. Size(l) - 1 /\ a # z - 1 /\ c # z - 1 /\ NaN = z - 1
      BY <1>1, <1>3, <1>4 DEF NaN
<1>6. PICK p, q, D : /\ p = Digits(a, l) /\ q = Digits(c, l) /\ D = 0 .. Base - 1
                     /\ p \in Seq(D) /\ q \in Seq(D) /\ Len(p) = l /\ Len(q) = l
      BY DigitsSeq
<1>7. PICK b : b = p \o q OBVIOUS
<1>8. Through(x, "POINT") = DecodeAtom(b, "POINT")
  <2>1. EncodeAtom(x, "POINT") = Go("bytes", <<a, c>>) BY <1>1, <1>3 DEF EncodeAtom
  <2>2. EncodeAtom(x, "POINT").v = <<a, c>> BY <2>1 DEF Go
  <2>3. Kept(x, "POINT", <<a, c>>) = b BY <1>4, <1>6, <1>7 DEF Kept
  <2> QED BY <2>2, <2>3 DEF Through
<1>9. Len(b) = 2 * l /\ SubSeq(b, 1, l) = p /\ SubSeq(b, l + 1, 2 * l) = q BY <1>6, <1>7, Halves
<1>10. Read(p, l) = a /\ Read(q, l) = c BY <1>5, <1>6, ReadBack
<1>11. b # Ones(2 * l)
  <2> SUFFICES ASSUME b = Ones(2 * l) PROVE FALSE
      OBVIOUS
  <2>1. ASSUME NEW i \in 1 .. l PROVE p[i] = b[i]
    <3>1. p \in Seq(D) /\ q \in Seq(D) BY <1>6
    <3>2. \A j \in 1 .. Len(p) + Len(q) : b[j] = IF j <= Len(p) THEN p[j] ELSE q[j - Len(p)]
          BY <1>7, <3>1, ConcatProperties
    <3> QED BY <1>6, <3>2
  <2>2. \A i \in 1 .. l : b[i] = Base - 1 BY DEF Ones
  <2>3. p = [i \in 1 .. l |-> Base - 1]
    <3>1. p \in [1 .. l -> D] BY <1>6, LenProperties
    <3> QED BY <2>1, <2>2, <3>1
  <2>4. Digits(a, l) = Ones(l) BY <1>6, <2>3 DEF Ones
  <2> QED BY <1>4, <1>5, <2>4, UnsignedNull
<1>12. ~IsNull("POINT", b) BY <1>4, <1>11, NullsAre
<1>13. AsPointString(b) = Go("point", <<a, c>>)
      BY <1>3, <1>4, <1>5, <1>9, <1>10 DEF AsPointString
<1>14. DecodeAtom(b, "POINT") = Go("point", <<a, c>>) BY <1>12, <1>13 DEF DecodeAtom
<1>15. Canonical(x, "POINT") = Go("point", <<a, c>>) /\ Unstorable("POINT") = {}
      BY <1>3, IntsAre DEF Canonical, Unstorable
<1> QED BY <1>1, <1>8, <1>14, <1>15 DEF Expected

\* All of them.
LEMMA ScalarBack ==
  ASSUME NEW x, NEW t, Scalar(x), Comparable(x, t)
  PROVE  Through(x, t) = Expected(x, t)
<1>1. t \in DOMAIN Own /\ x.go \in Own[t] BY DEF Comparable
<1>2. Short \in Nat \ {0} /\ Long \in Nat \ {0} BY CodecAssumption
<1>3. CASE t = "INT32"
  <2>1. x.go \in {"int", "int32"} BY <1>1, <1>3, OwnIs
  <2>2. InRange(x.v[1], "INT32") BY <1>3, <2>1, GoOfIs DEF Comparable, Scalar, Fits
  <2> QED BY <1>2, <1>3, <2>1, <2>2, SignedValueBack
<1>4. CASE t = "INT64" BY <1>1, <1>2, <1>4, OwnIs, SignedValueBack
<1>5. CASE t \in {"UINT32", "UINT64"} BY <1>1, <1>2, <1>5, OwnIs, UnsignedValueBack
<1>6. CASE t \in {"FLOAT", "DOUBLE"}
  <2>1. (t = "FLOAT" /\ x.go = "float32") \/ (t = "DOUBLE" /\ x.go = "float64") BY <1>1, <1>6, OwnIs
  <2>2. x.v[1] < Size(Ints[x.go]) - 1 BY <1>6 DEF Comparable
  <2> QED BY <1>2, <2>1, <2>2, IntsAre, UnsignedValueBack
<1>7. CASE t \in {"STRING", "TEXT"} BY <1>1, <1>7, OwnIs, StringBack
<1>8. CASE t = "BLOB" BY <1>1, <1>8, OwnIs, BlobBack
<1>9. CASE t = "BOOL" BY <1>1, <1>9, OwnIs, BoolBack
<1>10. CASE t = "DECIMAL" BY <1>1, <1>10, OwnIs, DecimalBack
<1>11. CASE t = "POINT" BY <1>1, <1>11, OwnIs, PointBack
<1>12. CASE t = "DATETIME" BY <1>1, <1>12, OwnIs, DatetimeBack DEF Comparable
<1>13. CASE t = "TIMESTAMP" BY <1>1, <1>13, OwnIs, TimestampBack DEF Comparable
<1> QED BY <1>1, <1>3, <1>4, <1>5, <1>6, <1>7, <1>8, <1>9, <1>10, <1>11, <1>12, <1>13, OwnIs
-----------------------------------------------------------------------------
(* Lists and sets *)

\* Nothing is an error to read but a point that is not two doubles, and a word for
\* a Boolean.
LEMMA Readable == ASSUME NEW b, NEW t, t \notin {"POINT", "BOOL"} PROVE DecodeAtom(b, t).go # "error"
<1>1. nil.go # "error" /\ panic.go # "error" BY DEF nil, panic, Go
<1>2. \A g, v : Go(g, v).go = g BY DEF Go
<1>3. CASE IsNull(t, b) \/ (b = <<>> /\ t \in {"DATETIME", "TIMESTAMP", "DECIMAL", "BOOL"})
      BY <1>1, <1>3 DEF DecodeAtom
<1>4. CASE ~(IsNull(t, b) \/ (b = <<>> /\ t \in {"DATETIME", "TIMESTAMP", "DECIMAL", "BOOL"}))
  <2>1. CASE t \in {"STRING", "TEXT", "DECIMAL", "BLOB"} BY <1>2, <1>4, <2>1 DEF DecodeAtom
  <2>2. CASE t \in {"INT32", "INT64", "UINT32", "UINT64", "FLOAT", "DOUBLE"} BY <1>2, <1>4, <2>2 DEF DecodeAtom
  <2>3. CASE t = "DATETIME" BY <1>2, <1>4, <2>3 DEF DecodeAtom
  <2>4. CASE t = "TIMESTAMP" BY <1>2, <1>4, <2>4 DEF DecodeAtom
  <2>5. CASE t \in {"LIST", "SET"} BY <1>1, <1>2, <1>4, <2>5 DEF DecodeAtom
  <2>6. CASE t \notin {"STRING", "TEXT", "DECIMAL", "BLOB", "INT32", "INT64", "UINT32", "UINT64", "FLOAT",
                       "DOUBLE", "DATETIME", "TIMESTAMP", "LIST", "SET"}
        BY <1>1, <1>4, <2>6 DEF DecodeAtom
  <2> QED BY <2>1, <2>2, <2>3, <2>4, <2>5, <2>6
<1> QED BY <1>3, <1>4

LEMMA ElementReadable ==
  ASSUME NEW y, NEW sub, Scalar(y) \/ y = Go("list", y.v), EncodeAtom(y, sub).go = "bytes",
         sub = "POINT" => Storable(y, sub)
  PROVE  Through(y, sub).go # "error"
<1>1. \A g, v : Go(g, v).go = g /\ Go(g, v).v = v BY DEF Go
<1>2. nil.go = "nil" /\ error.go = "error" BY DEF nil, error, Go
<1>3. CASE y = nil
  <2>1. sub # "MAP" BY <1>2 DEF EncodeAtom
  <2>2. Through(y, sub) = NullOf(sub) BY <1>3, <2>1, NilBack
  <2> QED BY <1>1, <1>2, <2>2 DEF NullOf
<1>4. CASE y # nil /\ sub = "POINT"
  <2>1. Comparable(y, sub) /\ y.go = "point" BY <1>4, OwnIs DEF Storable, Comparable
  <2>2. Scalar(y) BY <1>1, <2>1
  <2>3. Through(y, sub) = Expected(y, sub) BY <2>1, <2>2, ScalarBack
  <2>4. Canonical(y, sub).go = "point" BY <1>1, <1>4, <2>1, IntsAre DEF Canonical
  <2> QED BY <1>2, <1>4, <2>3, <2>4 DEF Expected
<1>5. CASE y # nil /\ sub = "BOOL"
  <2>1. PICK w : w = EncodeAtom(y, sub).v OBVIOUS
  <2>2. w \in {True, False} BY <1>1, <1>2, <1>5, <2>1 DEF EncodeAtom
  <2>3. Through(y, sub) = DecodeAtom(w, sub) BY <1>5, <2>1 DEF Through, Kept
  <2>4. <<3>> # <<>> /\ <<4>> # <<>> /\ <<3>> # <<2>> /\ <<4>> # <<2>> OBVIOUS
  <2>5. w # <<>> /\ ~IsNull("BOOL", w) BY <2>2, <2>4, NullsAre DEF True, False
  <2>6. DecodeAtom(w, sub) = Go("bool", IF w = True THEN <<1>> ELSE <<0>>) BY <1>5, <2>2, <2>5 DEF DecodeAtom
  <2> QED BY <1>1, <2>3, <2>6
<1>6. CASE sub \notin {"POINT", "BOOL"} BY <1>6, Readable DEF Through
<1> QED BY <1>3, <1>4, <1>5, <1>6

LEMMA NotNullData ==
  ASSUME NEW t \in {"LIST", "SET"}, NEW b, b # NullData
  PROVE  ~IsNull(t, b)
<1>1. CASE t = "LIST" BY <1>1, NullsAre
<1>2. CASE t = "SET"
  <2>1. GetNullBytes("SET") = <<>> BY NullTable DEF Tabled
  <2> QED BY <1>2, <2>1 DEF IsNull
<1> QED BY <1>1, <1>2

\* A list comes back with all its elements, each as it would come back alone.
LEMMA ListBack ==
  ASSUME NEW x, List(x), NEW t \in {"LIST", "SET"}, NEW sub,
         ConvertInterfaceToBytesSafe(x, t, sub).go = "bytes",
         sub = "POINT" => \A i \in DOMAIN x.v : Storable(x.v[i], "POINT"),
         NEW y, y = ConvertBytesToInterface(KeptData(x, sub, ConvertInterfaceToBytesSafe(x, t, sub).v), t, sub)
  PROVE  /\ y.go = "list" /\ Len(y.v) = Len(x.v)
         /\ \A i \in DOMAIN x.v : y.v[i] = Through(x.v[i], sub)
<1>1. \A g, v : Go(g, v).go = g /\ Go(g, v).v = v BY DEF Go
<1>2. x.go = "list" /\ x # nil /\ error.go = "error"
  <2>1. x.go = "list" BY <1>1 DEF List
  <2> QED BY <1>1, <2>1 DEF nil, error
<1>3. PICK s, S : s = x.v /\ s \in Seq(S) BY DEF List
<1>4. PICK n \in Nat : n = Len(s) /\ DOMAIN s = 1 .. n BY <1>3, LenProperties
<1>5. ConvertInterfaceToBytesSafe(x, t, sub) = SerializeData(x, sub) BY <1>2 DEF ConvertInterfaceToBytesSafe
<1>6. sub # "" /\ \A i \in 1 .. n : EncodeAtom(s[i], sub).go = "bytes"
      BY <1>2, <1>3, <1>4, <1>5 DEF SerializeData
<1>7. PICK e : e = [i \in 1 .. n |-> EncodeAtom(s[i], sub).v] OBVIOUS
<1>8. ConvertInterfaceToBytesSafe(x, t, sub).v = Data(e)
  <2>1. e = [i \in DOMAIN x.v |-> EncodeAtom(x.v[i], sub).v] BY <1>3, <1>4, <1>7
  <2>2. ~(sub = "" \/ x.go # "list" \/ \E i \in DOMAIN x.v : EncodeAtom(x.v[i], sub).go # "bytes")
        BY <1>2, <1>3, <1>4, <1>6
  <2>3. SerializeData(x, sub) = Go("bytes", Data(e)) BY <2>1, <2>2, Zenon DEF SerializeData
  <2> QED BY <1>1, <1>5, <2>3
<1>9. \A i \in 1 .. n : Scalar(s[i]) \/ s[i] = Go("list", s[i].v) BY <1>3, <1>4 DEF List
<1>10. PICK d : d = KeptData(x, sub, Data(e)) OBVIOUS
<1>11. y = ConvertBytesToInterface(d, t, sub) BY <1>8, <1>10
<1>12. <<0>> # <<1>> /\ NullData # <<>> /\ Len(NullData) = 1 /\ NullData[1] = <<1>> BY DEF NullData
<1>13. CASE n = 0
  <2>1. e = <<>> BY <1>7, <1>13
  <2>2. Data(e) = <<>> BY <2>1 DEF Data
  <2>3. d = <<>> BY <1>10, <2>2 DEF KeptData
  <2>4. y = Go("list", <<>>) BY <1>11, <1>12, <2>3, NotNullData DEF ConvertBytesToInterface, DeserializeData
  <2>5. Len(<<>>) = 0 OBVIOUS
  <2> QED BY <1>1, <1>3, <1>4, <1>13, <2>4, <2>5
<1>14. CASE n # 0
  <2>1. PICK E : e \in Seq(E) /\ << <<0>> >> \in Seq(E) /\ Len(e) = n
    <3>1. PICK E : E = {e[i] : i \in 1 .. n} \cup {<<0>>} OBVIOUS
    <3>2. e \in [1 .. n -> E] BY <1>7, <3>1
    <3>3. <<0>> \in E BY <3>1
    <3>4. e \in Seq(E) /\ Len(e) = n BY <3>2, FunctionIsSeq
    <3>5. << <<0>> >> \in Seq(E) BY <3>3
    <3> QED BY <3>4, <3>5
  <2>2. e # <<>>
    <3>1. Len(<<>>) = 0 OBVIOUS
    <3> QED BY <1>14, <2>1, <3>1
  <2>3. PICK a : a = << <<0>> >> \o e OBVIOUS
  <2>4. Data(e) = a BY <2>2, <2>3 DEF Data
  <2>5. a \in Seq(E) /\ Len(a) = n + 1 /\ a[1] = <<0>> /\ \A i \in 1 .. n : a[i + 1] = e[i]
    <3>1. PICK h : h = << <<0>> >> OBVIOUS
    <3>2. h \in Seq(E) /\ Len(h) = 1 /\ h[1] = <<0>> BY <2>1, <3>1
    <3>3. /\ h \o e \in Seq(E) /\ Len(h \o e) = Len(h) + Len(e)
          /\ \A i \in 1 .. Len(h) + Len(e) : (h \o e)[i] = IF i <= Len(h) THEN h[i] ELSE e[i - Len(h)]
          BY <2>1, <3>2, ConcatProperties
    <3>4. a = h \o e BY <2>3, <3>1
    <3>5. ASSUME NEW i \in 1 .. n PROVE a[i + 1] = e[i]
      <4>1. i + 1 \in 1 .. 1 + n /\ ~(i + 1 <= 1) /\ (i + 1) - 1 = i OBVIOUS
      <4> QED BY <2>1, <3>2, <3>3, <3>4, <4>1
    <3>6. a[1] = <<0>>
      <4>1. 1 \in 1 .. 1 + n OBVIOUS
      <4> QED BY <2>1, <3>2, <3>3, <3>4, <4>1
    <3> QED BY <2>1, <3>2, <3>3, <3>4, <3>5, <3>6
  <2>6. DOMAIN a = 1 .. n + 1 BY <2>5, LenProperties
  <2>7. d = [i \in 1 .. n + 1 |-> IF i = 1 THEN a[1] ELSE Kept(s[i - 1], sub, a[i])]
        BY <1>3, <1>10, <2>4, <2>6 DEF KeptData
  <2>8. d[1] = <<0>> /\ \A i \in 1 .. n : d[i + 1] = Kept(s[i], sub, EncodeAtom(s[i], sub).v)
    <3>1. d[1] = <<0>> BY <2>5, <2>7
    <3>2. ASSUME NEW i \in 1 .. n PROVE d[i + 1] = Kept(s[i], sub, EncodeAtom(s[i], sub).v)
      <4>1. i + 1 \in 1 .. n + 1 /\ i + 1 # 1 /\ (i + 1) - 1 = i OBVIOUS
      <4>2. d[i + 1] = Kept(s[i], sub, a[i + 1]) BY <2>7, <4>1
      <4> QED BY <1>7, <2>5, <4>2
    <3> QED BY <3>1, <3>2
  <2>9. Len(d) = n + 1
    <3>1. PICK V : V = {d[i] : i \in 1 .. n + 1} OBVIOUS
    <3>2. d \in [1 .. n + 1 -> V] BY <2>7, <3>1
    <3> QED BY <3>2, FunctionIsSeq
  <2>10. d # NullData /\ d # <<>>
    <3>1. d # NullData BY <1>12, <2>8
    <3>2. Len(<<>>) = 0 OBVIOUS
    <3> QED BY <2>9, <3>1, <3>2
  <2>11. \A i \in 1 .. n : DecodeAtom(d[i + 1], sub) = Through(s[i], sub) BY <2>8 DEF Through
  <2>12. \A i \in 1 .. n : Through(s[i], sub).go # "error"
        BY <1>3, <1>4, <1>6, <1>9, ElementReadable
  <2>13. ~\E i \in 2 .. Len(d) : DecodeAtom(d[i], sub) = error
    <3> SUFFICES ASSUME NEW i \in 2 .. Len(d) PROVE DecodeAtom(d[i], sub) # error
        OBVIOUS
    <3>1. i - 1 \in 1 .. n /\ (i - 1) + 1 = i BY <2>9
    <3> QED BY <1>2, <2>11, <2>12, <3>1
  <2>14. y = DeserializeData(d, sub) BY <1>11, <2>10, NotNullData DEF ConvertBytesToInterface
  <2>15. DeserializeData(d, sub) = Go("list", [i \in 1 .. Len(d) - 1 |-> DecodeAtom(d[i + 1], sub)])
        BY <1>6, <2>10, <2>13 DEF DeserializeData
  <2>16. Len(d) - 1 = n BY <2>9
  <2>17. PICK v : v = [i \in 1 .. n |-> DecodeAtom(d[i + 1], sub)] OBVIOUS
  <2>18. y = Go("list", v) BY <2>14, <2>15, <2>16, <2>17
  <2>19. Len(v) = n
    <3>1. PICK V : V = {v[i] : i \in 1 .. n} OBVIOUS
    <3>2. v \in [1 .. n -> V] BY <2>17, <3>1
    <3> QED BY <3>2, FunctionIsSeq
  <2>20. \A i \in 1 .. n : v[i] = Through(s[i], sub) BY <2>11, <2>17
  <2> QED BY <1>1, <1>3, <1>4, <2>18, <2>19, <2>20
<1> QED BY <1>13, <1>14
-----------------------------------------------------------------------------
(* Names and texts *)

ColumnOK(c) == /\ c = [type |-> c.type, sub |-> c.sub, extra |-> c.extra]
               /\ c.sub # "" => c.type \in {"LIST", "SET", "MAP"}
               /\ c.extra # <<>> => c.type = "DECIMAL"

\* A type that has a name is read back from it.
LEMMA NameBack ==
  ASSUME NEW c, ColumnOK(c), GetStringType(c).of # ""
  PROVE  SetTypeByString(GetStringType(c)) = c
<1>1. c = [type |-> c.type, sub |-> c.sub, extra |-> c.extra] BY DEF ColumnOK
<1>2. \A t : GetStringByPropertyType(t) # "" =>
        t \in Named /\ GetStringByPropertyType(t) = t /\ GetPropertyTypeByString(t) = t
      BY DEF GetStringByPropertyType, GetPropertyTypeByString
<1>3. NoName.of = "" BY DEF NoName, Name
<1>4. PICK n : n = GetStringType(c) /\ n.of # "" OBVIOUS
<1>5. CASE c.type = "LIST"
  <2>1. n = Name("list", GetStringByPropertyType(c.sub), <<>>) BY <1>3, <1>4, <1>5 DEF GetStringType
  <2>2. n.form = "list" /\ n.of = GetStringByPropertyType(c.sub) BY <2>1 DEF Name
  <2>3. n.of = c.sub /\ GetPropertyTypeByString(n.of) = c.sub BY <1>2, <1>4, <2>2
  <2>4. SetTypeByString(n) = [type |-> "LIST", sub |-> c.sub, extra |-> <<>>]
        BY <2>2, <2>3 DEF SetTypeByString
  <2>5. c.extra = <<>> BY <1>5 DEF ColumnOK
  <2> QED BY <1>1, <1>4, <1>5, <2>4, <2>5
<1>6. CASE c.type = "SET"
  <2>1. n = Name("set", GetStringByPropertyType(c.sub), <<>>) BY <1>3, <1>4, <1>6 DEF GetStringType
  <2>2. n.form = "set" /\ n.of = GetStringByPropertyType(c.sub) BY <2>1 DEF Name
  <2>3. n.of = c.sub /\ GetPropertyTypeByString(n.of) = c.sub BY <1>2, <1>4, <2>2
  <2>4. SetTypeByString(n) = [type |-> "SET", sub |-> c.sub, extra |-> <<>>]
        BY <1>4, <2>2, <2>3 DEF SetTypeByString
  <2>5. c.extra = <<>> BY <1>6 DEF ColumnOK
  <2> QED BY <1>1, <1>4, <1>6, <2>4, <2>5
<1>7. CASE c.type = "DECIMAL"
  <2>1. n = Name("decimal", "DECIMAL", c.extra) BY <1>3, <1>4, <1>7 DEF GetStringType
  <2>2. n.form = "decimal" /\ n.extra = c.extra BY <2>1 DEF Name
  <2>3. SetTypeByString(n) = [type |-> "DECIMAL", sub |-> "", extra |-> c.extra]
        BY <2>2 DEF SetTypeByString
  <2>4. c.sub = "" BY <1>7 DEF ColumnOK
  <2> QED BY <1>1, <1>4, <1>7, <2>3, <2>4
<1>8. CASE c.type \notin {"LIST", "SET", "DECIMAL"}
  <2>1. n = Name("plain", GetStringByPropertyType(c.type), <<>>) BY <1>4, <1>8 DEF GetStringType
  <2>2. n.form = "plain" /\ n.of = GetStringByPropertyType(c.type) BY <2>1 DEF Name
  <2>3. n.of = c.type /\ GetPropertyTypeByString(n.of) = c.type /\ c.type \in Named BY <1>2, <1>4, <2>2
  <2>4. SetTypeByString(n) = [type |-> c.type, sub |-> "", extra |-> <<>>]
        BY <2>2, <2>3 DEF SetTypeByString
  <2>5. c.sub = "" /\ c.extra = <<>> BY <1>8, <2>3 DEF ColumnOK, Named
  <2> QED BY <1>1, <1>4, <2>4, <2>5
<1> QED BY <1>5, <1>6, <1>7, <1>8

LEMMA Location ==
  ASSUME NEW req, req.offset \in Int, Zone(req.zone)
  PROVE  GetLocationFromConfig(req) \subseteq Int
<1>1. getLocationFromTimezone(req.zone) \subseteq Int
  <2>1. PICK z : z = req.zone /\ Zone(z) OBVIOUS
  <2>2. CASE z.kind = "offset" BY <2>1, <2>2 DEF Zone, getLocationFromTimezone
  <2>3. CASE z.kind = "name" BY <2>1, <2>3 DEF Zone, getLocationFromTimezone
  <2>4. CASE z.kind = "" BY <2>1, <2>4 DEF Zone, getLocationFromTimezone
  <2> QED BY <2>1, <2>2, <2>3, <2>4 DEF Zone
<1> QED BY <1>1 DEF GetLocationFromConfig

LEMMA Instant ==
  ASSUME NEW s, s.kind \in {"number", "date"}, NEW t, Text(s, t), NEW location \in SUBSET Int
  PROVE  InstantOf(s, location) \in Int
<1>1. CASE s.kind = "number" BY <1>1 DEF Text, InstantOf
<1>2. CASE s.kind = "date"
  <2>1. s.wall \in Int /\ s.zone \subseteq Int BY <1>2 DEF Text
  <2>2. PICK zone : zone = IF s.zone # {} THEN s.zone ELSE IF location # {} THEN location ELSE {Local} OBVIOUS
  <2>3. zone # {} /\ zone \subseteq Int BY <2>1, <2>2, CodecAssumption
  <2>4. PICK z \in Int : z = CHOOSE w \in zone : TRUE BY <2>3
  <2>5. InstantOf(s, location) = s.wall - Second * z BY <1>2, <2>2, <2>4 DEF InstantOf
  <2> QED BY <2>1, <2>5, CodecAssumption
<1> QED BY <1>1, <1>2

LEMMA FirstReplaced ==
  ASSUME NEW f \in Seq(Nat), Len(f) = 7, NEW y \in Nat, NEW h, h = [f EXCEPT ![1] = y]
  PROVE  /\ h \in Seq(Nat) /\ Len(h) = 7
         /\ \A j \in 1 .. 7 : h[j] = IF j = 1 THEN y ELSE f[j]
<1>1. f \in [1 .. 7 -> Nat] BY LenProperties
<1>2. h \in [1 .. 7 -> Nat] BY <1>1
<1>3. h \in Seq(Nat) /\ Len(h) = 7 BY <1>2, FunctionIsSeq
<1>4. \A j \in 1 .. 7 : h[j] = IF j = 1 THEN y ELSE f[j] BY <1>1
<1> QED BY <1>3, <1>4

LEMMA DateFields ==
  ASSUME NEW s, s.kind = "date", NEW t, Text(s, t)
  PROVE  Fields(FieldsOf(s))
<1>1. PICK f : f = s.fields /\ Fields(f) BY DEF Text
<1>2. f \in Seq(Nat) /\ Len(f) = 7 /\ f[1] \in Nat
  <2>1. f \in Seq(Nat) /\ Len(f) = 7 BY <1>1 DEF Fields
  <2>2. 1 \in 1 .. Len(f) BY <2>1
  <2> QED BY <2>1, <2>2, ElementOfSeq
<1>3. CASE s.twoDigits
  <2>1. PICK y \in Nat : y = ExpandYear(f[1]) BY <1>2 DEF ExpandYear
  <2>2. FieldsOf(s) = [f EXCEPT ![1] = y] BY <1>1, <1>3, <2>1 DEF FieldsOf
  <2>3. PICK h : h = [f EXCEPT ![1] = y] OBVIOUS
  <2>4. /\ h \in Seq(Nat) /\ Len(h) = 7
        /\ \A j \in 1 .. 7 : h[j] = IF j = 1 THEN y ELSE f[j]
    <3>1. Len(f) = 7 /\ f \in Seq(Nat) BY <1>2
    <3> QED BY <2>3, <3>1, FirstReplaced
  <2>5. h[2] = f[2] /\ h[3] = f[3] /\ \A i \in 1 .. 4 : h[3 + i] = f[3 + i] BY <2>4
  <2> QED BY <1>1, <2>2, <2>3, <2>4, <2>5 DEF Fields
<1>4. CASE ~s.twoDigits BY <1>1, <1>4 DEF FieldsOf
<1> QED BY <1>3, <1>4

LEMMA ScalarOfInts ==
  ASSUME NEW g \in {"nil", "int32", "int64", "uint32", "uint64", "time", "instant", "string"},
         NEW v \in Seq(Int), NEW x, x = Go(g, v), Fits(x)
  PROVE  Scalar(x)
<1>1. x.go = g /\ x.v = v BY DEF Go
<1>2. x.go \in Scalars BY <1>1, IntsAre DEF Scalars
<1> QED BY <1>1, <1>2 DEF Scalar

\* What is read from a text is a value that Go has.
LEMMA TextScalar ==
  ASSUME NEW s, NEW t, Text(s, t), NEW location \in SUBSET Int, NEW v, v = StringAsInterface(s, t, location)
  PROVE  v.go = "error" \/ Scalar(v)
<1>1. \A g, w : Go(g, w).go = g /\ Go(g, w).v = w BY DEF Go
<1>2. error.go = "error" BY <1>1 DEF error
<1>3. CASE s.kind = "blank" /\ t \notin {"DATETIME", "STRING", "TEXT"}
  <2>1. v = Go("nil", <<>>) BY <1>3 DEF StringAsInterface, nil
  <2>2. Fits(Go("nil", <<>>)) BY <1>1, IntsAre, GoOfIs DEF Fits
  <2>3. <<>> \in Seq(Int) OBVIOUS
  <2> QED BY <2>1, <2>2, <2>3, ScalarOfInts
<1>4. CASE t \in DOMAIN GoOf /\ s.kind # "blank"
  <2>1. CASE s.kind = "number" /\ InRange(s.n, t)
    <3>1. PICK n \in Int : n = s.n BY <2>1 DEF Text
    <3>2. v = Go(GoOf[t], <<n>>) BY <1>4, <2>1, <3>1, GoOfIs DEF StringAsInterface
    <3>3. GoOf[t] \in {"int32", "int64", "uint32", "uint64"} BY <1>4, GoOfIs
    <3>4. \A w \in DOMAIN GoOf : GoOf[w] = GoOf[t] => w = t BY <1>4, GoOfIs
    <3>5. Fits(Go(GoOf[t], <<n>>))
      <4>1. PICK x : x = Go(GoOf[t], <<n>>) OBVIOUS
      <4>2. x.go = GoOf[t] /\ x.v = <<n>> /\ Len(x.v) = 1 /\ x.v[1] = n BY <1>1, <4>1
      <4>3. \A w \in DOMAIN GoOf : x.go = GoOf[w] => InRange(x.v[1], w) BY <2>1, <3>1, <3>4, <4>2
      <4> QED BY <3>3, <4>1, <4>2, <4>3 DEF Fits
    <3>6. <<n>> \in Seq(Int) OBVIOUS
    <3> QED BY <3>2, <3>3, <3>5, <3>6, ScalarOfInts
  <2>2. CASE ~(s.kind = "number" /\ InRange(s.n, t)) BY <1>2, <1>4, <2>2, GoOfIs DEF StringAsInterface
  <2> QED BY <2>1, <2>2
<1>5. CASE t = "DATETIME"
  <2>1. \A f : Fields(f) => Scalar(Go("time", f))
    <3> SUFFICES ASSUME NEW f, Fields(f) PROVE Scalar(Go("time", f))
        OBVIOUS
    <3>1. Fits(Go("time", f)) BY <1>1, IntsAre, GoOfIs DEF Fits
    <3>2. f \in Seq(Int) BY SeqMonotonic DEF Fields
    <3> QED BY <3>1, <3>2, ScalarOfInts
  <2>2. CASE s.kind = "blank"
    <3>1. Fields(Epoch)
      <4>1. Epoch \in Seq(Nat) /\ Len(Epoch) = 7 BY DEF Epoch
      <4>2. Epoch[2] \in 1 .. 12 /\ Epoch[3] \in 1 .. 31 BY DEF Epoch
      <4>3. \A i \in 1 .. 4 : Epoch[3 + i] = 0 BY DEF Epoch
      <4>4. \A i \in 1 .. 4 : Epoch[3 + i] < Bits(i) BY <4>3, ClockBits
      <4> QED BY <4>1, <4>2, <4>4 DEF Fields
    <3> QED BY <1>5, <2>1, <2>2, <3>1, GoOfIs DEF StringAsInterface
  <2>3. CASE s.kind = "date"
    <3>1. v = Go("time", FieldsOf(s)) BY <1>5, <2>3, GoOfIs DEF StringAsInterface
    <3>2. Fields(FieldsOf(s)) BY <2>3, DateFields
    <3> QED BY <2>1, <3>1, <3>2
  <2>4. CASE s.kind \notin {"blank", "date"} BY <1>2, <1>5, <2>4, GoOfIs DEF StringAsInterface
  <2> QED BY <2>2, <2>3, <2>4
<1>6. CASE t = "TIMESTAMP" /\ s.kind # "blank"
  <2>1. CASE s.kind = "word" BY <1>2, <1>6, <2>1, GoOfIs DEF StringAsInterface
  <2>2. CASE s.kind \in {"number", "date"}
    <3>1. PICK n \in Int : n = InstantOf(s, location) BY <2>2, Instant
    <3>2. v = Go("instant", <<n>>) BY <1>6, <2>2, <3>1, GoOfIs DEF StringAsInterface
    <3>3. Fits(Go("instant", <<n>>)) BY <1>1, IntsAre, GoOfIs DEF Fits
    <3>4. <<n>> \in Seq(Int) OBVIOUS
    <3> QED BY <3>2, <3>3, <3>4, ScalarOfInts
  <2> QED BY <1>6, <2>1, <2>2 DEF Text
<1>7. CASE t \notin DOMAIN GoOf \cup {"DATETIME", "TIMESTAMP"} /\ ~(s.kind = "blank" /\ t \notin {"STRING", "TEXT"})
  <2>1. PICK w \in Seq(Int) : w = s.v BY <1>7 DEF Text
  <2>2. v = Go("string", w) BY <1>7, <2>1 DEF StringAsInterface
  <2>3. Fits(Go("string", w)) BY <1>1, IntsAre, GoOfIs DEF Fits
  <2> QED BY <2>2, <2>3, ScalarOfInts
<1> QED BY <1>3, <1>4, <1>5, <1>6, <1>7, GoOfIs
-----------------------------------------------------------------------------
(* The inductive invariant: what each stage has made of the input *)

Sent(v, c) == ConvertInterfaceToBytesSafe(v, c.type, c.sub)
AtServer(v, c) == IF c.type \in {"LIST", "SET"} /\ v # nil THEN KeptData(v, c.sub, Sent(v, c).v)
                  ELSE Kept(v, c.type, Sent(v, c).v)
Meaning(i) == IF "text" \in DOMAIN i THEN StringAsInterface(i.text, i.column.type, GetLocationFromConfig(i.req))
              ELSE i.value

StageInv ==
  /\ input \in Inputs /\ column = input.column
  /\ stage \in {"declare", "declared", "text", "value", "sent", "kept", "done", "failed"}
  /\ stage = "declared" => name = GetStringType(column) /\ name.of # ""
  /\ stage = "text" => "text" \in DOMAIN input
  /\ "text" \notin DOMAIN input => value = input.value
ValueInv ==
  /\ stage \in {"value", "sent", "kept", "done"} =>
       value = Meaning(input) /\ ("text" \in DOMAIN input => value.go # "error")
  /\ stage \in {"sent", "kept", "done"} => Sent(value, column).go = "bytes"
  /\ stage = "sent" => wire = Sent(value, column).v
  /\ stage = "kept" => wire = AtServer(value, column)
  /\ stage = "done" => back = ConvertBytesToInterface(AtServer(value, column), column.type, column.sub)
CodecInv == StageInv /\ ValueInv

LEMMA InputColumns == ASSUME NEW i \in Inputs PROVE ColumnOK(i.column)
BY InputsAssumption DEF ColumnOK

LEMMA CodecInit == Init => CodecInv
<1> SUFFICES ASSUME Init PROVE CodecInv
    OBVIOUS
<1>1. StageInv BY DEF Init, Value, StageInv
<1>2. ValueInv
  <2>1. stage \in {"declare", "text", "value"} /\ (stage = "value" => "text" \notin DOMAIN input)
        BY DEF Init, Value
  <2>2. "text" \notin DOMAIN input => value = input.value BY DEF Init
  <2> QED BY <2>1, <2>2 DEF ValueInv, Meaning
<1> QED BY <1>1, <1>2 DEF CodecInv

LEMMA CodecStep == CodecInv /\ [Next]_vars => CodecInv'
<1> SUFFICES ASSUME CodecInv, [Next]_vars PROVE CodecInv'
    OBVIOUS
<1> USE DEF CodecInv
<1>1. CASE Declare
  <2>1. StageInv' BY <1>1 DEF Declare, StageInv
  <2>2. stage' \in {"failed", "declared"} BY <1>1 DEF Declare
  <2> QED BY <2>1, <2>2 DEF ValueInv
<1>2. CASE Show
  <2>1. column' = column
    <3>1. input \in Inputs /\ column = input.column /\ name = GetStringType(column) /\ name.of # ""
          BY <1>2 DEF Show, StageInv
    <3>2. SetTypeByString(name) = column BY <3>1, InputColumns, NameBack
    <3> QED BY <1>2, <3>2 DEF Show
  <2>2. stage' = IF "text" \in DOMAIN input THEN "text" ELSE "value" BY <1>2 DEF Show, Value
  <2>3. StageInv' BY <1>2, <2>1, <2>2 DEF Show, StageInv
  <2>4. ValueInv'
    <3>1. stage' = "value" => "text" \notin DOMAIN input' /\ value' = input'.value
          BY <1>2, <2>2 DEF Show, StageInv
    <3> QED BY <2>2, <3>1 DEF ValueInv, Meaning
  <2> QED BY <2>3, <2>4
<1>3. CASE Parse
  <2>1. "text" \in DOMAIN input /\ column = input.column BY <1>3 DEF Parse, StageInv
  <2>2. StageInv' BY <1>3, <2>1 DEF Parse, StageInv
  <2>3. stage' \in {"failed", "value"} /\ (stage' = "value" => value'.go # "error") BY <1>3 DEF Parse
  <2>4. value' = Meaning(input') BY <1>3, <2>1 DEF Parse, Meaning
  <2> QED BY <2>2, <2>3, <2>4 DEF ValueInv
<1>4. CASE Encode
  <2>1. StageInv' BY <1>4 DEF Encode, StageInv
  <2>2. /\ stage' \in {"failed", "sent"} /\ value' = value /\ column' = column /\ input' = input
        /\ stage' = "sent" => Sent(value, column).go = "bytes" /\ wire' = Sent(value, column).v
        BY <1>4 DEF Encode, Sent
  <2>3. value = Meaning(input) /\ ("text" \in DOMAIN input => value.go # "error") BY <1>4 DEF Encode, ValueInv
  <2> QED BY <2>1, <2>2, <2>3 DEF ValueInv
<1>5. CASE Store
  <2>1. StageInv' BY <1>5 DEF Store, StageInv
  <2>2. stage = "sent" /\ stage' = "kept" /\ value' = value /\ column' = column /\ input' = input BY <1>5 DEF Store
  <2>3. wire = Sent(value, column).v BY <2>2 DEF ValueInv
  <2>4. wire' = AtServer(value, column) BY <1>5, <2>3 DEF Store, AtServer
  <2> QED BY <2>1, <2>2, <2>4 DEF ValueInv
<1>6. CASE Decode
  <2>1. StageInv' BY <1>6 DEF Decode, StageInv
  <2>2. stage = "kept" /\ stage' = "done" /\ value' = value /\ column' = column /\ input' = input BY <1>6 DEF Decode
  <2>3. back' = ConvertBytesToInterface(AtServer(value, column), column.type, column.sub)
        BY <1>6, <2>2 DEF Decode, ValueInv
  <2> QED BY <2>1, <2>2, <2>3 DEF ValueInv
<1>7. CASE UNCHANGED vars BY <1>7 DEF vars, StageInv, ValueInv
<1> QED BY <1>1, <1>2, <1>3, <1>4, <1>5, <1>6, <1>7 DEF Next

\* CodecInv is an invariant: at each stage between the text and the value read back
\* the column is the one that was declared, and the value and its bytes are those
\* that the stage before made of them.
THEOREM CodecInvariant == Spec => []CodecInv
<1>1. Init => CodecInv BY CodecInit
<1>2. CodecInv /\ [Next]_vars => CodecInv' BY CodecStep
<1> QED BY <1>1, <1>2, PTL DEF Spec

LEMMA ValueTypes ==
  ASSUME CodecInv, stage = "done"
  PROVE  Scalar(value) \/ ("text" \notin DOMAIN input /\ List(value))
<1>1. input \in Inputs /\ value = Meaning(input) BY DEF CodecInv, StageInv, ValueInv
<1>2. CASE "text" \in DOMAIN input
  <2>1. Text(input.text, input.column.type) /\ input.req.offset \in Int /\ Zone(input.req.zone)
        BY <1>1, <1>2, InputsAssumption
  <2>2. PICK location \in SUBSET Int : location = GetLocationFromConfig(input.req) BY <2>1, Location
  <2>3. value = StringAsInterface(input.text, input.column.type, location) BY <1>1, <1>2, <2>2 DEF Meaning
  <2>4. value.go # "error" BY <1>2 DEF CodecInv, ValueInv
  <2> QED BY <2>1, <2>3, <2>4, TextScalar
<1>3. CASE "text" \notin DOMAIN input BY <1>1, <1>3, InputsAssumption DEF Meaning
<1> QED BY <1>2, <1>3

\* A value that is no list has gone through its type alone.
LEMMA DoneScalar ==
  ASSUME CodecInv, stage = "done", column.type \notin {"LIST", "SET"}
  PROVE  back = Through(value, column.type) /\ EncodeAtom(value, column.type).go = "bytes"
<1>1. Sent(value, column) = EncodeAtom(value, column.type) BY DEF Sent, ConvertInterfaceToBytesSafe
<1>2. AtServer(value, column) = Kept(value, column.type, EncodeAtom(value, column.type).v)
      BY <1>1 DEF AtServer
<1>3. back = DecodeAtom(AtServer(value, column), column.type)
      BY DEF CodecInv, ValueInv, ConvertBytesToInterface
<1> QED BY <1>1, <1>2, <1>3 DEF Through, CodecInv, ValueInv

\* A value of a Go type that belongs to the property's type comes back as it was
\* written (serilizer.go), whatever the type, and whether the type was declared to
\* the server and read back or brought by the application; and so does each element
\* of a list or a set.
THEOREM RoundTrips == Spec => []RoundTrip
<1>1. CodecInv => RoundTrip
  <2> SUFFICES ASSUME CodecInv, stage = "done" PROVE RoundTrip
      BY DEF RoundTrip
  <2>1. column = input.column BY DEF CodecInv, StageInv
  <2>2. ASSUME Comparable(value, column.type) PROVE ComesBack(value, column.type, back)
    <3>1. column.type \notin {"LIST", "SET"} /\ value.go \in Own[column.type] BY <2>2, OwnIs DEF Comparable
    <3>2. value.go # "list" BY <2>2, <3>1, OwnIs DEF Comparable
    <3>3. Scalar(value)
      <4>1. List(value) => value.go = "list" BY DEF List, Go
      <4> QED BY <3>2, <4>1, ValueTypes
    <3>4. back = Through(value, column.type) BY <3>1, DoneScalar
    <3>5. back = Expected(value, column.type) BY <2>2, <3>3, <3>4, ScalarBack
    <3> QED BY <3>5 DEF ComesBack, Expected
  <2>3. ASSUME column.type \in {"LIST", "SET"}, value # nil,
               column.sub = "POINT" => \A i \in DOMAIN value.v : Storable(value.v[i], "POINT")
        PROVE  /\ back.go = "list" /\ Len(back.v) = Len(value.v)
               /\ \A i \in DOMAIN value.v : ComesBack(value.v[i], column.sub, back.v[i])
    <3>1. PICK t \in {"LIST", "SET"}, sub \in {column.sub} : t = column.type /\ sub = column.sub BY <2>3
    <3>2. ConvertInterfaceToBytesSafe(value, t, sub).go = "bytes" BY <3>1 DEF CodecInv, ValueInv, Sent
    <3>3. ConvertInterfaceToBytesSafe(value, t, sub) = SerializeData(value, sub)
          BY <2>3 DEF ConvertInterfaceToBytesSafe
    <3>4. value.go = "list" /\ \A i \in DOMAIN value.v : EncodeAtom(value.v[i], sub).go = "bytes"
      <4>1. error.go # "bytes" BY DEF error, Go
      <4> QED BY <3>2, <3>3, <4>1 DEF SerializeData
    <3>5. List(value)
      <4>1. Scalar(value) => value.go # "list" BY IntsAre DEF Scalar, Scalars
      <4> QED BY <3>4, <4>1, ValueTypes
    <3>6. back = ConvertBytesToInterface(KeptData(value, sub, ConvertInterfaceToBytesSafe(value, t, sub).v), t, sub)
          BY <2>3, <3>1 DEF CodecInv, ValueInv, AtServer, Sent
    <3>7. /\ back.go = "list" /\ Len(back.v) = Len(value.v)
          /\ \A i \in DOMAIN value.v : back.v[i] = Through(value.v[i], sub)
          BY <2>3, <3>1, <3>2, <3>5, <3>6, ListBack
    <3>8. ASSUME NEW i \in DOMAIN value.v, Storable(value.v[i], sub)
          PROVE  back.v[i] = Expected(value.v[i], sub)
      <4>1. PICK x : x = value.v[i] /\ back.v[i] = Through(x, sub) BY <3>7
      <4>2. CASE x = nil
        <5>1. sub # "MAP"
          <6>1. error.go # "bytes" BY DEF error, Go
          <6> QED BY <3>4, <4>1, <6>1 DEF EncodeAtom
        <5> QED BY <4>1, <4>2, <5>1, NilBack DEF Expected
      <4>3. CASE Comparable(x, sub)
        <5>1. x.go # "list" BY <4>3, OwnIs DEF Comparable
        <5>2. Scalar(x)
          <6>1. Scalar(x) \/ x = Go("list", x.v) BY <3>5, <4>1 DEF List
          <6> QED BY <5>1, <6>1 DEF Go
        <5> QED BY <4>1, <4>3, <5>2, ScalarBack
      <4> QED BY <3>8, <4>1, <4>2, <4>3 DEF Storable
    <3>9. \A i \in DOMAIN value.v : ComesBack(value.v[i], sub, back.v[i]) BY <3>8 DEF ComesBack, Expected
    <3> QED BY <3>1, <3>7, <3>9
  <2> QED BY <2>1, <2>2, <2>3 DEF RoundTrip
<1> QED BY <1>1, CodecInvariant, PTL

\* A null comes back as null, or empty where the type has no null (null.go).
THEOREM NullRoundTrips == Spec => []NullRoundTrip
<1>1. CodecInv => NullRoundTrip
  <2> SUFFICES ASSUME CodecInv, stage = "done", value = nil PROVE back = NullOf(column.type)
      BY DEF NullRoundTrip, CodecInv, StageInv
  <2>1. error.go # "bytes" BY DEF error, Go
  <2>2. CASE column.type \notin {"LIST", "SET"}
    <3>1. column.type # "MAP" BY <2>1, <2>2, DoneScalar DEF EncodeAtom
    <3>2. Through(nil, column.type) = NullOf(column.type) BY <3>1, NilBack
    <3> QED BY <2>2, <3>2, DoneScalar
  <2>3. CASE column.type \in {"LIST", "SET"}
    <3>1. PICK t \in {"LIST", "SET"} : t = column.type BY <2>3
    <3>2. PICK b : b = EncodeAtom(nil, t).v OBVIOUS
    <3>3. Sent(nil, column) = EncodeAtom(nil, t) BY <3>1 DEF Sent, ConvertInterfaceToBytesSafe
    <3>4. AtServer(nil, column) = b
      <4>1. AtServer(nil, column) = Kept(nil, t, b) BY <3>1, <3>2, <3>3 DEF AtServer
      <4> QED BY <3>1, <4>1 DEF Kept
    <3>5. back = ConvertBytesToInterface(b, t, column.sub) BY <3>1, <3>4 DEF CodecInv, ValueInv
    <3>6. CASE t = "LIST"
      <4>1. GetNullBytes(t) = <<NullData>> BY <3>6 DEF GetNullBytes
      <4>2. b = NullData BY <3>1, <3>2, <4>1 DEF EncodeAtom, Go
      <4>3. IsNull(t, b) BY <4>1, <4>2 DEF IsNull
      <4>4. back = nil BY <3>5, <4>3 DEF ConvertBytesToInterface, DecodeAtom
      <4> QED BY <3>1, <3>6, <4>4 DEF NullOf
    <3>7. CASE t = "SET"
      <4>1. GetNullBytes(t) = <<>> BY <3>7, NullTable DEF Tabled
      <4>2. b = <<>> BY <3>1, <3>2, <4>1 DEF EncodeAtom, Go
      <4>3. b # NullData BY <4>2 DEF NullData
      <4>4. back = Go("list", <<>>)
            BY <3>5, <3>7, <4>2, <4>3, NotNullData DEF ConvertBytesToInterface, DeserializeData
      <4> QED BY <3>1, <3>7, <4>4 DEF NullOf
    <3> QED BY <3>6, <3>7
  <2> QED BY <2>2, <2>3
<1> QED BY <1>1, CodecInvariant, PTL

\* A text for an integer is that integer, and a date for a timestamp is the instant
\* that it is in its zone, or in the one that the request means (StringAsInterface,
\* GetLocationFromConfig).
THEOREM TextsAreExact == Spec => []TextIsExact
<1>1. CodecInv => TextIsExact
  <2> SUFFICES ASSUME CodecInv, stage = "done", "text" \in DOMAIN input PROVE TextIsExact
      BY DEF TextIsExact
  <2>1. PICK s, t, req : s = input.text /\ t = input.column.type /\ req = input.req OBVIOUS
  <2>2. input \in Inputs /\ column.type = t BY <2>1 DEF CodecInv, StageInv
  <2>3. Text(s, t) /\ req.offset \in Int /\ Zone(req.zone) BY <2>1, <2>2, InputsAssumption
  <2>4. value = StringAsInterface(s, t, GetLocationFromConfig(req)) /\ value.go # "error"
        BY <2>1 DEF CodecInv, ValueInv, Meaning
  <2>5. Scalar(value) BY ValueTypes
  <2>6. \A g, v : Go(g, v).go = g /\ Go(g, v).v = v BY DEF Go
  <2>7. error.go = "error" BY <2>6 DEF error
  <2>8. ASSUME s.kind = "number", t \in DOMAIN GoOf
        PROVE  back = Go(GoOf[t], <<s.n>>) \/ (back = nil /\ value \in Unstorable(t))
    <3>1. value = Go(GoOf[t], <<s.n>>) BY <2>4, <2>7, <2>8, GoOfIs DEF StringAsInterface
    <3>2. value.go = GoOf[t] BY <2>6, <3>1
    <3>3. Comparable(value, t) BY <2>8, <3>2, GoOfIs, OwnIs DEF Comparable
    <3>4. t \notin {"LIST", "SET"} BY <2>8, GoOfIs
    <3>5. back = Expected(value, t) BY <2>2, <2>5, <3>3, <3>4, DoneScalar, ScalarBack
    <3>6. Canonical(value, t) = value BY <2>8, <3>2, GoOfIs DEF Canonical
    <3>7. value # nil BY <2>6, <2>8, <3>2, GoOfIs DEF nil
    <3> QED BY <3>1, <3>5, <3>6, <3>7 DEF Expected
  <2>9. ASSUME s.kind = "date", t = "TIMESTAMP", s.zone # {} \/ Clear(req), SecondOf(s, req) \in 0 .. Size(Short) - 2
        PROVE  back = Go("instant", <<SecondOf(s, req) * Second>>)
    <3>1. value = Go("instant", <<InstantOf(s, GetLocationFromConfig(req))>>)
          BY <2>4, <2>9, GoOfIs DEF StringAsInterface
    <3>2. InstantOf(s, GetLocationFromConfig(req)) \div Second = SecondOf(s, req)
      <4>1. PICK location : location = GetLocationFromConfig(req) OBVIOUS
      <4>2. s.zone = {} => (IF location # {} THEN location ELSE {Local}) = Meant(req)
        <5>1. CASE s.zone # {} BY <5>1
        <5>2. CASE req.offset # 0 BY <4>1, <5>2 DEF GetLocationFromConfig, Meant
        <5>3. CASE s.zone = {} /\ req.offset = 0 /\ req.zone.kind = "offset"
          <6>1. PICK n \in Int : n = req.zone.hhmm BY <2>3, <5>3 DEF Zone
          <6>2. n # 0 /\ n % 100 = 0 BY <2>9, <5>3, <6>1 DEF Clear
          <6>3. location = {n * 36} BY <4>1, <5>3, <6>1, <6>2 DEF GetLocationFromConfig, getLocationFromTimezone
          <6>4. Meant(req) = {(n \div 100) * 3600} BY <5>3, <6>1 DEF Meant
          <6>5. n * 36 = (n \div 100) * 3600 BY <6>2
          <6> QED BY <6>3, <6>4, <6>5
        <5>4. CASE req.offset = 0 /\ req.zone.kind = "name"
          <6>1. location = req.zone.known BY <4>1, <5>4 DEF GetLocationFromConfig, getLocationFromTimezone
          <6> QED BY <5>4, <6>1 DEF Meant
        <5>5. CASE req.offset = 0 /\ req.zone.kind = ""
          <6>1. location = {} BY <4>1, <5>5 DEF GetLocationFromConfig, getLocationFromTimezone
          <6> QED BY <5>5, <6>1 DEF Meant
        <5> QED BY <2>3, <5>1, <5>2, <5>3, <5>4, <5>5 DEF Zone
      <4>3. PICK zone : zone = IF s.zone # {} THEN s.zone ELSE Meant(req) OBVIOUS
      <4>4. zone = IF s.zone # {} THEN s.zone ELSE IF location # {} THEN location ELSE {Local} BY <4>2, <4>3
      <4>5. PICK z : z = CHOOSE w \in zone : TRUE OBVIOUS
      <4>6. InstantOf(s, location) = s.wall - Second * z BY <2>9, <4>4, <4>5 DEF InstantOf
      <4>7. SecondOf(s, req) = (s.wall - Second * z) \div Second BY <4>3, <4>5 DEF SecondOf
      <4> QED BY <4>1, <4>6, <4>7
    <3>3. value.go = "instant" /\ value.v[1] = InstantOf(s, GetLocationFromConfig(req))
      <4>1. value.v = <<InstantOf(s, GetLocationFromConfig(req))>> BY <2>6, <3>1
      <4> QED BY <2>6, <3>1, <4>1
    <3>4. value.v[1] \div Second = SecondOf(s, req) BY <3>2, <3>3
    <3>5. Through(value, "TIMESTAMP") = Expected(value, "TIMESTAMP") BY <2>5, <2>9, <3>3, <3>4, TimestampBack
    <3>6. back = Expected(value, "TIMESTAMP") BY <2>2, <2>9, <3>5, DoneScalar
    <3>7. Canonical(value, "TIMESTAMP") = Go("instant", <<SecondOf(s, req) * Second>>)
          BY <3>3, <3>4, IntsAre DEF Canonical
    <3>8. Unstorable("TIMESTAMP") = {} /\ value # nil BY <2>6, <3>3 DEF Unstorable, nil
    <3> QED BY <3>6, <3>7, <3>8 DEF Expected
  <2> QED BY <2>1, <2>8, <2>9 DEF TextIsExact
<1> QED BY <1>1, CodecInvariant, PTL
=============================================================================
