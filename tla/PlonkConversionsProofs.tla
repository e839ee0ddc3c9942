------------------------ MODULE PlonkConversionsProofs ------------------------
(***************************************************************************)
(* Proofs about the conversions of the Kimchi bindings, for all fields,    *)
(* circuits, proofs and values.                                            *)
(***************************************************************************)
EXTENDS PlonkConversions, SequenceTheorems, TLAPS

-----------------------------------------------------------------------------
(* Arithmetic modulo n                                                     *)

\* a and b are congruent modulo n.
Cong(n, a, b) == \E k \in Int : a = b + k * n

\* Division with remainder.
LEMMA Division ==
    ASSUME NEW a \in Int, NEW n \in Nat \ {0}
    PROVE  /\ a \div n \in Int
           /\ a % n \in 0 .. n - 1
           /\ a = (a % n) + (a \div n) * n
<1>1. a \div n \in Int /\ a % n \in 0 .. n - 1
      OBVIOUS
<1>2. a = (a % n) + (a \div n) * n
      OBVIOUS
<1> QED
      BY <1>1, <1>2

\* A number is congruent to its remainder.
LEMMA CongMod ==
    ASSUME NEW a \in Int, NEW n \in Nat \ {0}
    PROVE  Cong(n, a, a % n)
<1>1. /\ a \div n \in Int /\ a % n \in 0 .. n - 1
      /\ a = (a % n) + (a \div n) * n
      BY Division
<1> QED
      BY <1>1 DEF Cong

\* Congruence is symmetric.
LEMMA CongSym ==
    ASSUME NEW a \in Int, NEW b \in Int, NEW n \in Int, Cong(n, a, b)
    PROVE  Cong(n, b, a)
<1>1. PICK k \in Int : a = b + k * n
      BY DEF Cong
<1>2. -k \in Int /\ b = a + (-k) * n
      BY <1>1
<1> QED
      BY <1>2 DEF Cong

\* Congruence is transitive.
LEMMA CongTrans ==
    ASSUME NEW a \in Int, NEW b \in Int, NEW c \in Int, NEW n \in Int,
           Cong(n, a, b), Cong(n, b, c)
    PROVE  Cong(n, a, c)
<1>1. PICK k \in Int : a = b + k * n
      BY DEF Cong
<1>2. PICK m \in Int : b = c + m * n
      BY DEF Cong
<1>3. k + m \in Int /\ a = c + (k + m) * n
      BY <1>1, <1>2
<1> QED
      BY <1>3 DEF Cong

\* Sums and differences of congruent numbers are congruent.
LEMMA CongAdd ==
    ASSUME NEW a \in Int, NEW b \in Int, NEW c \in Int, NEW d \in Int, NEW n \in Int,
           Cong(n, a, b), Cong(n, c, d)
    PROVE  Cong(n, a + c, b + d) /\ Cong(n, a - c, b - d)
<1>1. PICK k \in Int : a = b + k * n
      BY DEF Cong
<1>2. PICK m \in Int : c = d + m * n
      BY DEF Cong
<1>3. k + m \in Int /\ a + c = b + d + (k + m) * n
      BY <1>1, <1>2
<1>4. k - m \in Int /\ a - c = b - d + (k - m) * n
      BY <1>1, <1>2
<1> QED
      BY <1>3, <1>4 DEF Cong

\* Products of congruent numbers are congruent.
LEMMA CongMul ==
    ASSUME NEW a \in Int, NEW b \in Int, NEW c \in Int, NEW d \in Int, NEW n \in Int,
           Cong(n, a, b), Cong(n, c, d)
    PROVE  Cong(n, a * c, b * d)
<1>1. PICK k \in Int : a = b + k * n
      BY DEF Cong
<1>2. PICK m \in Int : c = d + m * n
      BY DEF Cong
<1>3. a * c = (b + k * n) * (d + m * n)
      BY <1>1, <1>2
<1>4. (b + k * n) * (d + m * n) = b * d + (b * m + k * d + k * m * n) * n
      OBVIOUS
<1>5. b * m + k * d + k * m * n \in Int
      OBVIOUS
<1> QED
      BY <1>3, <1>4, <1>5 DEF Cong

\* Congruent remainders are equal.
LEMMA CongEqual ==
    ASSUME NEW n \in Nat \ {0}, NEW a \in 0 .. n - 1, NEW b \in 0 .. n - 1, Cong(n, a, b)
    PROVE  a = b
<1>1. PICK k \in Int : a = b + k * n
      BY DEF Cong
<1>2. CASE k >= 1
      <2>1. k * n >= n
            BY <1>2
      <2> QED
            BY <1>1, <2>1
<1>3. CASE k <= -1
      <2>1. k * n <= -n
            BY <1>3
      <2> QED
            BY <1>1, <2>1
<1>4. CASE k = 0
      BY <1>1, <1>4
<1> QED
      BY <1>2, <1>3, <1>4

\* Numbers are congruent exactly when their remainders are equal.
LEMMA CongIsMod ==
    ASSUME NEW a \in Int, NEW b \in Int, NEW n \in Nat \ {0}
    PROVE  Cong(n, a, b) <=> a % n = b % n
<1>1. a % n \in 0 .. n - 1 /\ b % n \in 0 .. n - 1
      BY Division
<1>2. Cong(n, a, a % n) /\ Cong(n, b, b % n)
      BY CongMod
<1>3. Cong(n, a % n, a) /\ Cong(n, b % n, b)
      BY <1>1, <1>2, CongSym
<1>4. ASSUME Cong(n, a, b) PROVE a % n = b % n
      <2>1. Cong(n, a % n, b)
            BY <1>1, <1>3, <1>4, CongTrans
      <2>2. Cong(n, a % n, b % n)
            BY <1>1, <1>2, <2>1, CongTrans
      <2> QED
            BY <1>1, <2>2, CongEqual
<1>5. ASSUME a % n = b % n PROVE Cong(n, a, b)
      BY <1>1, <1>2, <1>3, <1>5, CongTrans
<1> QED
      BY <1>4, <1>5

\* A factor that has an inverse may be cancelled.
LEMMA CongCancel ==
    ASSUME NEW a \in Int, NEW b \in Int, NEW r \in Int, NEW s \in Int, NEW n \in Nat \ {0},
           Cong(n, s * r, 1), Cong(n, a * r, b * r)
    PROVE  Cong(n, a, b)
<1>1. PICK k \in Int : s * r = 1 + k * n
      BY DEF Cong
<1>2. PICK m \in Int : a * r = b * r + m * n
      BY DEF Cong
<1>3. s * (a * r) = s * (b * r) + s * m * n
      BY <1>2
<1>4. s * (a * r) = a * (s * r) /\ s * (b * r) = b * (s * r)
      OBVIOUS
<1>5. a * (s * r) = a + (a * k) * n /\ b * (s * r) = b + (b * k) * n
      BY <1>1
<1>6. PICK c \in Int : c = b * k + s * m - a * k
      OBVIOUS
<1>7. c * n = (b * k) * n + s * m * n - (a * k) * n
      BY <1>6
<1>8. a + (a * k) * n = b + (b * k) * n + s * m * n
      BY <1>3, <1>4, <1>5
<1>9. PICK u \in Int, v \in Int, w \in Int : u = (a * k) * n /\ v = (b * k) * n /\ w = s * m * n
      OBVIOUS
<1>10. PICK t \in Int : t = c * n
      OBVIOUS
<1>11. a = b + t
      BY <1>7, <1>8, <1>9, <1>10
<1> QED
      BY <1>10, <1>11 DEF Cong

-----------------------------------------------------------------------------
(* Montgomery arithmetic                                                   *)

\* The reduction of t divides by R modulo the order.
LEMMA Reduction ==
    ASSUME NEW r \in Nat \ {0}, NEW p \in Nat, NEW t \in Nat, NEW k \in 0 .. r - 1,
           (k * p) % r = r - 1
    PROVE  LET u == (t + ((t * k) % r) * p) \div r
           IN  /\ u \in Nat
               /\ \E q \in 0 .. r - 1 : u * r = t + q * p
<1>0. PICK tk \in Int : tk = t * k
      OBVIOUS
<1>1. PICK q \in 0 .. r - 1 : q = tk % r
      BY Division
<1>2. PICK num \in Nat : num = t + q * p
      OBVIOUS
<1>3. Cong(r, q, tk)
      BY <1>1, CongMod, CongSym
<1>4. Cong(r, q * p, tk * p)
      <2>1. Cong(r, p, p)
            BY CongIsMod
      <2> QED
            BY <1>3, <2>1, CongMul
<1>5. Cong(r, k * p, -1)
      <2>1. PICK kp \in Int : kp = k * p
            OBVIOUS
      <2>2. Cong(r, kp, r - 1)
            BY <2>1, CongMod
      <2>3. Cong(r, r - 1, -1)
            <3>1. r - 1 = -1 + 1 * r
                  OBVIOUS
            <3> QED
                  BY <3>1 DEF Cong
      <2>4. Cong(r, kp, -1)
            BY <2>2, <2>3, CongTrans
      <2> QED
            BY <2>1, <2>4
<1>6. Cong(r, t * (k * p), t * (-1))
      <2>1. Cong(r, t, t)
            BY CongIsMod
      <2>2. k * p \in Int
            OBVIOUS
      <2> QED
            BY <1>5, <2>1, <2>2, CongMul
<1>7. t * (k * p) = tk * p /\ t * (-1) = -t
      BY <1>0
<1>8. Cong(r, q * p, -t)
      <2>1. PICK x \in Int, y \in Int : x = q * p /\ y = tk * p
            OBVIOUS
      <2>2. Cong(r, x, y) /\ Cong(r, y, -t)
            BY <1>4, <1>6, <1>7, <2>1
      <2>3. Cong(r, x, -t)
            BY <2>2, CongTrans
      <2> QED
            BY <2>1, <2>3
<1>9. PICK c \in Int : q * p = -t + c * r
      BY <1>8 DEF Cong
<1>10. num = c * r
      BY <1>2, <1>9
<1>11. c \in Nat
      <2>1. CASE c <= -1
            <3>1. c * r <= -r
                  BY <2>1
            <3> QED
                  BY <1>10, <3>1
      <2> QED
            BY <2>1
<1>12. num \div r = c
      <2>1. num = (num % r) + (num \div r) * r /\ num % r \in 0 .. r - 1 /\ num \div r \in Int
            BY Division
      <2>2. Cong(r, num, 0)
            <3>1. num = 0 + c * r
                  BY <1>10
            <3> QED
                  BY <3>1 DEF Cong
      <2>3. num % r = 0
            <3>1. num % r = 0 % r
                  BY <2>2, CongIsMod
            <3> QED
                  BY <3>1
      <2>4. (num \div r) * r = c * r
            BY <1>10, <2>1, <2>3
      <2> QED
            BY <2>1, <2>4
<1>13. c * r = t + q * p
      BY <1>2, <1>10
<1>14. (t + ((t * k) % r) * p) \div r = c
      BY <1>0, <1>1, <1>2, <1>12
<1> QED
      BY <1>11, <1>13, <1>14

\* The orders and the radix.
LEMMA FieldFacts ==
    ASSUME NEW f \in Fields
    PROVE  /\ Order[f] \in Nat \ {0} /\ R \in Nat \ {0} /\ 2 * Order[f] < R
           /\ \E k \in 0 .. R - 1 : (k * Order[f]) % R = R - 1
           /\ \A a \in 1 .. Order[f] - 1 : \E b \in 1 .. Order[f] - 1 : (a * b) % Order[f] = 1
           /\ \A c \in Operands : c \in 0 .. Order[f] - 1
BY OrderAssumption DEF Fields, R

LEMMA RedcFact ==
    ASSUME NEW f \in Fields, NEW t \in Nat
    PROVE  /\ Redc(f, t) \in Nat
           /\ \E q \in 0 .. R - 1 : Redc(f, t) * R = t + q * Order[f]
<1> DEFINE c == CHOOSE k \in 0 .. R - 1 : (k * Order[f]) % R = R - 1
<1>1. c \in 0 .. R - 1 /\ (c * Order[f]) % R = R - 1
      BY FieldFacts
<1>2. PICK r \in Nat \ {0}, p \in Nat \ {0} : r = R /\ p = Order[f]
      BY FieldFacts
<1>3. Redc(f, t) = (t + ((t * c) % R) * Order[f]) \div R
      BY DEF Redc
<1> HIDE DEF c
<1>4. PICK k \in 0 .. r - 1 : k = c /\ (k * p) % r = r - 1
      BY <1>1, <1>2
<1>5. /\ (t + ((t * k) % r) * p) \div r \in Nat
      /\ \E q \in 0 .. r - 1 : ((t + ((t * k) % r) * p) \div r) * r = t + q * p
      BY ONLY <1>4, Reduction, r \in Nat \ {0}, p \in Nat \ {0}, t \in Nat, k \in 0 .. r - 1, Zenon
<1>6. Redc(f, t) = (t + ((t * k) % r) * p) \div r
      BY <1>2, <1>3, <1>4
<1> QED
      BY <1>2, <1>5, <1>6

\* The radix has an inverse modulo the order.
LEMMA RadixInverse ==
    ASSUME NEW f \in Fields
    PROVE  \E s \in Int : Cong(Order[f], s * R, 1)
<1>1. PICK r \in Nat \ {0}, p \in Nat \ {0} : r = R /\ p = Order[f]
      BY FieldFacts
<1>2. PICK k \in 0 .. r - 1 : (k * p) % r = r - 1
      BY <1>1, FieldFacts
<1>3. PICK kp \in Int : kp = k * p
      OBVIOUS
<1>4. PICK d \in Int : kp = r - 1 + d * r
      <2>1. kp = (kp % r) + (kp \div r) * r /\ kp \div r \in Int
            BY Division
      <2> QED
            BY <1>2, <1>3, <2>1
<1>5. PICK s \in Int : s = d + 1
      OBVIOUS
<1>6. s * r = 1 + k * p
      BY <1>3, <1>4, <1>5
<1>7. Cong(p, s * r, 1)
      <2>1. k \in Int
            OBVIOUS
      <2> QED
            BY <1>6, <2>1 DEF Cong
<1> QED
      BY <1>1, <1>7

\* Cancelling the radix.
LEMMA CancelRadix ==
    ASSUME NEW f \in Fields, NEW a \in 0 .. Order[f] - 1, NEW b \in 0 .. Order[f] - 1,
           Cong(Order[f], a * R, b * R)
    PROVE  a = b
<1>1. PICK s \in Int : Cong(Order[f], s * R, 1)
      BY RadixInverse
<1>2. R \in Int /\ Order[f] \in Nat \ {0} /\ a \in Int /\ b \in Int
      BY FieldFacts
<1>3. Cong(Order[f], a, b)
      BY <1>1, <1>2, CongCancel
<1> QED
      BY <1>2, <1>3, CongEqual

\* into_repr returns the integer whose multiple by the radix is in memory.
LEMMA IntoRepr ==
    ASSUME NEW f \in Fields, NEW m \in 0 .. Order[f] - 1
    PROVE  /\ into_repr(f, m) \in 0 .. Order[f] - 1
           /\ Cong(Order[f], into_repr(f, m) * R, m)
<1>1. PICK r \in Nat \ {0}, p \in Nat \ {0} : r = R /\ p = Order[f]
      BY FieldFacts
<1>2. PICK u \in Nat : u = into_repr(f, m)
      BY <1>1, RedcFact DEF into_repr
<1>3. PICK q \in 0 .. r - 1 : u * r = m + q * p
      BY <1>1, <1>2, RedcFact DEF into_repr
<1>4. q * p <= (r - 1) * p
      OBVIOUS
<1>5. (r - 1) * p = r * p - p
      OBVIOUS
<1>6. u * r < p * r
      BY <1>1, <1>3, <1>4, <1>5
<1>7. u < p
      <2>1. CASE u >= p
            <3>1. u * r >= p * r
                  BY <2>1
            <3> QED
                  BY <1>6, <3>1
      <2> QED
            BY <2>1
<1>8. Cong(p, u * r, m)
      BY <1>3 DEF Cong
<1> QED
      BY <1>1, <1>2, <1>7, <1>8

LEMMA IntoReprIs ==
    ASSUME NEW f \in Fields, NEW m \in 0 .. Order[f] - 1, NEW x \in 0 .. Order[f] - 1,
           Cong(Order[f], x * R, m)
    PROVE  into_repr(f, m) = x
<1>1. PICK r \in Nat \ {0}, p \in Nat \ {0} : r = R /\ p = Order[f]
      BY FieldFacts
<1>2. PICK u \in 0 .. p - 1 : u = into_repr(f, m) /\ Cong(p, u * r, m)
      BY <1>1, IntoRepr
<1>3. u * r \in Int /\ x * r \in Int /\ m \in Int
      BY <1>1
<1>4. Cong(p, m, x * r)
      BY <1>1, <1>3, CongSym
<1>5. Cong(p, u * r, x * r)
      BY <1>2, <1>3, <1>4, CongTrans
<1> QED
      BY <1>1, <1>2, <1>5, CancelRadix

\* An integer below the order is the one that its element is turned into.
LEMMA FromRepr ==
    ASSUME NEW f \in Fields, NEW n \in 0 .. Order[f] - 1
    PROVE  /\ from_repr(f, n) = <<(n * R) % Order[f]>>
           /\ (n * R) % Order[f] \in 0 .. Order[f] - 1
           /\ into_repr(f, (n * R) % Order[f]) = n
<1>1. PICK r \in Nat \ {0}, p \in Nat \ {0} : r = R /\ p = Order[f]
      BY FieldFacts
<1>2. PICK nr \in Int : nr = n * r
      BY <1>1
<1>3. nr % p \in 0 .. p - 1 /\ Cong(p, nr, nr % p)
      BY Division, CongMod
<1>4. into_repr(f, nr % p) = n
      BY <1>1, <1>2, <1>3, IntoReprIs
<1>5. n < Order[f]
      BY <1>1
<1> QED
      BY <1>1, <1>2, <1>3, <1>4, <1>5 DEF from_repr

\* An element is the one that its integer is turned into.
LEMMA FromIntoRepr ==
    ASSUME NEW f \in Fields, NEW m \in 0 .. Order[f] - 1
    PROVE  from_repr(f, into_repr(f, m)) = <<m>>
<1>1. PICK r \in Nat \ {0}, p \in Nat \ {0} : r = R /\ p = Order[f]
      BY FieldFacts
<1>2. PICK u \in 0 .. p - 1 : u = into_repr(f, m) /\ Cong(p, u * r, m)
      BY <1>1, IntoRepr
<1>3. PICK ur \in Int : ur = u * r /\ Cong(p, ur, m)
      BY <1>2
<1>4. ur % p = m % p
      <2>1. m \in Int
            BY <1>1
      <2> QED
            BY <1>3, <2>1, CongIsMod
<1>5. m % p = m
      BY <1>1
<1> QED
      BY <1>1, <1>2, <1>3, <1>4, <1>5, FromRepr

-----------------------------------------------------------------------------
(* The operations of a field, on the integers of the elements              *)

LEMMA AddIs ==
    ASSUME NEW f \in Fields, NEW a \in 0 .. Order[f] - 1, NEW b \in 0 .. Order[f] - 1
    PROVE  /\ Add(f, a, b) \in 0 .. Order[f] - 1
           /\ into_repr(f, Add(f, a, b)) = (into_repr(f, a) + into_repr(f, b)) % Order[f]
<1>1. PICK r \in Nat \ {0}, p \in Nat \ {0} : r = R /\ p = Order[f] /\ 2 * p < r
      BY FieldFacts
<1>2. PICK x \in 0 .. p - 1 : x = into_repr(f, a) /\ Cong(p, x * r, a)
      BY <1>1, IntoRepr
<1>3. PICK y \in 0 .. p - 1 : y = into_repr(f, b) /\ Cong(p, y * r, b)
      BY <1>1, IntoRepr
<1>4. a \in Int /\ b \in Int /\ x * r \in Int /\ y * r \in Int /\ a + b \in 0 .. r - 1
      BY <1>1
<1>5. (a + b) % r = a + b
      BY <1>4
<1>6. Add(f, a, b) = IF a + b >= p THEN a + b - p ELSE a + b
      BY <1>1, <1>5 DEF Add, Reduce
<1>7. PICK s \in 0 .. p - 1 : s = Add(f, a, b)
      BY <1>1, <1>6
<1>8. Cong(p, a + b, s)
      <2>1. PICK k \in Int : k = IF a + b >= p THEN 1 ELSE 0
            OBVIOUS
      <2>2. k * p = IF a + b >= p THEN p ELSE 0
            BY <2>1
      <2>3. a + b = s + k * p
            BY <1>4, <1>6, <1>7, <2>2
      <2> QED
            BY <2>3 DEF Cong
<1>9. PICK z \in 0 .. p - 1 : z = (x + y) % p /\ Cong(p, x + y, z)
      <2>1. PICK xy \in Int : xy = x + y
            OBVIOUS
      <2>2. xy % p \in 0 .. p - 1 /\ Cong(p, xy, xy % p)
            BY Division, CongMod
      <2> QED
            BY <2>1, <2>2
<1>10. Cong(p, z, x + y)
      BY <1>9, CongSym
<1>11. Cong(p, z * r, (x + y) * r)
      <2>1. Cong(p, r, r)
            BY CongIsMod
      <2> QED
            BY <1>10, <2>1, CongMul
<1>12. (x + y) * r = x * r + y * r
      OBVIOUS
<1>13. Cong(p, x * r + y * r, a + b)
      BY <1>2, <1>3, <1>4, CongAdd
<1>14. Cong(p, z * r, s)
      <2>1. PICK t \in Int, u \in Int, v \in Int : t = z * r /\ u = x * r + y * r /\ v = a + b
            BY <1>4
      <2>2. Cong(p, t, u) /\ Cong(p, u, v) /\ Cong(p, v, s)
            BY <1>8, <1>11, <1>12, <1>13, <2>1
      <2>3. Cong(p, t, v)
            BY <2>2, CongTrans
      <2>4. Cong(p, t, s)
            BY <2>2, <2>3, CongTrans
      <2> QED
            BY <2>1, <2>4
<1>15. into_repr(f, s) = z
      BY <1>1, <1>14, IntoReprIs
<1> QED
      BY <1>1, <1>2, <1>3, <1>7, <1>9, <1>15

LEMMA SubIs ==
    ASSUME NEW f \in Fields, NEW a \in 0 .. Order[f] - 1, NEW b \in 0 .. Order[f] - 1
    PROVE  /\ Sub(f, a, b) \in 0 .. Order[f] - 1
           /\ into_repr(f, Sub(f, a, b)) = (into_repr(f, a) - into_repr(f, b)) % Order[f]
<1>1. PICK r \in Nat \ {0}, p \in Nat \ {0} : r = R /\ p = Order[f] /\ 2 * p < r
      BY FieldFacts
<1>2. PICK x \in 0 .. p - 1 : x = into_repr(f, a) /\ Cong(p, x * r, a)
      BY <1>1, IntoRepr
<1>3. PICK y \in 0 .. p - 1 : y = into_repr(f, b) /\ Cong(p, y * r, b)
      BY <1>1, IntoRepr
<1>4. a \in Int /\ b \in Int /\ x * r \in Int /\ y * r \in Int /\ a - b \in Int
      BY <1>1
<1>5. PICK d \in 0 .. p - 1 : d = IF b > a THEN a + p - b ELSE a - b
      BY <1>1
<1>6. Sub(f, a, b) = d
      <2>1. d % r = d
            BY <1>1
      <2> QED
            BY <1>1, <1>5, <2>1 DEF Sub
<1>8. Cong(p, a - b, d)
      <2>1. \E k \in {0, -1} : a - b = d + k * p
            BY <1>4, <1>5
      <2> QED
            BY <2>1 DEF Cong
<1>9. PICK z \in 0 .. p - 1 : z = (x - y) % p /\ Cong(p, x - y, z)
      <2>1. PICK xy \in Int : xy = x - y
            OBVIOUS
      <2>2. xy % p \in 0 .. p - 1 /\ Cong(p, xy, xy % p)
            BY Division, CongMod
      <2> QED
            BY <2>1, <2>2
<1>10. Cong(p, z, x - y)
      BY <1>9, CongSym
<1>11. Cong(p, z * r, (x - y) * r)
      <2>1. Cong(p, r, r)
            BY CongIsMod
      <2> QED
            BY <1>10, <2>1, CongMul
<1>12. (x - y) * r = x * r - y * r
      OBVIOUS
<1>13. Cong(p, x * r - y * r, a - b)
      BY <1>2, <1>3, <1>4, CongAdd
<1>14. Cong(p, z * r, d)
      <2>1. PICK t \in Int, u \in Int, v \in Int : t = z * r /\ u = x * r - y * r /\ v = a - b
            BY <1>4
      <2>2. Cong(p, t, u) /\ Cong(p, u, v) /\ Cong(p, v, d)
            BY <1>8, <1>11, <1>12, <1>13, <2>1
      <2>3. Cong(p, t, v)
            BY <2>2, CongTrans
      <2>4. Cong(p, t, d)
            BY <2>2, <2>3, CongTrans
      <2> QED
            BY <2>1, <2>4
<1>15. into_repr(f, d) = z
      BY <1>1, <1>14, IntoReprIs
<1> QED
      BY <1>1, <1>2, <1>3, <1>6, <1>9, <1>15

LEMMA MulIs ==
    ASSUME NEW f \in Fields, NEW a \in 0 .. Order[f] - 1, NEW b \in 0 .. Order[f] - 1
    PROVE  /\ Mul(f, a, b) \in 0 .. Order[f] - 1
           /\ into_repr(f, Mul(f, a, b)) = (into_repr(f, a) * into_repr(f, b)) % Order[f]
<1>1. PICK r \in Nat \ {0}, p \in Nat \ {0} : r = R /\ p = Order[f] /\ 2 * p < r
      BY FieldFacts
<1>2. PICK x \in 0 .. p - 1 : x = into_repr(f, a) /\ Cong(p, x * r, a)
      BY <1>1, IntoRepr
<1>3. PICK y \in 0 .. p - 1 : y = into_repr(f, b) /\ Cong(p, y * r, b)
      BY <1>1, IntoRepr
<1>4. PICK A \in 0 .. p - 1, B \in 0 .. p - 1 : A = a /\ B = b
      BY <1>1
<1>5. PICK ab \in Nat : ab = A * B
      OBVIOUS
<1>6. PICK u \in Nat : u = Redc(f, ab) /\ \E q \in 0 .. r - 1 : u * r = ab + q * p
      BY <1>1, RedcFact
<1>7. PICK q \in 0 .. r - 1 : u * r = ab + q * p
      BY <1>6
<1>8. u < 2 * p
      <2>1. A * B <= A * p
            OBVIOUS
      <2>2. A * p <= r * p
            BY <1>1
      <2>3. q * p <= r * p
            OBVIOUS
      <2>4. A * p < r * p
            BY <1>1
      <2>5. u * r < (2 * p) * r
            BY <1>5, <1>7, <2>1, <2>3, <2>4
      <2>6. CASE u >= 2 * p
            <3>1. u * r >= (2 * p) * r
                  BY <2>6
            <3> QED
                  BY <2>5, <3>1
      <2> QED
            BY <2>6
<1>9. PICK w \in 0 .. p - 1 : w = Mul(f, a, b) /\ (u = w \/ u = w + p)
      BY <1>1, <1>4, <1>5, <1>6, <1>8 DEF Mul, Reduce
<1>10. Cong(p, w * r, ab)
      <2>1. CASE u = w
            BY <1>7, <2>1 DEF Cong
      <2>2. CASE u = w + p
            <3>1. u * r = w * r + r * p
                  BY <2>2
            <3>2. PICK n \in Int : n = q - r
                  OBVIOUS
            <3>3. n * p = q * p - r * p
                  BY <3>2
            <3>4. w * r = ab + n * p
                  BY <1>7, <3>1, <3>3
            <3> QED
                  BY <3>4 DEF Cong
      <2> QED
            BY <1>9, <2>1, <2>2
<1>11. PICK xy \in Int : xy = x * y
      OBVIOUS
<1>12. PICK z \in 0 .. p - 1 : z = xy % p /\ Cong(p, xy, z)
      BY Division, CongMod
<1>13. PICK rr \in Int : rr = r * r
      OBVIOUS
<1>14. Cong(p, z * rr, xy * rr)
      <2>1. Cong(p, rr, rr)
            BY CongIsMod
      <2>2. Cong(p, z, xy)
            BY <1>12, CongSym
      <2> QED
            BY <2>1, <2>2, CongMul
<1>15. xy * rr = (x * r) * (y * r)
      BY <1>11, <1>13
<1>16. Cong(p, (x * r) * (y * r), ab)
      <2>1. PICK xr \in Int, yr \in Int : xr = x * r /\ yr = y * r
            OBVIOUS
      <2>2. Cong(p, xr * yr, A * B)
            BY <1>2, <1>3, <1>4, <2>1, CongMul
      <2> QED
            BY <1>5, <2>1, <2>2
<1>17. Cong(p, (z * r) * r, w * r)
      <2>1. PICK s \in Int, t \in Int, v \in Int : s = z * rr /\ t = xy * rr /\ v = w * r
            OBVIOUS
      <2>2. Cong(p, s, t) /\ Cong(p, t, ab) /\ Cong(p, v, ab)
            BY <1>10, <1>14, <1>15, <1>16, <2>1
      <2>3. Cong(p, s, ab) /\ Cong(p, ab, v)
            BY <2>2, CongTrans, CongSym
      <2>4. Cong(p, s, v)
            BY <2>3, CongTrans
      <2>5. s = (z * r) * r
            BY <1>13, <2>1
      <2> QED
            BY <2>1, <2>4, <2>5
<1>18. Cong(p, z * r, w)
      <2>1. PICK i \in Int : Cong(p, i * r, 1)
            BY <1>1, RadixInverse
      <2>2. PICK zr \in Int : zr = z * r
            OBVIOUS
      <2>3. Cong(p, zr * r, w * r)
            BY <1>17, <2>2
      <2>4. w \in Int /\ r \in Int
            OBVIOUS
      <2>5. Cong(p, zr, w)
            BY <2>1, <2>3, <2>4, CongCancel, Zenon
      <2> QED
            BY <2>2, <2>5
<1>19. into_repr(f, w) = z
      BY <1>1, <1>18, IntoReprIs
<1> QED
      BY <1>1, <1>2, <1>3, <1>9, <1>11, <1>12, <1>19

\* The memory of 0 is 0, and of no other element.
LEMMA ZeroIs ==
    ASSUME NEW f \in Fields, NEW m \in 0 .. Order[f] - 1
    PROVE  into_repr(f, m) = 0 <=> m = 0
<1>1. PICK r \in Nat \ {0}, p \in Nat \ {0} : r = R /\ p = Order[f]
      BY FieldFacts
<1>2. 0 \in 0 .. p - 1 /\ 0 * r = 0 /\ 0 % p = 0
      OBVIOUS
<1>3. from_repr(f, 0) = <<0>> /\ into_repr(f, 0) = 0
      BY <1>1, <1>2, FromRepr
<1>4. from_repr(f, into_repr(f, m)) = <<m>>
      BY FromIntoRepr
<1> QED
      BY <1>3, <1>4

\* The inverse of an element, and that quotients are what they should be.
LEMMA InverseIs ==
    ASSUME NEW f \in Fields, NEW a \in 0 .. Order[f] - 1, a # 0
    PROVE  /\ FieldInverse(f, a) \in 0 .. Order[f] - 1
           /\ (into_repr(f, a) * into_repr(f, FieldInverse(f, a))) % Order[f] = 1
<1>1. PICK r \in Nat \ {0}, p \in Nat \ {0} : r = R /\ p = Order[f]
      BY FieldFacts
<1>2. PICK x \in 1 .. p - 1 : x = into_repr(f, a)
      BY <1>1, IntoRepr, ZeroIs
<1>3. PICK y \in 1 .. p - 1 : (x * y) % p = 1
      BY <1>1, FieldFacts
<1>4. PICK b \in 0 .. p - 1 : into_repr(f, b) = y
      BY <1>1, FromRepr
<1>5. into_repr(f, Mul(f, a, b)) = 1
      BY <1>1, <1>2, <1>3, <1>4, MulIs
<1>6. /\ FieldInverse(f, a) \in 0 .. p - 1
      /\ into_repr(f, Mul(f, a, FieldInverse(f, a))) = 1
      BY <1>1, <1>5 DEF FieldInverse
<1> QED
      BY <1>1, <1>6, MulIs

\* With z the inverse of c, x / c is x * z.
LEMMA QuotientIs ==
    ASSUME NEW f \in Fields, NEW x \in 0 .. Order[f] - 1, NEW c \in 0 .. Order[f] - 1,
           NEW z \in 0 .. Order[f] - 1, (c * z) % Order[f] = 1
    PROVE  Quotient(f, x, c) = (x * z) % Order[f]
<1>1. PICK p \in Nat \ {0} : p = Order[f]
      BY FieldFacts
<1>2. PICK cz \in Int, xz \in Int : cz = c * z /\ xz = x * z
      BY <1>1
<1>3. PICK w \in 0 .. p - 1 : w = xz % p /\ Cong(p, xz, w)
      BY Division, CongMod
<1>4. p # 1
      <2>1. ASSUME p = 1 PROVE FALSE
            <3>1. cz % p \in 0 .. p - 1
                  BY Division
            <3> QED
                  BY <1>1, <1>2, <2>1, <3>1
      <2> QED
            BY <2>1
<1>5. Cong(p, cz, 1)
      <2>1. 1 % p = 1
            BY <1>4
      <2> QED
            BY <1>1, <1>2, <2>1, CongIsMod
<1>6. Cong(p, w * c, x)
      <2>1. PICK wc \in Int, xzc \in Int, xx \in Int : wc = w * c /\ xzc = xz * c /\ xx = x * cz
            BY <1>1
      <2>2. c \in Int /\ x \in Int /\ w \in Int
            BY <1>1
      <2>3. Cong(p, wc, xzc)
            <3>1. Cong(p, w, xz)
                  BY <1>3, <2>2, CongSym
            <3>2. Cong(p, c, c)
                  BY <2>2, CongIsMod
            <3> QED
                  BY <2>1, <2>2, <3>1, <3>2, CongMul
      <2>4. xzc = xx
            BY <1>2, <2>1, <2>2
      <2>5. Cong(p, xx, x)
            <3>1. Cong(p, x, x)
                  BY <2>2, CongIsMod
            <3>2. Cong(p, x * cz, x * 1)
                  BY <1>5, <2>2, <3>1, CongMul
            <3>3. x * 1 = x
                  BY <2>2
            <3> QED
                  BY <2>1, <3>2, <3>3
      <2>6. Cong(p, wc, x)
            BY <2>2, <2>3, <2>4, <2>5, CongTrans
      <2> QED
            BY <2>1, <2>6
<1>7. c % p # 0
      <2>1. ASSUME c = 0 PROVE FALSE
            <3>1. cz = 0
                  BY <1>1, <1>2, <2>1
            <3>2. cz % p = 0
                  BY <3>1
            <3> QED
                  BY <1>1, <1>2, <3>2
      <2> QED
            BY <1>1, <2>1
<1>8. \A y \in 0 .. p - 1 : (y * c) % p = x % p <=> y = w
      <2> TAKE y \in 0 .. p - 1
      <2>1. PICK yc \in Int, wc \in Int : yc = y * c /\ wc = w * c
            BY <1>1
      <2>2. c \in Int /\ x \in Int /\ z \in Int
            BY <1>1
      <2>3. wc % p = x % p
            BY <1>6, <2>1, <2>2, CongIsMod
      <2>4. ASSUME yc % p = x % p PROVE y = w
            <3>1. Cong(p, yc, wc)
                  BY <2>3, <2>4, CongIsMod
            <3>2. z * c = cz
                  BY <1>2, <2>2
            <3>3. Cong(p, z * c, 1) /\ Cong(p, y * c, w * c)
                  BY <1>5, <2>1, <3>1, <3>2
            <3>4. y \in Int /\ w \in Int
                  OBVIOUS
            <3>5. Cong(p, y, w)
                  BY <2>2, <3>3, <3>4, CongCancel, Zenon
            <3> QED
                  BY <3>5, CongEqual
      <2> QED
            BY <2>1, <2>3, <2>4
<1>9. Quotient(f, x, c) = CHOOSE y \in 0 .. p - 1 : (y * c) % p = x % p \/ c % p = 0
      BY <1>1 DEF Quotient
<1>10. Quotient(f, x, c) = w
      BY <1>7, <1>8, <1>9
<1> QED
      BY <1>1, <1>2, <1>3, <1>10

-----------------------------------------------------------------------------
(* Numbers keep their value                                                *)

\* v is what a build holds for the element x of the field f.
Holds(build, f, v, x) ==
    \E m \in 0 .. Order[f] - 1 :
      /\ v = IF build = "native" THEN m ELSE into_repr(f, m)
      /\ into_repr(f, m) = x

\* v, of that kind, stands for the number x.
StandsFor(build, kind, v, made_by, x) ==
    /\ kind \in {"none", "text", "bigint", "bytes"} \cup Fields
    /\ kind \in {"none", "text"} => v = x /\ x \in Nat
    /\ kind = "bigint" => v = x /\ x \in 0 .. R - 1
    /\ kind \in Fields => Holds(build, kind, v, x)
    /\ kind = "bytes" =>
         \/ made_by = "bigint" /\ v = x /\ x \in 0 .. R - 1
         \/ made_by \in Fields /\ build = "native" /\ v = x /\ x \in 0 .. Order[made_by] - 1
         \/ /\ made_by \in Fields /\ build = "wasm" /\ v \in 0 .. Order[made_by] - 1
            /\ into_repr(made_by, v) = x

Builds == {"native", "wasm"}

NumberInv ==
    /\ platform \in Builds
    /\ number.detours \cap Lossy = {} =>
         StandsFor(platform, number.kind, number.v, number.made_by, number.expected)

\* What a call returns has to stand for what is expected, if nothing was lost before.
LEMMA CallReturns ==
    ASSUME NumberInv, UNCHANGED platform,
           NEW kind, NEW result, NEW made_by, NEW expected, NEW detour,
           Becomes(kind, result, made_by, expected, detour),
           number.detours \cap Lossy = {} /\ detour \cap Lossy = {} /\ result # <<>> =>
             StandsFor(platform, kind, result[1], made_by, expected)
    PROVE  NumberInv'
<1>1. CASE result = <<>>
      <2>1. number' = number
            BY <1>1 DEF Becomes
      <2> QED
            BY <2>1 DEF NumberInv, Lossy
<1>2. CASE result # <<>>
      <2>1. number' = Number(kind, result[1], made_by, expected, number.detours \cup detour)
            BY <1>2 DEF Becomes
      <2>2. /\ number'.kind = kind /\ number'.v = result[1] /\ number'.made_by = made_by
            /\ number'.expected = expected /\ number'.detours = number.detours \cup detour
            BY <2>1 DEF Number
      <2>3. Lossy' = Lossy
            BY DEF Lossy
      <2>4. ASSUME number'.detours \cap Lossy = {}
            PROVE  StandsFor(platform, kind, result[1], made_by, expected)
            BY <1>2, <2>2, <2>4
      <2> QED
            BY <2>2, <2>3, <2>4 DEF NumberInv
<1> QED
      BY <1>1, <1>2

\* The same for an element.
LEMMA CallReturnsElement ==
    ASSUME NumberInv, UNCHANGED platform,
           NEW f \in Fields, NEW mem, NEW expected, NEW detour,
           BecomesField(f, mem, expected, detour),
           number.detours \cap Lossy = {} /\ detour \cap Lossy = {} /\ mem # <<>> =>
             mem[1] \in 0 .. Order[f] - 1 /\ into_repr(f, mem[1]) = expected
    PROVE  NumberInv'
<1> DEFINE result == IF mem = <<>> THEN <<>> ELSE <<IntoHost(f, mem[1])>>
<1>1. Becomes(f, result, "none", expected, detour)
      BY DEF BecomesField
<1>2. ASSUME number.detours \cap Lossy = {}, detour \cap Lossy = {}, result # <<>>
      PROVE  StandsFor(platform, f, result[1], "none", expected)
      <2>1. mem # <<>> /\ result[1] = IntoHost(f, mem[1])
            BY <1>2
      <2>2. mem[1] \in 0 .. Order[f] - 1 /\ into_repr(f, mem[1]) = expected
            BY <1>2, <2>1
      <2>3. Holds(platform, f, result[1], expected)
            BY <2>1, <2>2 DEF Holds, IntoHost
      <2>4. f \notin {"none", "text", "bigint", "bytes"}
            BY DEF Fields
      <2> QED
            BY <2>3, <2>4 DEF StandsFor
<1> HIDE DEF result
<1> QED
      BY <1>1, <1>2, CallReturns

\* The element that the program holds.
LEMMA HeldIs ==
    ASSUME NumberInv, NEW f \in Fields, number.kind = f, number.detours \cap Lossy = {}
    PROVE  \E m \in 0 .. Order[f] - 1 : Held(f) = <<m>> /\ into_repr(f, m) = number.expected
<1>1. Holds(platform, f, number.v, number.expected)
      BY DEF NumberInv, StandsFor
<1>2. PICK m \in 0 .. Order[f] - 1 :
        /\ number.v = IF platform = "native" THEN m ELSE into_repr(f, m)
        /\ into_repr(f, m) = number.expected
      BY <1>1 DEF Holds
<1>3. Held(f) = <<m>>
      BY <1>2, FromIntoRepr DEF Held, FromHost
<1> QED
      BY <1>2, <1>3

\* The conversions of integers.
LEMMA BigintStepInv ==
    ASSUME NumberInv, UNCHANGED platform, BigintStep
    PROVE  NumberInv'
<1>0. R \in Nat \ {0}
      BY FieldFacts DEF Fields
<1>1. CASE caml_bigint_256_of_numeral
      <2>1. /\ number.kind = "text"
            /\ Becomes("bigint", OfBiguint(number.v), "none", number.expected, TooLarge(number.v))
            BY <1>1 DEF caml_bigint_256_of_numeral
      <2>2. ASSUME number.detours \cap Lossy = {}, TooLarge(number.v) \cap Lossy = {},
                   OfBiguint(number.v) # <<>>
            PROVE  StandsFor(platform, "bigint", OfBiguint(number.v)[1], "none", number.expected)
            <3>1. number.v = number.expected /\ number.v \in Nat /\ platform \in Builds
                  BY <2>1, <2>2 DEF NumberInv, StandsFor
            <3>2. number.v < R
                  <4>1. CASE platform = "native"
                        BY <1>0, <2>2, <3>1, <4>1 DEF OfBiguint, native_of_biguint
                  <4>2. CASE platform = "wasm"
                        <5>1. "too large" \in Lossy
                              BY <4>2 DEF Lossy
                        <5>2. "too large" \notin TooLarge(number.v)
                              BY <2>2, <5>1
                        <5>3. ~ (number.v >= R)
                              BY <5>2 DEF TooLarge
                        <5> QED
                              BY <1>0, <3>1, <5>3
                  <4> QED
                        BY <3>1, <4>1, <4>2 DEF Builds
            <3>3. OfBiguint(number.v)[1] = number.v
                  BY <1>0, <3>1, <3>2 DEF OfBiguint, native_of_biguint, wasm_of_biguint
            <3> QED
                  BY <1>0, <3>1, <3>2, <3>3 DEF StandsFor, Fields
      <2> QED
            BY <2>1, <2>2, CallReturns
<1>2. CASE caml_bigint_256_to_string
      <2>1. /\ number.kind = "bigint"
            /\ Becomes("text", <<number.v>>, "none", number.expected, {})
            BY <1>2 DEF caml_bigint_256_to_string
      <2>2. ASSUME number.detours \cap Lossy = {}
            PROVE  StandsFor(platform, "text", <<number.v>>[1], "none", number.expected)
            BY <1>0, <2>1, <2>2 DEF NumberInv, StandsFor, Fields
      <2> QED
            BY <2>1, <2>2, CallReturns
<1>3. CASE caml_bigint_256_to_bytes
      <2>1. /\ number.kind = "bigint"
            /\ Becomes("bytes", <<number.v>>, "bigint", number.expected, {})
            BY <1>3 DEF caml_bigint_256_to_bytes
      <2>2. ASSUME number.detours \cap Lossy = {}
            PROVE  StandsFor(platform, "bytes", <<number.v>>[1], "bigint", number.expected)
            BY <1>0, <2>1, <2>2 DEF NumberInv, StandsFor, Fields
      <2> QED
            BY <2>1, <2>2, CallReturns
<1>4. CASE caml_bigint_256_of_bytes
      <2> DEFINE detour == IF number.made_by \in Fields THEN {"element as integer"} ELSE {}
      <2>1. /\ number.kind = "bytes"
            /\ Becomes("bigint", <<number.v>>, "none", number.expected, detour)
            BY <1>4 DEF caml_bigint_256_of_bytes
      <2>2. ASSUME number.detours \cap Lossy = {}, detour \cap Lossy = {}
            PROVE  StandsFor(platform, "bigint", <<number.v>>[1], "none", number.expected)
            <3>1. platform \in Builds
                  BY DEF NumberInv
            <3>2. StandsFor(platform, "bytes", number.v, number.made_by, number.expected)
                  BY <2>1, <2>2 DEF NumberInv
            <3>3. platform = "wasm" => number.made_by \notin Fields
                  BY <2>2 DEF Lossy
            <3>4. number.v = number.expected /\ number.v \in 0 .. R - 1
                  <4>1. CASE number.made_by = "bigint"
                        BY <3>2, <4>1 DEF StandsFor, Fields
                  <4>2. CASE number.made_by \in Fields
                        <5>1. /\ number.v = number.expected
                              /\ number.v \in 0 .. Order[number.made_by] - 1
                              BY <3>2, <3>3, <4>2 DEF StandsFor, Fields
                        <5> QED
                              BY <4>2, <5>1, FieldFacts
                  <4> QED
                        BY <3>2, <4>1, <4>2 DEF StandsFor
            <3> QED
                  BY <3>4 DEF StandsFor, Fields
      <2> HIDE DEF detour
      <2> QED
            BY <2>1, <2>2, CallReturns
<1>5. CASE \E c \in Operands : caml_bigint_256_div(c)
      <2>1. PICK c \in Operands : caml_bigint_256_div(c)
            BY <1>5
      <2>2. c \in Nat
            BY FieldFacts DEF Fields
      <2> DEFINE result == IF c = 0 THEN <<>> ELSE OfBiguint(number.v \div c)
                 expected == IF c = 0 THEN 0 ELSE number.expected \div c
      <2>3. number.kind = "bigint" /\ Becomes("bigint", result, "none", expected, {})
            BY <2>1 DEF caml_bigint_256_div
      <2>4. ASSUME number.detours \cap Lossy = {}, result # <<>>
            PROVE  StandsFor(platform, "bigint", result[1], "none", expected)
            <3>1. number.v = number.expected /\ number.v \in 0 .. R - 1
                  BY <2>3, <2>4 DEF NumberInv, StandsFor
            <3>2. PICK n \in 0 .. R - 1, d \in Nat \ {0} : n = number.v /\ d = c
                  BY <2>2, <2>4, <3>1
            <3>3. n \div d \in Nat /\ n \div d <= n
                  <4>1. n \div d \in Int /\ n % d \in 0 .. d - 1 /\ n = (n % d) + (n \div d) * d
                        BY Division
                  <4>2. PICK e \in Int : e = n \div d
                        BY <4>1
                  <4>3. CASE e <= -1
                        <5>1. e * d <= -d
                              BY <4>3
                        <5> QED
                              BY <1>0, <4>1, <4>2, <5>1
                  <4>4. CASE e >= 0
                        <5>1. e * d >= e
                              BY <4>4
                        <5> QED
                              BY <1>0, <4>1, <4>2, <4>4, <5>1
                  <4> QED
                        BY <4>3, <4>4
            <3>4. PICK e \in 0 .. R - 1 : e = n \div d
                  BY <1>0, <3>3
            <3>5. OfBiguint(e) = <<e>>
                  BY <1>0 DEF OfBiguint, native_of_biguint, wasm_of_biguint
            <3> QED
                  BY <3>1, <3>2, <3>4, <3>5 DEF StandsFor, Fields
      <2> HIDE DEF result, expected
      <2> QED
            BY <2>3, <2>4, CallReturns
<1> QED
      BY <1>1, <1>2, <1>3, <1>4, <1>5 DEF BigintStep

\* Every result of the arithmetic is what it should be.
LEMMA ResultsAreRight ==
    ASSUME NumberInv, NEW f \in Fields, NEW c \in Operands, NEW res \in Results(f, c),
           number.kind = f, number.detours \cap Lossy = {}
    PROVE  res.mem \in 0 .. Order[f] - 1 /\ into_repr(f, res.mem) = res.is
<1>1. PICK m \in 0 .. Order[f] - 1 : Held(f) = <<m>> /\ into_repr(f, m) = number.expected
      BY HeldIs
<1>2. PICK p \in Nat \ {0} : p = Order[f]
      BY FieldFacts
<1>3. c \in 0 .. p - 1
      BY <1>2, FieldFacts
<1>4. PICK d \in 0 .. p - 1 : d = from_repr(f, c)[1] /\ into_repr(f, d) = c
      BY <1>2, <1>3, FromRepr
<1>5. PICK x \in 0 .. p - 1 : x = number.expected /\ into_repr(f, m) = x
      BY <1>1, <1>2, IntoRepr
<1>6. m \in 0 .. p - 1 /\ m % p = m
      BY <1>2
<1>7. \/ res = [mem |-> Add(f, m, d), is |-> (x + c) % p]
      \/ res = [mem |-> Sub(f, m, d), is |-> (x - c) % p]
      \/ res = [mem |-> Mul(f, m, d), is |-> (x * c) % p]
      \/ res = [mem |-> Mul(f, m, m), is |-> (x * x) % p]
      \/ res = [mem |-> Sub(f, 0, m), is |-> (0 - x) % p]
      \/ c # 0 /\ res = [mem |-> Mul(f, m, FieldInverse(f, d)), is |-> Quotient(f, x, c)]
      \/ m # 0 /\ res = [mem |-> FieldInverse(f, m), is |-> Quotient(f, 1, x)]
      BY <1>1, <1>2, <1>4, <1>5, <1>6 DEF Results
<1>8. CASE res = [mem |-> Add(f, m, d), is |-> (x + c) % p]
      <2>1. /\ Add(f, m, d) \in 0 .. Order[f] - 1
            /\ into_repr(f, Add(f, m, d)) = (into_repr(f, m) + into_repr(f, d)) % Order[f]
            BY <1>2, AddIs
      <2> QED
            BY <1>2, <1>4, <1>5, <1>8, <2>1
<1>9. CASE res = [mem |-> Sub(f, m, d), is |-> (x - c) % p]
      <2>1. /\ Sub(f, m, d) \in 0 .. Order[f] - 1
            /\ into_repr(f, Sub(f, m, d)) = (into_repr(f, m) - into_repr(f, d)) % Order[f]
            BY <1>2, SubIs
      <2> QED
            BY <1>2, <1>4, <1>5, <1>9, <2>1
<1>10. CASE res = [mem |-> Mul(f, m, d), is |-> (x * c) % p]
      <2>1. /\ Mul(f, m, d) \in 0 .. Order[f] - 1
            /\ into_repr(f, Mul(f, m, d)) = (into_repr(f, m) * into_repr(f, d)) % Order[f]
            BY <1>2, MulIs
      <2> QED
            BY <1>2, <1>4, <1>5, <1>10, <2>1
<1>11. CASE res = [mem |-> Mul(f, m, m), is |-> (x * x) % p]
      BY <1>2, <1>5, <1>11, MulIs
<1>12. CASE res = [mem |-> Sub(f, 0, m), is |-> (0 - x) % p]
      <2>1. 0 \in 0 .. p - 1 /\ into_repr(f, 0) = 0
            BY <1>2, ZeroIs
      <2>2. /\ Sub(f, 0, m) \in 0 .. Order[f] - 1
            /\ into_repr(f, Sub(f, 0, m)) = (into_repr(f, 0) - into_repr(f, m)) % Order[f]
            BY <1>2, <2>1, SubIs
      <2> QED
            BY <1>2, <1>5, <1>12, <2>1, <2>2
<1>13. CASE c # 0 /\ res = [mem |-> Mul(f, m, FieldInverse(f, d)), is |-> Quotient(f, x, c)]
      <2>1. d # 0
            BY <1>2, <1>4, <1>13, ZeroIs
      <2>2. PICK e \in 0 .. p - 1 : e = FieldInverse(f, d) /\ (c * into_repr(f, e)) % p = 1
            BY <1>2, <1>4, <2>1, InverseIs
      <2>3. PICK z \in 0 .. p - 1 : z = into_repr(f, e)
            BY <1>2, IntoRepr
      <2>4. Quotient(f, x, c) = (x * z) % p
            BY <1>2, <1>3, <2>2, <2>3, QuotientIs
      <2>5. Mul(f, m, e) \in 0 .. p - 1 /\ into_repr(f, Mul(f, m, e)) = (x * z) % p
            <3>1. /\ Mul(f, m, e) \in 0 .. Order[f] - 1
                  /\ into_repr(f, Mul(f, m, e)) = (into_repr(f, m) * into_repr(f, e)) % Order[f]
                  BY <1>2, MulIs
            <3> QED
                  BY <1>2, <1>5, <2>3, <3>1
      <2> QED
            BY <1>2, <1>13, <2>2, <2>4, <2>5
<1>14. CASE m # 0 /\ res = [mem |-> FieldInverse(f, m), is |-> Quotient(f, 1, x)]
      <2>1. PICK e \in 0 .. p - 1 : e = FieldInverse(f, m) /\ (x * into_repr(f, e)) % p = 1
            BY <1>2, <1>5, <1>14, InverseIs
      <2>2. PICK z \in 0 .. p - 1 : z = into_repr(f, e)
            BY <1>2, IntoRepr
      <2>3. 1 \in 0 .. p - 1
            BY <1>6, <1>14
      <2>4. Quotient(f, 1, x) = (1 * z) % p
            BY <1>2, <2>1, <2>2, <2>3, QuotientIs
      <2>5. (1 * z) % p = z
            OBVIOUS
      <2> QED
            BY <1>2, <1>14, <2>1, <2>2, <2>4, <2>5
<1> QED
      BY <1>7, <1>8, <1>9, <1>10, <1>11, <1>12, <1>13, <1>14

\* The conversions of elements, and arithmetic.
LEMMA FieldStepInv ==
    ASSUME NumberInv, UNCHANGED platform, NEW f \in Fields, FieldStep(f)
    PROVE  NumberInv'
<1>0. PICK p \in Nat \ {0} : p = Order[f] /\ R \in Nat \ {0} /\ 2 * p < R
      BY FieldFacts
<1>1. CASE \E i \in Ints : caml_pasta_of_int(f, i)
      <2>1. PICK i \in Ints : caml_pasta_of_int(f, i)
            BY <1>1
      <2> DEFINE mem == from_repr(f, i % 2 ^ WordBits)
                 detour == IF i < 0 THEN {"negative"} ELSE {}
      <2>2. BecomesField(f, mem, i, detour)
            BY <2>1 DEF caml_pasta_of_int
      <2>3. ASSUME detour \cap Lossy = {}
            PROVE  mem[1] \in 0 .. Order[f] - 1 /\ into_repr(f, mem[1]) = i
            <3>1. "negative" \in Lossy
                  BY DEF Lossy
            <3>2. ~ (i < 0)
                  BY <2>3, <3>1
            <3>3. i \in Int /\ i < 2 ^ WordBits /\ 2 ^ WordBits \in Nat /\ 2 ^ WordBits < Order[f]
                  BY OrderAssumption DEF Fields
            <3>4. i % 2 ^ WordBits = i /\ i \in 0 .. Order[f] - 1
                  BY <1>0, <3>2, <3>3
            <3> QED
                  BY <3>4, FromRepr
      <2> HIDE DEF mem, detour
      <2> QED
            BY <2>2, <2>3, CallReturnsElement
<1>2. CASE \E x \in Operands : Generated(f, x)
      <2>1. PICK x \in Operands : Generated(f, x)
            BY <1>2
      <2>2. BecomesField(f, from_repr(f, x), x, {})
            BY <2>1 DEF Generated
      <2>3. /\ from_repr(f, x)[1] \in 0 .. Order[f] - 1
            /\ into_repr(f, from_repr(f, x)[1]) = x
            BY FieldFacts, FromRepr
      <2> QED
            BY <2>2, <2>3, CallReturnsElement
<1>3. CASE caml_pasta_of_string(f)
      <2> DEFINE n == OfBiguint(number.v)
                 mem == IF n = <<>> THEN <<>> ELSE from_repr(f, n[1])
      <2>1. number.kind = "text" /\ BecomesField(f, mem, number.expected, TooLarge(number.v))
            BY <1>3 DEF caml_pasta_of_string
      <2>2. ASSUME number.detours \cap Lossy = {}, TooLarge(number.v) \cap Lossy = {},
                   mem # <<>>
            PROVE  mem[1] \in 0 .. Order[f] - 1 /\ into_repr(f, mem[1]) = number.expected
            <3>1. number.v = number.expected /\ number.v \in Nat /\ platform \in Builds
                  BY <2>1, <2>2 DEF NumberInv, StandsFor
            <3>2. n # <<>> /\ mem = from_repr(f, n[1])
                  BY <2>2
            <3>3. n[1] = number.v
                  <4>1. CASE platform = "native"
                        BY <3>2, <4>1 DEF OfBiguint, native_of_biguint
                  <4>2. CASE platform = "wasm"
                        <5>1. "too large" \in Lossy
                              BY <4>2 DEF Lossy
                        <5>2. "too large" \notin TooLarge(number.v)
                              BY <2>2, <5>1
                        <5>3. ~ (number.v >= R)
                              BY <5>2 DEF TooLarge
                        <5>4. number.v % R = number.v
                              BY <1>0, <3>1, <5>3
                        <5> QED
                              BY <4>2, <5>4 DEF OfBiguint, wasm_of_biguint
                  <4> QED
                        BY <3>1, <4>1, <4>2 DEF Builds
            <3>4. number.v \in 0 .. Order[f] - 1
                  BY <1>0, <2>2, <3>1, <3>2, <3>3 DEF from_repr
            <3> QED
                  BY <3>1, <3>2, <3>3, <3>4, FromRepr
      <2> HIDE DEF mem
      <2> QED
            BY <2>1, <2>2, CallReturnsElement
<1>4. CASE caml_pasta_to_string(f)
      <2> DEFINE result == IF Held(f) = <<>> THEN <<>> ELSE <<into_repr(f, Held(f)[1])>>
      <2>1. number.kind = f /\ Becomes("text", result, "none", number.expected, {})
            BY <1>4 DEF caml_pasta_to_string
      <2>2. ASSUME number.detours \cap Lossy = {}
            PROVE  StandsFor(platform, "text", result[1], "none", number.expected)
            <3>1. PICK m \in 0 .. Order[f] - 1 :
                    Held(f) = <<m>> /\ into_repr(f, m) = number.expected
                  BY <2>1, <2>2, HeldIs
            <3>2. into_repr(f, m) \in Nat
                  BY <1>0, IntoRepr
            <3> QED
                  BY <3>1, <3>2 DEF StandsFor, Fields
      <2> HIDE DEF result
      <2> QED
            BY <2>1, <2>2, CallReturns
<1>5. CASE caml_pasta_of_bigint(f)
      <2>1. number.kind = "bigint" /\ BecomesField(f, from_repr(f, number.v), number.expected, {})
            BY <1>5 DEF caml_pasta_of_bigint
      <2>2. ASSUME number.detours \cap Lossy = {}, from_repr(f, number.v) # <<>>
            PROVE  /\ from_repr(f, number.v)[1] \in 0 .. Order[f] - 1
                   /\ into_repr(f, from_repr(f, number.v)[1]) = number.expected
            <3>1. number.v = number.expected /\ number.v \in 0 .. R - 1
                  BY <2>1, <2>2 DEF NumberInv, StandsFor
            <3>2. number.v \in 0 .. Order[f] - 1
                  BY <1>0, <2>2, <3>1 DEF from_repr
            <3> QED
                  BY <3>1, <3>2, FromRepr
      <2> QED
            BY <2>1, <2>2, CallReturnsElement
<1>6. CASE caml_pasta_to_bigint(f)
      <2> DEFINE result == IF Held(f) = <<>> THEN <<>> ELSE <<into_repr(f, Held(f)[1])>>
      <2>1. number.kind = f /\ Becomes("bigint", result, "none", number.expected, {})
            BY <1>6 DEF caml_pasta_to_bigint
      <2>2. ASSUME number.detours \cap Lossy = {}
            PROVE  StandsFor(platform, "bigint", result[1], "none", number.expected)
            <3>1. PICK m \in 0 .. Order[f] - 1 :
                    Held(f) = <<m>> /\ into_repr(f, m) = number.expected
                  BY <2>1, <2>2, HeldIs
            <3>2. into_repr(f, m) \in 0 .. R - 1
                  BY <1>0, IntoRepr
            <3> QED
                  BY <3>1, <3>2 DEF StandsFor, Fields
      <2> HIDE DEF result
      <2> QED
            BY <2>1, <2>2, CallReturns
<1>7. CASE caml_pasta_of_bytes(f)
      <2> DEFINE detour == IF number.made_by = f THEN {"own bytes"} ELSE {"foreign bytes"}
      <2>1. number.kind = "bytes" /\ BecomesField(f, <<number.v>>, number.expected, detour)
            BY <1>7 DEF caml_pasta_of_bytes
      <2>2. ASSUME number.detours \cap Lossy = {}, detour \cap Lossy = {}
            PROVE  /\ <<number.v>>[1] \in 0 .. Order[f] - 1
                   /\ into_repr(f, <<number.v>>[1]) = number.expected
            <3>1. "foreign bytes" \in Lossy /\ (platform = "native" => "own bytes" \in Lossy)
                  BY DEF Lossy
            <3>2. number.made_by = f /\ platform # "native"
                  BY <2>2, <3>1
            <3>3. StandsFor(platform, "bytes", number.v, f, number.expected)
                  BY <2>1, <2>2, <3>2 DEF NumberInv
            <3> QED
                  BY <3>2, <3>3 DEF StandsFor, Fields
      <2> HIDE DEF detour
      <2> QED
            BY <2>1, <2>2, CallReturnsElement
<1>8. CASE caml_pasta_to_bytes(f)
      <2> DEFINE result == IF Held(f) = <<>> THEN <<>> ELSE <<ToBytes(f, Held(f)[1])>>
      <2>1. number.kind = f /\ Becomes("bytes", result, f, number.expected, {})
            BY <1>8 DEF caml_pasta_to_bytes
      <2>2. ASSUME number.detours \cap Lossy = {}
            PROVE  StandsFor(platform, "bytes", result[1], f, number.expected)
            <3>1. PICK m \in 0 .. Order[f] - 1 :
                    Held(f) = <<m>> /\ into_repr(f, m) = number.expected
                  BY <2>1, <2>2, HeldIs
            <3>2. into_repr(f, m) \in 0 .. Order[f] - 1
                  BY IntoRepr
            <3>3. result[1] = IF platform = "native" THEN into_repr(f, m) ELSE m
                  BY <3>1 DEF ToBytes
            <3>4. platform \in Builds
                  BY DEF NumberInv
            <3> QED
                  BY <3>1, <3>2, <3>3, <3>4 DEF StandsFor, Fields, Builds
      <2> HIDE DEF result
      <2> QED
            BY <2>1, <2>2, CallReturns
<1>9. CASE \E c \in Operands : Arithmetic(f, c)
      <2>1. PICK c \in Operands : Arithmetic(f, c)
            BY <1>9
      <2>2. number.kind = f
            BY <2>1 DEF Arithmetic
      <2>3. PICK res \in Results(f, c) : BecomesField(f, <<res.mem>>, res.is, {})
            BY <2>1 DEF Arithmetic
      <2>4. ASSUME number.detours \cap Lossy = {}
            PROVE  res.mem \in 0 .. Order[f] - 1 /\ into_repr(f, res.mem) = res.is
            BY <2>2, <2>4, ResultsAreRight
      <2> QED
            BY <2>3, <2>4, CallReturnsElement
<1>10. CASE caml_pasta_sqrt(f)
      <2>1. PICK y \in 0 .. Order[f] - 1 : BecomesField(f, <<y>>, into_repr(f, y), {})
            BY <1>10 DEF caml_pasta_sqrt
      <2> QED
            BY <2>1, CallReturnsElement
<1> QED
      BY <1>1, <1>2, <1>3, <1>4, <1>5, <1>6, <1>7, <1>8, <1>9, <1>10 DEF FieldStep

LEMMA NumberOperationInv ==
    ASSUME NumberInv, NumberOperation
    PROVE  NumberInv'
<1>1. UNCHANGED platform
      BY DEF NumberOperation
<1>2. CASE \E n \in Numerals : Text(n)
      <2>1. PICK n \in Numerals : Text(n)
            BY <1>2
      <2>2. number' = Number("text", n, "none", n, {}) /\ n \in Nat
            BY <2>1, OrderAssumption DEF Text
      <2>3. StandsFor(platform, "text", n, "none", n)
            BY <2>2 DEF StandsFor, Fields
      <2> QED
            BY <1>1, <2>2, <2>3 DEF NumberInv, Number
<1>3. CASE BigintStep
      BY <1>1, <1>3, BigintStepInv
<1>4. CASE FieldStep("fp") \/ FieldStep("fq")
      <2>1. "fp" \in Fields /\ "fq" \in Fields
            BY DEF Fields
      <2> QED
            BY <1>1, <1>4, <2>1, FieldStepInv
<1> QED
      BY <1>2, <1>3, <1>4
      DEF NumberOperation, NativeFp, NativeFq, WasmFp, WasmFq, NativeBigint, WasmBigint

\* Everything else leaves the number alone.
LEMMA NumberUntouched ==
    ASSUME [Next]_vars
    PROVE  NumberOperation \/ UNCHANGED <<platform, number>>
<1>1. CASE UNCHANGED vars
      BY <1>1 DEF vars
<1>2. CASE Begin
      BY <1>2 DEF Begin, Create, Receive, Dummy, CreateProof, CreateProofPanics, CrossValue
<1>3. CASE NumberStep
      BY <1>3 DEF NumberStep
<1>4. CASE Read \/ Rebuild \/ RebuildProof
      BY <1>4 DEF Read, Rebuild, RebuildProof
<1>5. CASE \E format \in {"file", "json"} : Write(format)
      BY <1>5 DEF Write
<1> QED
      BY <1>1, <1>2, <1>3, <1>4, <1>5 DEF Next

\* In both builds and for all fields, a number keeps its value through any sequence of
\* conversions and computations that has none of the lossy conversions in it.
THEOREM NumbersAlwaysKeepTheirValue == Spec => []NumbersKeepTheirValue
<1>1. Init => NumberInv
      <2> SUFFICES ASSUME Init PROVE NumberInv
            OBVIOUS
      <2>1. platform \in Builds /\ number = NoNumber
            BY DEF Init, Builds
      <2>2. StandsFor(platform, "none", 0, "none", 0)
            BY DEF StandsFor, Fields
      <2> QED
            BY <2>1, <2>2 DEF NumberInv, NoNumber, Number
<1>2. NumberInv /\ [Next]_vars => NumberInv'
      <2> SUFFICES ASSUME NumberInv, [Next]_vars PROVE NumberInv'
            OBVIOUS
      <2>1. CASE NumberOperation
            BY <2>1, NumberOperationInv
      <2>2. CASE UNCHANGED <<platform, number>>
            BY <2>2 DEF NumberInv, Lossy
      <2> QED
            BY <2>1, <2>2, NumberUntouched
<1>3. NumberInv => NumbersKeepTheirValue
      <2> SUFFICES ASSUME NumberInv, number.kind # "bytes", number.detours \cap Lossy = {}
                   PROVE  Denotes(number) = number.expected
            BY DEF NumbersKeepTheirValue
      <2>1. StandsFor(platform, number.kind, number.v, number.made_by, number.expected)
            BY DEF NumberInv
      <2>2. CASE number.kind \in Fields
            <3>1. PICK m \in 0 .. Order[number.kind] - 1 :
                    Held(number.kind) = <<m>> /\ into_repr(number.kind, m) = number.expected
                  BY <2>2, HeldIs
            <3> QED
                  BY <2>2, <3>1 DEF Denotes, Held
      <2>3. CASE number.kind \notin Fields
            BY <2>1, <2>3 DEF Denotes, StandsFor
      <2> QED
            BY <2>2, <2>3
<1> QED
      BY <1>1, <1>2, <1>3, PTL DEF Spec

-----------------------------------------------------------------------------
(* Values survive the serde format                                         *)

\* What is shown of a value x, its serialization j and what j is turned back into: x
\* is refused unless it is carried, and is the same if it is narrow.
RoundTrip(carried, narrow, j, back, x) ==
    IF carried THEN j # Failed /\ \E y : back = <<y>> /\ (y = x <=> narrow)
    ELSE j = Failed

\* js is a sequence of n values.
IsTuple(js, n) == js = [i \in 1 .. n |-> js[i]]

\* j is an array of the n values after the leading 0.
IsSerializedArray(j, js, n) ==
    /\ j # Failed /\ j.js = "array" /\ Len(j.v) = n + 1
    /\ \A i \in 1 .. n : Get(j, i) = js[i]

\* An array of serialized parts.
LEMMA SerializedArray ==
    ASSUME NEW n \in Nat, NEW js, IsTuple(js, n),
           \A i \in 1 .. n : js[i] # Failed,
           NEW j, j = ArraySerializer(js)
    PROVE  IsSerializedArray(j, js, n)
<1> DEFINE S == {js[i] : i \in 1 .. n} \cup {Num(0)}
<1>1. js \in Seq(S) /\ Len(js) = n /\ <<Num(0)>> \in Seq(S)
      BY DEF IsTuple
<1>2. DOMAIN js = 1 .. n
      BY <1>1
<1>3. j = Arr(<<Num(0)>> \o js)
      BY <1>2 DEF ArraySerializer
<1>4. /\ <<Num(0)>> \o js \in Seq(S) /\ Len(<<Num(0)>> \o js) = n + 1
      /\ \A i \in 1 .. n : (<<Num(0)>> \o js)[i + 1] = js[i]
      BY <1>1
<1>5. j.js = "array" /\ j.v = <<Num(0)>> \o js
      <2>1. \A v : Arr(v).js = "array" /\ Arr(v).v = v
            BY DEF Arr
      <2> QED
            BY <1>3, <2>1
<1>6. j # Failed
      BY <1>5 DEF Failed
<1>7. \A i \in 1 .. n : Get(j, i) = js[i]
      BY <1>4, <1>5 DEF Get
<1> QED
      BY <1>3, <1>4, <1>5, <1>6, <1>7 DEF IsSerializedArray

\* One layer, given its parts.
LEMMA LayerRoundTrip ==
    ASSUME NEW T, NEW x, NEW types, NEW carried, NEW narrow, NEW js, NEW backs, NEW j,
           NEW parts,
           TypeLayer(T, x, types),
           DOMAIN carried = DOMAIN Parts(T, x), DOMAIN narrow = DOMAIN Parts(T, x),
           js = [i \in DOMAIN Parts(T, x) |-> js[i]],
           \A i \in DOMAIN Parts(T, x) :
              types[i] => RoundTrip(carried[i], narrow[i], js[i], backs[i], Parts(T, x)[i]),
           j = Serializer(T, x, js),
           parts = [i \in ObjectAccess(T, j) |-> parts[i]],
           \A i \in ObjectAccess(T, j) :
              i \in DOMAIN Parts(T, x) /\ Get(j, i) = js[i] => parts[i] = backs[i]
    PROVE  RoundTrip(CarriedLayer(T, x, carried), NarrowLayer(T, x, narrow), j,
                     Deserializer(T, j, parts), x)
<1>1. CASE T.k \notin Composite
      <2>1. Parts(T, x) = <<>> /\ DOMAIN Parts(T, x) = {}
            BY <1>1 DEF Parts
      <2>2. CASE T.k = "bool"
            <3>1. x \in BOOLEAN
                  BY <2>2 DEF TypeLayer
            <3>2. j = Num(IF x THEN 1 ELSE 0)
                  BY <2>2 DEF Serializer
            <3>3. Deserializer(T, j, parts) = <<x>>
                  BY <2>2, <3>1, <3>2 DEF Deserializer, Num
            <3>4. j # Failed
                  BY <3>2 DEF Num, Failed
            <3>5. CarriedLayer(T, x, carried) /\ NarrowLayer(T, x, narrow)
                  BY <2>1, <2>2 DEF CarriedLayer, NarrowLayer, Unsupported
            <3> QED
                  BY <3>3, <3>4, <3>5 DEF RoundTrip
      <2>3. CASE T.k = "i32"
            <3>1. j = Num(x)
                  BY <2>3 DEF Serializer
            <3>2. Deserializer(T, j, parts) = <<x>>
                  BY <2>3, <3>1 DEF Deserializer, Num
            <3>3. j # Failed
                  BY <3>1 DEF Num, Failed
            <3>4. CarriedLayer(T, x, carried) /\ NarrowLayer(T, x, narrow)
                  BY <2>1, <2>3 DEF CarriedLayer, NarrowLayer, Unsupported
            <3> QED
                  BY <3>2, <3>3, <3>4 DEF RoundTrip
      <2>4. CASE T.k = "char"
            <3>1. j = Num(x) /\ x \in Nat
                  BY <2>4 DEF Serializer, TypeLayer
            <3>2. Deserializer(T, j, parts) = <<IF x > 255 THEN 255 ELSE x>>
                  BY <2>4, <3>1 DEF Deserializer, Num
            <3>3. j # Failed
                  BY <3>1 DEF Num, Failed
            <3>4. (IF x > 255 THEN 255 ELSE x) = x <=> x < 256
                  BY <3>1
            <3>5. CarriedLayer(T, x, carried) /\ (NarrowLayer(T, x, narrow) <=> x < 256)
                  BY <2>1, <2>4 DEF CarriedLayer, NarrowLayer, Unsupported
            <3> QED
                  BY <3>2, <3>3, <3>4, <3>5 DEF RoundTrip
      <2>5. CASE T.k = "unit"
            <3>1. j = Num(0) /\ x = 0
                  BY <2>5 DEF Serializer, TypeLayer
            <3>2. Deserializer(T, j, parts) = <<x>>
                  BY <2>5, <3>1 DEF Deserializer
            <3>3. j # Failed
                  BY <3>1 DEF Num, Failed
            <3>4. CarriedLayer(T, x, carried) /\ NarrowLayer(T, x, narrow)
                  BY <2>1, <2>5 DEF CarriedLayer, NarrowLayer, Unsupported
            <3> QED
                  BY <3>2, <3>3, <3>4 DEF RoundTrip
      <2>6. CASE T.k = "bytes"
            <3>1. j = Uint8Array(x)
                  BY <2>6 DEF Serializer
            <3>2. Deserializer(T, j, parts) = <<x>>
                  BY <2>6, <3>1 DEF Deserializer, Uint8Array
            <3>3. j # Failed
                  BY <3>1 DEF Uint8Array, Failed
            <3>4. CarriedLayer(T, x, carried) /\ NarrowLayer(T, x, narrow)
                  BY <2>1, <2>6 DEF CarriedLayer, NarrowLayer, Unsupported
            <3> QED
                  BY <3>2, <3>3, <3>4 DEF RoundTrip
      <2>7. CASE T.k \in Unsupported
            <3>1. j = Failed
                  BY <2>7 DEF Serializer, Unsupported
            <3>2. ~ CarriedLayer(T, x, carried)
                  BY <2>7 DEF CarriedLayer
            <3> QED
                  BY <3>1, <3>2 DEF RoundTrip
      <2> QED
            BY <1>1, <2>2, <2>3, <2>4, <2>5, <2>6, <2>7 DEF TypeLayer
<1>2. CASE T.k \in Composite
      <2>1. PICK n \in Nat : n = Len(x) /\ x = [i \in 1 .. n |-> x[i]]
            BY <1>2 DEF TypeLayer, IsSeq, Composite
      <2>2. Parts(T, x) = x /\ DOMAIN x = 1 .. n
            BY <1>2, <2>1 DEF Parts
      <2>3. \A i \in 1 .. n : types[i]
            BY <1>2, <2>2 DEF TypeLayer, Composite
      <2>4. \A i \in 1 .. n : RoundTrip(carried[i], narrow[i], js[i], backs[i], x[i])
            BY <2>2, <2>3
      <2>5. IsTuple(js, n) /\ DOMAIN js = 1 .. n
            BY <2>2 DEF IsTuple
      <2>6. /\ CarriedLayer(T, x, carried) <=> \A i \in 1 .. n : carried[i]
            /\ NarrowLayer(T, x, narrow) <=> \A i \in 1 .. n : narrow[i]
            BY <1>2, <2>2 DEF CarriedLayer, NarrowLayer, Composite, Unsupported
      <2>7. CASE T.k = "option" /\ x = <<>>
            <3>1. n = 0
                  BY <2>1, <2>7
            <3>2. j = Num(0)
                  BY <2>7 DEF Serializer
            <3>3. Deserializer(T, j, parts) = <<x>> /\ j # Failed
                  BY <2>7, <3>2 DEF Deserializer, DeserializeOption, Num, Failed
            <3> QED
                  BY <2>6, <3>1, <3>3 DEF RoundTrip
      <2>8. CASE ~ (T.k = "option" /\ x = <<>>) /\ ~ \A i \in 1 .. n : carried[i]
            <3>1. j = ArraySerializer(js)
                  BY <1>2, <2>8 DEF Serializer, Composite
            <3>2. PICK i \in 1 .. n : ~ carried[i]
                  BY <2>8
            <3>3. js[i] = Failed
                  BY <2>4, <3>2 DEF RoundTrip
            <3>4. j = Failed
                  BY <2>5, <3>1, <3>3 DEF ArraySerializer
            <3> QED
                  BY <2>6, <2>8, <3>4 DEF RoundTrip
      <2>9. CASE ~ (T.k = "option" /\ x = <<>>) /\ \A i \in 1 .. n : carried[i]
            <3>1. j = ArraySerializer(js)
                  BY <1>2, <2>9 DEF Serializer, Composite
            <3>2. \A i \in 1 .. n : js[i] # Failed
                  BY <2>4, <2>9 DEF RoundTrip
            <3>3. /\ j # Failed /\ j.js = "array" /\ Len(j.v) = n + 1
                  /\ \A i \in 1 .. n : Get(j, i) = js[i]
                  <4>1. IsSerializedArray(j, js, n)
                        BY <2>5, <3>1, <3>2, SerializedArray
                  <4> QED
                        BY <4>1 DEF IsSerializedArray
            <3>4. ObjectAccess(T, j) = 1 .. n
                  <4>1. CASE T.k = "option"
                        <5>1. n <= 1
                              BY <2>1, <4>1 DEF TypeLayer, Composite
                        <5>2. n # 0
                              BY <2>1, <2>9, <4>1
                        <5>3. n = 1
                              BY <5>1, <5>2
                        <5>4. ObjectAccess(T, j) = {1}
                              BY <3>3, <4>1 DEF ObjectAccess
                        <5> QED
                              BY <5>3, <5>4
                  <4>2. CASE T.k = "seq"
                        BY <3>3, <4>2 DEF ObjectAccess
                  <4>3. CASE T.k = "struct"
                        <5>1. IsSeq(T.fields) /\ Len(T.fields) = n
                              BY <2>1, <4>3 DEF TypeLayer, Composite
                        <5>2. DOMAIN T.fields = 1 .. n
                              BY <5>1 DEF IsSeq
                        <5> QED
                              BY <3>3, <4>3, <5>2 DEF ObjectAccess
                  <4> QED
                        BY <1>2, <4>1, <4>2, <4>3 DEF Composite
            <3>5. parts = [i \in 1 .. n |-> backs[i]]
                  BY <2>2, <3>3, <3>4
            <3>6. \A i \in 1 .. n : \E y : backs[i] = <<y>> /\ (y = x[i] <=> narrow[i])
                  BY <2>4, <2>9 DEF RoundTrip
            <3>7. \A i \in 1 .. n : /\ backs[i] = <<backs[i][1]>> /\ backs[i] # <<>>
                                    /\ backs[i][1] = x[i] <=> narrow[i]
                  BY <3>6
            <3> DEFINE y == [i \in 1 .. n |-> backs[i][1]]
            <3>8. Deserializer(T, j, parts) = <<y>>
                  <4>1. CASE T.k = "option"
                        <5>1. n = 1
                              <6>1. n <= 1
                                    BY <2>1, <4>1 DEF TypeLayer, Composite
                              <6>2. n # 0
                                    BY <2>1, <2>9, <4>1
                              <6> QED
                                    BY <6>1, <6>2
                        <5>2. parts[1] = backs[1] /\ parts[1] # <<>>
                              BY <3>5, <3>7, <5>1
                        <5>3. Deserializer(T, j, parts) = <<backs[1]>>
                              BY <3>3, <4>1, <5>2 DEF Deserializer, DeserializeOption
                        <5>4. y = <<backs[1][1]>>
                              BY <5>1
                        <5>5. backs[1] = <<backs[1][1]>>
                              BY <3>7, <5>1
                        <5> QED
                              BY <5>3, <5>4, <5>5
                  <4>2. CASE T.k \in {"seq", "struct"}
                        <5>1. Deserializer(T, j, parts) = SeqAccess(parts)
                              BY <3>3, <4>2 DEF Deserializer
                        <5>2. SeqAccess(parts) = <<y>>
                              BY <3>5, <3>7 DEF SeqAccess
                        <5> QED
                              BY <5>1, <5>2
                  <4> QED
                        BY <1>2, <4>1, <4>2 DEF Composite
            <3>9. y = x <=> \A i \in 1 .. n : narrow[i]
                  <4>1. ASSUME y = x, NEW i \in 1 .. n
                        PROVE  narrow[i]
                        <5>1. y[i] = backs[i][1]
                              OBVIOUS
                        <5> QED
                              BY <3>7, <4>1, <5>1
                  <4>2. ASSUME \A i \in 1 .. n : narrow[i]
                        PROVE  y = x
                        <5>1. \A i \in 1 .. n : backs[i][1] = x[i]
                              BY <3>7, <4>2
                        <5>2. y = [i \in 1 .. n |-> x[i]]
                              BY <5>1
                        <5> QED
                              BY <2>1, <5>2
                  <4> QED
                        BY <4>1, <4>2
            <3> QED
                  BY <2>6, <2>9, <3>3, <3>8, <3>9 DEF RoundTrip
      <2> QED
            BY <2>7, <2>8, <2>9
<1> QED
      BY <1>1, <1>2

\* The folds of the layers, by depth.
Types1(T, x) == Fold1(TypeLayer, T, x)
Types2(T, x) == Fold2(TypeLayer, T, x)
Types3(T, x) == Fold3(TypeLayer, T, x)
Types4(T, x) == Fold4(TypeLayer, T, x)
Types5(T, x) == Fold5(TypeLayer, T, x)
Types6(T, x) == Fold6(TypeLayer, T, x)

Carries1(T, x) == Fold1(CarriedLayer, T, x)
Carries2(T, x) == Fold2(CarriedLayer, T, x)
Carries3(T, x) == Fold3(CarriedLayer, T, x)
Carries4(T, x) == Fold4(CarriedLayer, T, x)
Carries5(T, x) == Fold5(CarriedLayer, T, x)
Carries6(T, x) == Fold6(CarriedLayer, T, x)

Narrows1(T, x) == Fold1(NarrowLayer, T, x)
Narrows2(T, x) == Fold2(NarrowLayer, T, x)
Narrows3(T, x) == Fold3(NarrowLayer, T, x)
Narrows4(T, x) == Fold4(NarrowLayer, T, x)
Narrows5(T, x) == Fold5(NarrowLayer, T, x)
Narrows6(T, x) == Fold6(NarrowLayer, T, x)

Serial1(T, x) == Fold1(Serializer, T, x)
Serial2(T, x) == Fold2(Serializer, T, x)
Serial3(T, x) == Fold3(Serializer, T, x)
Serial4(T, x) == Fold4(Serializer, T, x)
Serial5(T, x) == Fold5(Serializer, T, x)
Serial6(T, x) == Fold6(Serializer, T, x)

Back1(T, j) == Deserialize1(T, j)
Back2(T, j) == Deserialize2(T, j)
Back3(T, j) == Deserialize3(T, j)
Back4(T, j) == Deserialize4(T, j)
Back5(T, j) == Deserialize5(T, j)
Back6(T, j) == Deserialize(T, j)

\* A fold is its layer, applied to the folds of the parts.
LEMMA FoldsAreLayers ==
    ASSUME NEW T, NEW x
    PROVE  
           /\ Types2(T, x) = TypeLayer(T, x,
                 [i \in DOMAIN Parts(T, x) |-> Types1(PartType(T, i), Parts(T, x)[i])])
           /\ Carries2(T, x) = CarriedLayer(T, x,
                 [i \in DOMAIN Parts(T, x) |-> Carries1(PartType(T, i), Parts(T, x)[i])])
           /\ Narrows2(T, x) = NarrowLayer(T, x,
                 [i \in DOMAIN Parts(T, x) |-> Narrows1(PartType(T, i), Parts(T, x)[i])])
           /\ Serial2(T, x) = Serializer(T, x,
                 [i \in DOMAIN Parts(T, x) |-> Serial1(PartType(T, i), Parts(T, x)[i])])
           /\ Types3(T, x) = TypeLayer(T, x,
                 [i \in DOMAIN Parts(T, x) |-> Types2(PartType(T, i), Parts(T, x)[i])])
           /\ Carries3(T, x) = CarriedLayer(T, x,
                 [i \in DOMAIN Parts(T, x) |-> Carries2(PartType(T, i), Parts(T, x)[i])])
           /\ Narrows3(T, x) = NarrowLayer(T, x,
                 [i \in DOMAIN Parts(T, x) |-> Narrows2(PartType(T, i), Parts(T, x)[i])])
           /\ Serial3(T, x) = Serializer(T, x,
                 [i \in DOMAIN Parts(T, x) |-> Serial2(PartType(T, i), Parts(T, x)[i])])
           /\ Types4(T, x) = TypeLayer(T, x,
                 [i \in DOMAIN Parts(T, x) |-> Types3(PartType(T, i), Parts(T, x)[i])])
           /\ Carries4(T, x) = CarriedLayer(T, x,
                 [i \in DOMAIN Parts(T, x) |-> Carries3(PartType(T, i), Parts(T, x)[i])])
           /\ Narrows4(T, x) = NarrowLayer(T, x,
                 [i \in DOMAIN Parts(T, x) |-> Narrows3(PartType(T, i), Parts(T, x)[i])])
           /\ Serial4(T, x) = Serializer(T, x,
                 [i \in DOMAIN Parts(T, x) |-> Serial3(PartType(T, i), Parts(T, x)[i])])
           /\ Types5(T, x) = TypeLayer(T, x,
                 [i \in DOMAIN Parts(T, x) |-> Types4(PartType(T, i), Parts(T, x)[i])])
           /\ Carries5(T, x) = CarriedLayer(T, x,
                 [i \in DOMAIN Parts(T, x) |-> Carries4(PartType(T, i), Parts(T, x)[i])])
           /\ Narrows5(T, x) = NarrowLayer(T, x,
                 [i \in DOMAIN Parts(T, x) |-> Narrows4(PartType(T, i), Parts(T, x)[i])])
           /\ Serial5(T, x) = Serializer(T, x,
                 [i \in DOMAIN Parts(T, x) |-> Serial4(PartType(T, i), Parts(T, x)[i])])
           /\ Types6(T, x) = TypeLayer(T, x,
                 [i \in DOMAIN Parts(T, x) |-> Types5(PartType(T, i), Parts(T, x)[i])])
           /\ Carries6(T, x) = CarriedLayer(T, x,
                 [i \in DOMAIN Parts(T, x) |-> Carries5(PartType(T, i), Parts(T, x)[i])])
           /\ Narrows6(T, x) = NarrowLayer(T, x,
                 [i \in DOMAIN Parts(T, x) |-> Narrows5(PartType(T, i), Parts(T, x)[i])])
           /\ Serial6(T, x) = Serializer(T, x,
                 [i \in DOMAIN Parts(T, x) |-> Serial5(PartType(T, i), Parts(T, x)[i])])
<1>1. Types2(T, x) = TypeLayer(T, x,
            [i \in DOMAIN Parts(T, x) |-> Types1(PartType(T, i), Parts(T, x)[i])])
      BY DEF Types2, Types1, Fold2
<1>2. Carries2(T, x) = CarriedLayer(T, x,
            [i \in DOMAIN Parts(T, x) |-> Carries1(PartType(T, i), Parts(T, x)[i])])
      BY DEF Carries2, Carries1, Fold2
<1>3. Narrows2(T, x) = NarrowLayer(T, x,
            [i \in DOMAIN Parts(T, x) |-> Narrows1(PartType(T, i), Parts(T, x)[i])])
      BY DEF Narrows2, Narrows1, Fold2
<1>4. Serial2(T, x) = Serializer(T, x,
            [i \in DOMAIN Parts(T, x) |-> Serial1(PartType(T, i), Parts(T, x)[i])])
      BY DEF Serial2, Serial1, Fold2
<1>5. Types3(T, x) = TypeLayer(T, x,
            [i \in DOMAIN Parts(T, x) |-> Types2(PartType(T, i), Parts(T, x)[i])])
      BY DEF Types3, Types2, Fold3
<1>6. Carries3(T, x) = CarriedLayer(T, x,
            [i \in DOMAIN Parts(T, x) |-> Carries2(PartType(T, i), Parts(T, x)[i])])
      BY DEF Carries3, Carries2, Fold3
<1>7. Narrows3(T, x) = NarrowLayer(T, x,
            [i \in DOMAIN Parts(T, x) |-> Narrows2(PartType(T, i), Parts(T, x)[i])])
      BY DEF Narrows3, Narrows2, Fold3
<1>8. Serial3(T, x) = Serializer(T, x,
            [i \in DOMAIN Parts(T, x) |-> Serial2(PartType(T, i), Parts(T, x)[i])])
      BY DEF Serial3, Serial2, Fold3
<1>9. Types4(T, x) = TypeLayer(T, x,
            [i \in DOMAIN Parts(T, x) |-> Types3(PartType(T, i), Parts(T, x)[i])])
      BY DEF Types4, Types3, Fold4
<1>10. Carries4(T, x) = CarriedLayer(T, x,
            [i \in DOMAIN Parts(T, x) |-> Carries3(PartType(T, i), Parts(T, x)[i])])
      BY DEF Carries4, Carries3, Fold4
<1>11. Narrows4(T, x) = NarrowLayer(T, x,
            [i \in DOMAIN Parts(T, x) |-> Narrows3(PartType(T, i), Parts(T, x)[i])])
      BY DEF Narrows4, Narrows3, Fold4
<1>12. Serial4(T, x) = Serializer(T, x,
            [i \in DOMAIN Parts(T, x) |-> Serial3(PartType(T, i), Parts(T, x)[i])])
      BY DEF Serial4, Serial3, Fold4
<1>13. Types5(T, x) = TypeLayer(T, x,
            [i \in DOMAIN Parts(T, x) |-> Types4(PartType(T, i), Parts(T, x)[i])])
      BY DEF Types5, Types4, Fold5
<1>14. Carries5(T, x) = CarriedLayer(T, x,
            [i \in DOMAIN Parts(T, x) |-> Carries4(PartType(T, i), Parts(T, x)[i])])
      BY DEF Carries5, Carries4, Fold5
<1>15. Narrows5(T, x) = NarrowLayer(T, x,
            [i \in DOMAIN Parts(T, x) |-> Narrows4(PartType(T, i), Parts(T, x)[i])])
      BY DEF Narrows5, Narrows4, Fold5
<1>16. Serial5(T, x) = Serializer(T, x,
            [i \in DOMAIN Parts(T, x) |-> Serial4(PartType(T, i), Parts(T, x)[i])])
      BY DEF Serial5, Serial4, Fold5
<1>17. Types6(T, x) = TypeLayer(T, x,
            [i \in DOMAIN Parts(T, x) |-> Types5(PartType(T, i), Parts(T, x)[i])])
      BY DEF Types6, Types5, Fold6
<1>18. Carries6(T, x) = CarriedLayer(T, x,
            [i \in DOMAIN Parts(T, x) |-> Carries5(PartType(T, i), Parts(T, x)[i])])
      BY DEF Carries6, Carries5, Fold6
<1>19. Narrows6(T, x) = NarrowLayer(T, x,
            [i \in DOMAIN Parts(T, x) |-> Narrows5(PartType(T, i), Parts(T, x)[i])])
      BY DEF Narrows6, Narrows5, Fold6
<1>20. Serial6(T, x) = Serializer(T, x,
            [i \in DOMAIN Parts(T, x) |-> Serial5(PartType(T, i), Parts(T, x)[i])])
      BY DEF Serial6, Serial5, Fold6
<1> QED
      BY <1>1, <1>2, <1>3, <1>4, <1>5, <1>6, <1>7, <1>8, <1>9, <1>10,
         <1>11, <1>12, <1>13, <1>14, <1>15, <1>16, <1>17, <1>18, <1>19, <1>20

\* Depth 1: no parts.
LEMMA RoundTrip1 ==
    ASSUME NEW T, NEW x, Types1(T, x)
    PROVE  RoundTrip(Carries1(T, x), Narrows1(T, x), Serial1(T, x),
                     Back1(T, Serial1(T, x)), x)
<1> DEFINE e == <<>>
           j == Serializer(T, x, e)
           parts == [i \in ObjectAccess(T, j) |-> <<>>]
<1>1. /\ TypeLayer(T, x, e) /\ Carries1(T, x) = CarriedLayer(T, x, e)
      /\ Narrows1(T, x) = NarrowLayer(T, x, e) /\ Serial1(T, x) = j
      BY DEF Types1, Carries1, Narrows1, Serial1, Fold1
<1>2. Back1(T, j) = Deserializer(T, j, parts)
      BY DEF Back1, Deserialize1
<1>3. DOMAIN Parts(T, x) = {}
      <2>1. CASE T.k \in Composite
            <3>1. x = [i \in 1 .. Len(x) |-> x[i]] /\ Len(e) = Len(x)
                  BY <1>1, <2>1 DEF TypeLayer, IsSeq
            <3>2. Len(x) = 0
                  BY <3>1
            <3>3. DOMAIN x = {}
                  BY <3>1, <3>2
            <3> QED
                  BY <2>1, <3>3 DEF Parts
      <2>2. CASE T.k \notin Composite
            BY <2>2 DEF Parts
      <2> QED
            BY <2>1, <2>2
<1>4. DOMAIN e = {} /\ e = [i \in DOMAIN Parts(T, x) |-> e[i]]
      BY <1>3
<1>5. parts = [i \in ObjectAccess(T, j) |-> parts[i]]
      OBVIOUS
<1> HIDE DEF e, j, parts
<1>6. RoundTrip(CarriedLayer(T, x, e), NarrowLayer(T, x, e), Serializer(T, x, e),
                Deserializer(T, j, parts), x)
      BY <1>1, <1>3, <1>4, <1>5, LayerRoundTrip DEF j
<1> QED
      BY <1>1, <1>2, <1>6 DEF j

\* Depth 2.
LEMMA RoundTrip2 ==
    ASSUME NEW T, NEW x, Types2(T, x)
    PROVE  RoundTrip(Carries2(T, x), Narrows2(T, x), Serial2(T, x),
                     Back2(T, Serial2(T, x)), x)
<1> DEFINE P == Parts(T, x)
           types == [i \in DOMAIN P |-> Types1(PartType(T, i), P[i])]
           carried == [i \in DOMAIN P |-> Carries1(PartType(T, i), P[i])]
           narrow == [i \in DOMAIN P |-> Narrows1(PartType(T, i), P[i])]
           js == [i \in DOMAIN P |-> Serial1(PartType(T, i), P[i])]
           backs == [i \in DOMAIN P |-> Back1(PartType(T, i), js[i])]
           j == Serializer(T, x, js)
           parts == [i \in ObjectAccess(T, j) |-> Back1(PartType(T, i), Get(j, i))]
<1>1. /\ TypeLayer(T, x, types) /\ Carries2(T, x) = CarriedLayer(T, x, carried)
      /\ Narrows2(T, x) = NarrowLayer(T, x, narrow) /\ Serial2(T, x) = j
      BY FoldsAreLayers
<1>2. Back2(T, j) = Deserializer(T, j, parts)
      BY DEF Back2, Back1, Deserialize2
<1>3. DOMAIN carried = DOMAIN P /\ DOMAIN narrow = DOMAIN P
      OBVIOUS
<1>4. js = [i \in DOMAIN P |-> js[i]] /\ parts = [i \in ObjectAccess(T, j) |-> parts[i]]
      OBVIOUS
<1>5. ASSUME NEW i \in DOMAIN P, types[i]
      PROVE  RoundTrip(carried[i], narrow[i], js[i], backs[i], P[i])
      <2> DEFINE S == PartType(T, i)
                 p == P[i]
      <2>1. Types1(S, p)
            BY <1>5
      <2>2. /\ carried[i] = Carries1(S, p) /\ narrow[i] = Narrows1(S, p)
            /\ js[i] = Serial1(S, p) /\ backs[i] = Back1(S, Serial1(S, p))
            OBVIOUS
      <2> HIDE DEF S, p
      <2>3. RoundTrip(Carries1(S, p), Narrows1(S, p), Serial1(S, p),
                      Back1(S, Serial1(S, p)), p)
            BY <2>1, RoundTrip1
      <2> QED
            BY <2>2, <2>3 DEF p
<1>6. \A i \in ObjectAccess(T, j) : i \in DOMAIN P /\ Get(j, i) = js[i] => parts[i] = backs[i]
      OBVIOUS
<1> HIDE DEF types, carried, narrow, js, backs, j, parts
<1>7. RoundTrip(CarriedLayer(T, x, carried), NarrowLayer(T, x, narrow), j,
                Deserializer(T, j, parts), x)
      BY <1>1, <1>3, <1>4, <1>5, <1>6, LayerRoundTrip DEF j
<1> QED
      BY <1>1, <1>2, <1>7

\* Depth 3.
LEMMA RoundTrip3 ==
    ASSUME NEW T, NEW x, Types3(T, x)
    PROVE  RoundTrip(Carries3(T, x), Narrows3(T, x), Serial3(T, x),
                     Back3(T, Serial3(T, x)), x)
<1> DEFINE P == Parts(T, x)
           types == [i \in DOMAIN P |-> Types2(PartType(T, i), P[i])]
           carried == [i \in DOMAIN P |-> Carries2(PartType(T, i), P[i])]
           narrow == [i \in DOMAIN P |-> Narrows2(PartType(T, i), P[i])]
           js == [i \in DOMAIN P |-> Serial2(PartType(T, i), P[i])]
           backs == [i \in DOMAIN P |-> Back2(PartType(T, i), js[i])]
           j == Serializer(T, x, js)
           parts == [i \in ObjectAccess(T, j) |-> Back2(PartType(T, i), Get(j, i))]
<1>1. /\ TypeLayer(T, x, types) /\ Carries3(T, x) = CarriedLayer(T, x, carried)
      /\ Narrows3(T, x) = NarrowLayer(T, x, narrow) /\ Serial3(T, x) = j
      BY FoldsAreLayers
<1>2. Back3(T, j) = Deserializer(T, j, parts)
      BY DEF Back3, Back2, Deserialize3
<1>3. DOMAIN carried = DOMAIN P /\ DOMAIN narrow = DOMAIN P
      OBVIOUS
<1>4. js = [i \in DOMAIN P |-> js[i]] /\ parts = [i \in ObjectAccess(T, j) |-> parts[i]]
      OBVIOUS
<1>5. ASSUME NEW i \in DOMAIN P, types[i]
      PROVE  RoundTrip(carried[i], narrow[i], js[i], backs[i], P[i])
      <2> DEFINE S == PartType(T, i)
                 p == P[i]
      <2>1. Types2(S, p)
            BY <1>5
      <2>2. /\ carried[i] = Carries2(S, p) /\ narrow[i] = Narrows2(S, p)
            /\ js[i] = Serial2(S, p) /\ backs[i] = Back2(S, Serial2(S, p))
            OBVIOUS
      <2> HIDE DEF S, p
      <2>3. RoundTrip(Carries2(S, p), Narrows2(S, p), Serial2(S, p),
                      Back2(S, Serial2(S, p)), p)
            BY <2>1, RoundTrip2
      <2> QED
            BY <2>2, <2>3 DEF p
<1>6. \A i \in ObjectAccess(T, j) : i \in DOMAIN P /\ Get(j, i) = js[i] => parts[i] = backs[i]
      OBVIOUS
<1> HIDE DEF types, carried, narrow, js, backs, j, parts
<1>7. RoundTrip(CarriedLayer(T, x, carried), NarrowLayer(T, x, narrow), j,
                Deserializer(T, j, parts), x)
      BY <1>1, <1>3, <1>4, <1>5, <1>6, LayerRoundTrip DEF j
<1> QED
      BY <1>1, <1>2, <1>7

\* Depth 4.
LEMMA RoundTrip4 ==
    ASSUME NEW T, NEW x, Types4(T, x)
    PROVE  RoundTrip(Carries4(T, x), Narrows4(T, x), Serial4(T, x),
                     Back4(T, Serial4(T, x)), x)
<1> DEFINE P == Parts(T, x)
           types == [i \in DOMAIN P |-> Types3(PartType(T, i), P[i])]
           carried == [i \in DOMAIN P |-> Carries3(PartType(T, i), P[i])]
           narrow == [i \in DOMAIN P |-> Narrows3(PartType(T, i), P[i])]
           js == [i \in DOMAIN P |-> Serial3(PartType(T, i), P[i])]
           backs == [i \in DOMAIN P |-> Back3(PartType(T, i), js[i])]
           j == Serializer(T, x, js)
           parts == [i \in ObjectAccess(T, j) |-> Back3(PartType(T, i), Get(j, i))]
<1>1. /\ TypeLayer(T, x, types) /\ Carries4(T, x) = CarriedLayer(T, x, carried)
      /\ Narrows4(T, x) = NarrowLayer(T, x, narrow) /\ Serial4(T, x) = j
      BY FoldsAreLayers
<1>2. Back4(T, j) = Deserializer(T, j, parts)
      BY DEF Back4, Back3, Deserialize4
<1>3. DOMAIN carried = DOMAIN P /\ DOMAIN narrow = DOMAIN P
      OBVIOUS
<1>4. js = [i \in DOMAIN P |-> js[i]] /\ parts = [i \in ObjectAccess(T, j) |-> parts[i]]
      OBVIOUS
<1>5. ASSUME NEW i \in DOMAIN P, types[i]
      PROVE  RoundTrip(carried[i], narrow[i], js[i], backs[i], P[i])
      <2> DEFINE S == PartType(T, i)
                 p == P[i]
      <2>1. Types3(S, p)
            BY <1>5
      <2>2. /\ carried[i] = Carries3(S, p) /\ narrow[i] = Narrows3(S, p)
            /\ js[i] = Serial3(S, p) /\ backs[i] = Back3(S, Serial3(S, p))
            OBVIOUS
      <2> HIDE DEF S, p
      <2>3. RoundTrip(Carries3(S, p), Narrows3(S, p), Serial3(S, p),
                      Back3(S, Serial3(S, p)), p)
            BY <2>1, RoundTrip3
      <2> QED
            BY <2>2, <2>3 DEF p
<1>6. \A i \in ObjectAccess(T, j) : i \in DOMAIN P /\ Get(j, i) = js[i] => parts[i] = backs[i]
      OBVIOUS
<1> HIDE DEF types, carried, narrow, js, backs, j, parts
<1>7. RoundTrip(CarriedLayer(T, x, carried), NarrowLayer(T, x, narrow), j,
                Deserializer(T, j, parts), x)
      BY <1>1, <1>3, <1>4, <1>5, <1>6, LayerRoundTrip DEF j
<1> QED
      BY <1>1, <1>2, <1>7

\* Depth 5.
LEMMA RoundTrip5 ==
    ASSUME NEW T, NEW x, Types5(T, x)
    PROVE  RoundTrip(Carries5(T, x), Narrows5(T, x), Serial5(T, x),
                     Back5(T, Serial5(T, x)), x)
<1> DEFINE P == Parts(T, x)
           types == [i \in DOMAIN P |-> Types4(PartType(T, i), P[i])]
           carried == [i \in DOMAIN P |-> Carries4(PartType(T, i), P[i])]
           narrow == [i \in DOMAIN P |-> Narrows4(PartType(T, i), P[i])]
           js == [i \in DOMAIN P |-> Serial4(PartType(T, i), P[i])]
           backs == [i \in DOMAIN P |-> Back4(PartType(T, i), js[i])]
           j == Serializer(T, x, js)
           parts == [i \in ObjectAccess(T, j) |-> Back4(PartType(T, i), Get(j, i))]
<1>1. /\ TypeLayer(T, x, types) /\ Carries5(T, x) = CarriedLayer(T, x, carried)
      /\ Narrows5(T, x) = NarrowLayer(T, x, narrow) /\ Serial5(T, x) = j
      BY FoldsAreLayers
<1>2. Back5(T, j) = Deserializer(T, j, parts)
      BY DEF Back5, Back4, Deserialize5
<1>3. DOMAIN carried = DOMAIN P /\ DOMAIN narrow = DOMAIN P
      OBVIOUS
<1>4. js = [i \in DOMAIN P |-> js[i]] /\ parts = [i \in ObjectAccess(T, j) |-> parts[i]]
      OBVIOUS
<1>5. ASSUME NEW i \in DOMAIN P, types[i]
      PROVE  RoundTrip(carried[i], narrow[i], js[i], backs[i], P[i])
      <2> DEFINE S == PartType(T, i)
                 p == P[i]
      <2>1. Types4(S, p)
            BY <1>5
      <2>2. /\ carried[i] = Carries4(S, p) /\ narrow[i] = Narrows4(S, p)
            /\ js[i] = Serial4(S, p) /\ backs[i] = Back4(S, Serial4(S, p))
            OBVIOUS
      <2> HIDE DEF S, p
      <2>3. RoundTrip(Carries4(S, p), Narrows4(S, p), Serial4(S, p),
                      Back4(S, Serial4(S, p)), p)
            BY <2>1, RoundTrip4
      <2> QED
            BY <2>2, <2>3 DEF p
<1>6. \A i \in ObjectAccess(T, j) : i \in DOMAIN P /\ Get(j, i) = js[i] => parts[i] = backs[i]
      OBVIOUS
<1> HIDE DEF types, carried, narrow, js, backs, j, parts
<1>7. RoundTrip(CarriedLayer(T, x, carried), NarrowLayer(T, x, narrow), j,
                Deserializer(T, j, parts), x)
      BY <1>1, <1>3, <1>4, <1>5, <1>6, LayerRoundTrip DEF j
<1> QED
      BY <1>1, <1>2, <1>7

\* Depth 6.
LEMMA RoundTrip6 ==
    ASSUME NEW T, NEW x, Types6(T, x)
    PROVE  RoundTrip(Carries6(T, x), Narrows6(T, x), Serial6(T, x),
                     Back6(T, Serial6(T, x)), x)
<1> DEFINE P == Parts(T, x)
           types == [i \in DOMAIN P |-> Types5(PartType(T, i), P[i])]
           carried == [i \in DOMAIN P |-> Carries5(PartType(T, i), P[i])]
           narrow == [i \in DOMAIN P |-> Narrows5(PartType(T, i), P[i])]
           js == [i \in DOMAIN P |-> Serial5(PartType(T, i), P[i])]
           backs == [i \in DOMAIN P |-> Back5(PartType(T, i), js[i])]
           j == Serializer(T, x, js)
           parts == [i \in ObjectAccess(T, j) |-> Back5(PartType(T, i), Get(j, i))]
<1>1. /\ TypeLayer(T, x, types) /\ Carries6(T, x) = CarriedLayer(T, x, carried)
      /\ Narrows6(T, x) = NarrowLayer(T, x, narrow) /\ Serial6(T, x) = j
      BY FoldsAreLayers
<1>2. Back6(T, j) = Deserializer(T, j, parts)
      BY DEF Back6, Back5, Deserialize
<1>3. DOMAIN carried = DOMAIN P /\ DOMAIN narrow = DOMAIN P
      OBVIOUS
<1>4. js = [i \in DOMAIN P |-> js[i]] /\ parts = [i \in ObjectAccess(T, j) |-> parts[i]]
      OBVIOUS
<1>5. ASSUME NEW i \in DOMAIN P, types[i]
      PROVE  RoundTrip(carried[i], narrow[i], js[i], backs[i], P[i])
      <2> DEFINE S == PartType(T, i)
                 p == P[i]
      <2>1. Types5(S, p)
            BY <1>5
      <2>2. /\ carried[i] = Carries5(S, p) /\ narrow[i] = Narrows5(S, p)
            /\ js[i] = Serial5(S, p) /\ backs[i] = Back5(S, Serial5(S, p))
            OBVIOUS
      <2> HIDE DEF S, p
      <2>3. RoundTrip(Carries5(S, p), Narrows5(S, p), Serial5(S, p),
                      Back5(S, Serial5(S, p)), p)
            BY <2>1, RoundTrip5
      <2> QED
            BY <2>2, <2>3 DEF p
<1>6. \A i \in ObjectAccess(T, j) : i \in DOMAIN P /\ Get(j, i) = js[i] => parts[i] = backs[i]
      OBVIOUS
<1> HIDE DEF types, carried, narrow, js, backs, j, parts
<1>7. RoundTrip(CarriedLayer(T, x, carried), NarrowLayer(T, x, narrow), j,
                Deserializer(T, j, parts), x)
      BY <1>1, <1>3, <1>4, <1>5, <1>6, LayerRoundTrip DEF j
<1> QED
      BY <1>1, <1>2, <1>7

\* What becomes of a value that is given to OCaml and taken back.
Survives(T, x, back) ==
    /\ back = <<>> <=> ~ Carried(T, x)
    /\ back = <<x>> <=> Carried(T, x) /\ Narrow(T, x)

LEMMA ValueSurvives ==
    ASSUME NEW T, NEW x, HasType(T, x), NEW back,
           back = IF Serialize(T, x) = Failed THEN <<>>
                  ELSE Deserialize(T, Serialize(T, x))
    PROVE  Survives(T, x, back)
<1> DEFINE carried == Carried(T, x)
           narrow == Narrow(T, x)
           j == Serialize(T, x)
<1>1. Types6(T, x)
      BY DEF Types6, HasType
<1>2. /\ carried = Carries6(T, x) /\ narrow = Narrows6(T, x) /\ j = Serial6(T, x)
      /\ Deserialize(T, j) = Back6(T, Serial6(T, x))
      BY DEF Carried, Carries6, Narrow, Narrows6, Serialize, Serial6, Back6
<1>3. RoundTrip(Carries6(T, x), Narrows6(T, x), Serial6(T, x),
                Back6(T, Serial6(T, x)), x)
      BY <1>1, RoundTrip6
<1> HIDE DEF carried, narrow, j
<1>4. RoundTrip(carried, narrow, j, Deserialize(T, j), x)
      BY <1>2, <1>3
<1>5. back = IF j = Failed THEN <<>> ELSE Deserialize(T, j)
      BY DEF j
<1>6. CASE carried
      <2>1. PICK y : back = <<y>> /\ (y = x <=> narrow)
            BY <1>4, <1>5, <1>6 DEF RoundTrip
      <2>2. back # <<>> /\ (back = <<x>> <=> y = x)
            BY <2>1
      <2> QED
            BY <1>6, <2>1, <2>2 DEF Survives, carried, narrow
<1>7. CASE ~ carried
      <2>1. back = <<>>
            BY <1>4, <1>5, <1>7 DEF RoundTrip
      <2>2. back # <<x>>
            BY <2>1
      <2> QED
            BY <1>7, <2>1, <2>2 DEF Survives, carried, narrow
<1> QED
      BY <1>6, <1>7

\* Every other step leaves the crossing value alone.
LEMMA CrossingUntouched ==
    ASSUME [Next]_vars
    PROVE  (\E s \in Serdes : CrossValue(s)) \/ crossing' = crossing
<1>1. CASE UNCHANGED vars
      BY <1>1 DEF vars
<1>2. CASE Begin
      <2>1. ASSUME NEW c, Create(c) \/ Receive(c) PROVE crossing' = crossing
            BY <2>1 DEF Create, Receive
      <2>2. CASE Dummy
            BY <2>2 DEF Dummy
      <2>3. ASSUME NEW lr, NEW public, NEW evals, NEW prev, CreateProof(lr, public, evals, prev)
            PROVE  crossing' = crossing
            BY <2>3 DEF CreateProof
      <2>4. ASSUME NEW challenges, CreateProofPanics(challenges) PROVE crossing' = crossing
            BY <2>4 DEF CreateProofPanics
      <2> QED
            BY <1>2, <2>1, <2>2, <2>3, <2>4 DEF Begin
<1>3. CASE NumberStep
      BY <1>3 DEF NumberStep
<1>4. CASE Read \/ Rebuild \/ RebuildProof
      BY <1>4 DEF Read, Rebuild, RebuildProof
<1>5. CASE \E format \in {"file", "json"} : Write(format)
      BY <1>5 DEF Write
<1> QED
      BY <1>1, <1>2, <1>3, <1>4, <1>5 DEF Next

\* A value of any type that is not nested deeper than the evaluations of a proof is
\* the same after it was given to OCaml and taken back, except for characters above
\* 255, or is refused, which happens exactly if a part of it has an unsupported type.
THEOREM ValuesAlwaysSurviveTheFormat == Spec => []ValuesSurviveTheFormat
<1>1. Init => ValuesSurviveTheFormat
      BY DEF Init, ValuesSurviveTheFormat
<1>2. ValuesSurviveTheFormat /\ [Next]_vars => ValuesSurviveTheFormat'
      <2> SUFFICES ASSUME ValuesSurviveTheFormat, [Next]_vars
                   PROVE  ValuesSurviveTheFormat'
            OBVIOUS
      <2>1. ASSUME NEW s \in Serdes, CrossValue(s)
            PROVE  ValuesSurviveTheFormat'
            <3> DEFINE T == s.type
                       x == s.value
                       j == Serialize(T, x)
                       back == IF j = Failed THEN <<>> ELSE Deserialize(T, j)
            <3>1. crossing' = [type |-> T, value |-> x, back |-> back]
                  BY <2>1 DEF CrossValue
            <3>2. HasType(T, x)
                  BY SerdesAssumption
            <3> HIDE DEF T, x
            <3>3. Survives(T, x, back)
                  BY <3>2, ValueSurvives
            <3> HIDE DEF back
            <3>4. crossing'.type = T /\ crossing'.value = x /\ crossing'.back = back
                  BY <3>1
            <3> QED
                  BY <3>3, <3>4 DEF Survives, ValuesSurviveTheFormat
      <2>2. CASE crossing' = crossing
            BY <2>2 DEF ValuesSurviveTheFormat
      <2> QED
            BY <2>1, <2>2, CrossingUntouched
<1> QED
      BY <1>1, <1>2, PTL DEF Spec

-----------------------------------------------------------------------------
(* Keys keep their meaning                                                 *)

\* The lookups of a circuit, and the lookup index of its key.
LookupsOf(c) == LookupPatterns(c.gates)

LookupIndexOf(c) ==
    [joint_lookup_used |-> joint_lookups_used(LookupsOf(c)),
     lookup_selectors |->
        [xor |-> LookupsOf(c).xor, lookup |-> LookupsOf(c).lookup,
         range_check |-> LookupsOf(c).range_check, ffmul |-> LookupsOf(c).foreign_field_mul],
     features |-> Features(LookupsOf(c), c.runtime), runtime_tables_selector |-> c.runtime]

CommsOf(c) == [g \in OptionalGates |-> g \in c.gates]

ShiftsOf == [n \in 1..PERMUTS |-> n]

LookupIndexesOf(c) == IF LookupsOf(c) = NoPatterns THEN <<>> ELSE <<LookupIndexOf(c)>>

LEMMA VerifierIndexIs ==
    ASSUME NEW c
    PROVE  VerifierIndex(c) =
             [comms |-> CommsOf(c), shift |-> ShiftsOf,
              zk_rows |-> c.zk_rows, w |-> c.zk_rows, vanishing |-> c.zk_rows,
              lookup_index |-> LookupIndexesOf(c),
              linearization |->
                 expr_linearization(c.gates \ {"lookup"}, Features(LookupsOf(c), c.runtime))]
<1>1. Features(LookupsOf(c), c.runtime).joint_lookup_used = joint_lookups_used(LookupsOf(c))
      BY DEF Features
<1> QED
      BY <1>1 DEF VerifierIndex, CommsOf, ShiftsOf, LookupIndexesOf, LookupIndexOf, LookupsOf

\* The optional gates that a key has commitments for are the gates of its circuit.
LEMMA GatesOfKey ==
    ASSUME NEW c \in Circuits
    PROVE  {g \in OptionalGates : CommsOf(c)[g]} = c.gates \ {"lookup"}
<1>1. c.gates \subseteq OptionalGates \cup {"lookup"}
      BY CircuitsAssumption
<1>2. "lookup" \notin OptionalGates
      BY DEF OptionalGates
<1>3. \A g \in OptionalGates : CommsOf(c)[g] <=> g \in c.gates
      BY DEF CommsOf
<1> QED
      BY <1>1, <1>2, <1>3

\* The lookup index survives both representations.
LEMMA LookupIndexesSurvive ==
    ASSUME NEW c
    PROVE  LET li == LookupIndexesOf(c)
               caml == OptionMap(CamlLookupVerifierIndex, li)
               wasm == OptionMap(WasmLookupVerifierIndex, li)
           IN  /\ OptionMap(LookupVerifierIndexOfCaml, caml) = li
               /\ OptionMap(LookupVerifierIndexOfWasm, wasm) = li
               /\ OptionMap(RebuiltLookup, wasm) = wasm
               /\ caml = <<>> <=> li = <<>>
               /\ wasm = <<>> <=> li = <<>>
               /\ li # <<>> => /\ caml[1].lookup_info.features = li[1].features
                                /\ wasm[1].lookup_info.features = li[1].features
<1> DEFINE l == LookupIndexOf(c)
<1>1. /\ LookupVerifierIndexOfCaml(CamlLookupVerifierIndex(l)) = l
      /\ LookupVerifierIndexOfWasm(WasmLookupVerifierIndex(l)) = l
      /\ RebuiltLookup(WasmLookupVerifierIndex(l)) = WasmLookupVerifierIndex(l)
      /\ CamlLookupVerifierIndex(l).lookup_info.features = l.features
      /\ WasmLookupVerifierIndex(l).lookup_info.features = l.features
      BY DEF LookupIndexOf, LookupVerifierIndexOfCaml, CamlLookupVerifierIndex,
             LookupVerifierIndexOfWasm, WasmLookupVerifierIndex, RebuiltLookup,
             CamlLookupSelectors, WasmLookupSelectors
<1> HIDE DEF l
<1>2. LookupIndexesOf(c) = IF LookupsOf(c) = NoPatterns THEN <<>> ELSE <<l>>
      BY DEF LookupIndexesOf, l
<1>3. CASE LookupsOf(c) = NoPatterns
      BY <1>2, <1>3 DEF OptionMap
<1>4. CASE LookupsOf(c) # NoPatterns
      <2>1. LookupIndexesOf(c) = <<l>>
            BY <1>2, <1>4
      <2> QED
            BY <1>1, <2>1 DEF OptionMap
<1> QED
      BY <1>3, <1>4

\* Both representations of the shifts, and getting them back.
LEMMA ShiftsSurvive ==
    /\ Len(ShiftsOf) = PERMUTS /\ ShiftsOfWasm(WasmShifts(ShiftsOf)) = ShiftsOf
    /\ WasmShifts(ShiftsOfWasm(WasmShifts(ShiftsOf))) = WasmShifts(ShiftsOf)
<1>1. ShiftsOf = <<1, 2, 3, 4, 5, 6, 7>>
      BY DEF ShiftsOf, PERMUTS
<1> QED
      BY <1>1 DEF PERMUTS, WasmShifts, ShiftsOfWasm

\* The features that each build derives from a key.
LEMMA FeaturesOfKey ==
    ASSUME NEW c \in Circuits
    PROVE  /\ FeatureFlagsOfCaml(ToCaml(VerifierIndex(c))) = Features(LookupsOf(c), c.runtime)
           /\ compute_feature_flags(to_wasm(VerifierIndex(c))) = Features(LookupsOf(c), FALSE)
<1> DEFINE li == LookupIndexesOf(c)
           caml == OptionMap(CamlLookupVerifierIndex, li)
           wasm == OptionMap(WasmLookupVerifierIndex, li)
           vi == VerifierIndex(c)
           features == Features(LookupsOf(c), c.runtime)
<1>1. /\ caml = <<>> <=> li = <<>>
      /\ wasm = <<>> <=> li = <<>>
      /\ li # <<>> => /\ caml[1].lookup_info.features = li[1].features
                       /\ wasm[1].lookup_info.features = li[1].features
      BY LookupIndexesSurvive
<1>2. ToCaml(vi).lookup_index = caml /\ to_wasm(vi).lookup_index = wasm
      BY VerifierIndexIs DEF ToCaml, to_wasm
<1>3. to_wasm(vi).evals = CommsOf(c)
      BY VerifierIndexIs DEF to_wasm
<1>4. li = <<>> <=> LookupsOf(c) = NoPatterns
      BY DEF LookupIndexesOf
<1>5. li # <<>> => li[1].features = features
      BY DEF LookupIndexesOf, LookupIndexOf
<1>6. c.runtime \in BOOLEAN /\ (c.runtime => LookupsOf(c) # NoPatterns)
      BY CircuitsAssumption DEF LookupsOf
<1> HIDE DEF li, caml, wasm, vi
<1>7. FeatureFlagsOfCaml(ToCaml(vi)) = features
      <2>1. CASE li = <<>>
            <3>1. LookupsOf(c) = NoPatterns /\ c.runtime = FALSE
                  BY <1>4, <1>6, <2>1
            <3> QED
                  BY <1>1, <1>2, <2>1, <3>1 DEF FeatureFlagsOfCaml
      <2>2. CASE li # <<>>
            <3>1. ToCaml(vi).lookup_index # <<>>
                  BY <1>1, <1>2, <2>2
            <3>2. ToCaml(vi).lookup_index[1].lookup_info.features = features
                  BY <1>1, <1>2, <1>5, <2>2
            <3> HIDE DEF features
            <3> QED
                  BY <3>1, <3>2 DEF FeatureFlagsOfCaml
      <2> QED
            BY <2>1, <2>2
<1>8. compute_feature_flags(to_wasm(vi)) = Features(LookupsOf(c), FALSE)
      <2> DEFINE k == to_wasm(vi)
                 lookup == k.lookup_index # <<>>
                             /\ k.lookup_index[1].lookup_info.features.patterns.lookup
      <2>1. /\ LookupsOf(c).lookup = ("lookup" \in c.gates)
            /\ LookupsOf(c).lookup \in BOOLEAN
            BY DEF LookupsOf, LookupPatterns
      <2>2. lookup = ("lookup" \in c.gates)
            <3>1. CASE li = <<>>
                  <4>1. LookupsOf(c).lookup = FALSE
                        BY <1>4, <3>1 DEF NoPatterns
                  <4> QED
                        BY <1>1, <1>2, <2>1, <3>1, <4>1
            <3>2. CASE li # <<>>
                  <4>1. k.lookup_index # <<>> /\ k.lookup_index[1].lookup_info.features = features
                        BY <1>1, <1>2, <1>5, <3>2
                  <4>2. features.patterns = LookupsOf(c)
                        BY DEF Features
                  <4> HIDE DEF features, k
                  <4> QED
                        BY <2>1, <4>1, <4>2
            <3> QED
                  BY <3>1, <3>2
      <2>3. \A g \in OptionalGates : k.evals[g] = (g \in c.gates)
            BY <1>3 DEF CommsOf
      <2>4. {"xor", "range_check0", "range_check1", "rot", "foreign_field_mul"}
              \subseteq OptionalGates
            BY DEF OptionalGates
      <2>5. (k.evals["range_check0"] \/ k.evals["range_check1"] \/ k.evals["rot"])
              = (c.gates \cap {"range_check0", "range_check1", "rot"} # {})
            BY <2>3, <2>4
      <2> HIDE DEF k
      <2> DEFINE patterns ==
                   [xor |-> k.evals["xor"], lookup |-> lookup,
                    range_check |-> k.evals["range_check0"] \/ k.evals["range_check1"]
                                      \/ k.evals["rot"],
                    foreign_field_mul |-> k.evals["foreign_field_mul"]]
      <2>6. patterns = LookupsOf(c)
            BY <2>2, <2>3, <2>4, <2>5 DEF LookupsOf, LookupPatterns
      <2>7. compute_feature_flags(k) = Features(patterns, FALSE)
            BY DEF compute_feature_flags
      <2> HIDE DEF patterns
      <2> QED
            BY <2>6, <2>7 DEF k
<1> QED
      BY <1>7, <1>8 DEF vi

\* The native build gets back the index that a key was made of.
LEMMA CamlKeys ==
    ASSUME NEW c \in Circuits
    PROVE  /\ OfCaml(ToCaml(VerifierIndex(c))) = VerifierIndex(c)
           /\ ToCaml(Persisted(VerifierIndex(c))) = ToCaml(VerifierIndex(c))
<1> DEFINE vi == VerifierIndex(c)
           k == ToCaml(vi)
           lin == expr_linearization(c.gates \ {"lookup"}, Features(LookupsOf(c), c.runtime))
<1>1. /\ k.evals = CommsOf(c) /\ k.shifts = ShiftsOf /\ k.zk_rows = c.zk_rows
      /\ k.lookup_index = OptionMap(CamlLookupVerifierIndex, LookupIndexesOf(c))
      BY VerifierIndexIs DEF ToCaml
<1>2. OptionMap(LookupVerifierIndexOfCaml, k.lookup_index) = LookupIndexesOf(c)
      BY <1>1, LookupIndexesSurvive
<1>3. expr_linearization({g \in OptionalGates : k.evals[g]}, FeatureFlagsOfCaml(k)) = lin
      BY <1>1, GatesOfKey, FeaturesOfKey
<1>4. vi = [comms |-> CommsOf(c), shift |-> ShiftsOf,
            zk_rows |-> c.zk_rows, w |-> c.zk_rows, vanishing |-> c.zk_rows,
            lookup_index |-> LookupIndexesOf(c), linearization |-> lin]
      BY VerifierIndexIs
<1>5. ToCaml(Persisted(vi)) = k
      BY DEF ToCaml, Persisted
<1> HIDE DEF vi, k, lin
<1>6. OfCaml(k) = [comms |-> k.evals, shift |-> k.shifts,
                   zk_rows |-> k.zk_rows, w |-> k.zk_rows, vanishing |-> k.zk_rows,
                   lookup_index |-> OptionMap(LookupVerifierIndexOfCaml, k.lookup_index),
                   linearization |-> expr_linearization({g \in OptionalGates : k.evals[g]},
                                                        FeatureFlagsOfCaml(k))]
      BY <1>1, ShiftsSurvive DEF OfCaml
<1>7. OfCaml(k) = vi
      BY <1>1, <1>2, <1>3, <1>4, <1>6
<1> QED
      BY <1>5, <1>7 DEF vi, k

\* The wasm build gets back everything that is persisted, and the whole index only
\* without runtime tables and with 3 zero-knowledge rows.
LEMMA WasmKeys ==
    ASSUME NEW c \in Circuits
    PROVE  LET vi == VerifierIndex(c)
               k == to_wasm(vi)
           IN  /\ Persisted(of_wasm(k)) = Persisted(vi) /\ of_wasm(k) # NoKey
               /\ of_wasm(k) = vi <=> ~ c.runtime /\ c.zk_rows = 3
               /\ to_wasm(Persisted(vi)) = k
               /\ Rebuilt(k) = k
<1> DEFINE vi == VerifierIndex(c)
           k == to_wasm(vi)
           gates == c.gates \ {"lookup"}
           lin == expr_linearization(gates, Features(LookupsOf(c), c.runtime))
           back == expr_linearization(gates, Features(LookupsOf(c), FALSE))
<1>1. /\ k.evals = CommsOf(c) /\ k.shifts = WasmShifts(ShiftsOf) /\ k.zk_rows = c.zk_rows
      /\ k.lookup_index = OptionMap(WasmLookupVerifierIndex, LookupIndexesOf(c))
      /\ k = [evals |-> k.evals, shifts |-> k.shifts, zk_rows |-> k.zk_rows,
              lookup_index |-> k.lookup_index]
      BY VerifierIndexIs DEF to_wasm
<1>2. /\ OptionMap(LookupVerifierIndexOfWasm, k.lookup_index) = LookupIndexesOf(c)
      /\ OptionMap(RebuiltLookup, k.lookup_index) = k.lookup_index
      BY <1>1, LookupIndexesSurvive
<1>3. expr_linearization({g \in OptionalGates : k.evals[g]}, compute_feature_flags(k)) = back
      BY <1>1, GatesOfKey, FeaturesOfKey
<1>4. vi = [comms |-> CommsOf(c), shift |-> ShiftsOf,
            zk_rows |-> c.zk_rows, w |-> c.zk_rows, vanishing |-> c.zk_rows,
            lookup_index |-> LookupIndexesOf(c), linearization |-> lin]
      BY VerifierIndexIs
<1>5. to_wasm(Persisted(vi)) = k
      BY DEF to_wasm, Persisted
<1>6. back = lin <=> ~ c.runtime
      <2>1. c.runtime \in BOOLEAN
            BY CircuitsAssumption
      <2>2. back.lookup.uses_runtime_tables = FALSE /\ lin.lookup.uses_runtime_tables = c.runtime
            BY DEF expr_linearization, Features
      <2>3. c.runtime = FALSE => back = lin
            OBVIOUS
      <2> HIDE DEF back, lin
      <2> QED
            BY <2>1, <2>2, <2>3
<1> HIDE DEF vi, k, lin, back
<1>7. of_wasm(k) = [comms |-> CommsOf(c), shift |-> ShiftsOf,
                    zk_rows |-> c.zk_rows, w |-> 3, vanishing |-> 3,
                    lookup_index |-> LookupIndexesOf(c), linearization |-> back]
      BY <1>1, <1>2, <1>3, ShiftsSurvive DEF of_wasm
<1>8. of_wasm(k) = vi <=> ~ c.runtime /\ c.zk_rows = 3
      BY <1>4, <1>6, <1>7
<1>9. Persisted(of_wasm(k)) = Persisted(vi)
      BY <1>4, <1>7 DEF Persisted
<1>10. of_wasm(k) # NoKey
      BY <1>7 DEF NoKey
<1>11. Rebuilt(k) = k
      <2>1. RebuiltEvals(k.evals) = k.evals
            BY <1>1 DEF RebuiltEvals, CommsOf
      <2>2. WasmShifts(ShiftsOfWasm(k.shifts)) = k.shifts
            BY <1>1, ShiftsSurvive
      <2> QED
            BY <1>1, <1>2, <2>1, <2>2 DEF Rebuilt
<1> QED
      BY <1>5, <1>8, <1>9, <1>10, <1>11 DEF vi, k

\* The dummies: the native one cannot be converted, the other one is kept.
LEMMA DummyKeys ==
    /\ OfCaml(DummyCaml) = NoKey
    /\ of_wasm(DummyWasm) # NoKey
    /\ to_wasm(Persisted(of_wasm(DummyWasm))) = DummyWasm
    /\ Rebuilt(DummyWasm) = DummyWasm
<1> DEFINE shift == [n \in 1..PERMUTS |-> 1]
<1>1. Len(DummyCaml.shifts) # PERMUTS
      <2>1. DummyCaml.shifts = [n \in 1..6 |-> 1]
            BY DEF DummyCaml, PERMUTS
      <2>2. [n \in 1..6 |-> 1] \in Seq(Nat) /\ Len([n \in 1..6 |-> 1]) = 6
            OBVIOUS
      <2> QED
            BY <2>1, <2>2 DEF PERMUTS
<1>2. shift = <<1, 1, 1, 1, 1, 1, 1>>
      BY DEF PERMUTS
<1>3. WasmShifts(ShiftsOfWasm(WasmShifts(shift))) = WasmShifts(shift)
      BY <1>2 DEF WasmShifts, ShiftsOfWasm
<1>4. DummyWasm = [evals |-> [g \in OptionalGates |-> FALSE], shifts |-> WasmShifts(shift),
                   zk_rows |-> 3, lookup_index |-> <<>>]
      BY DEF DummyWasm
<1> HIDE DEF shift
<1>5. /\ of_wasm(DummyWasm).comms = [g \in OptionalGates |-> FALSE]
      /\ of_wasm(DummyWasm).shift = ShiftsOfWasm(WasmShifts(shift))
      /\ of_wasm(DummyWasm).zk_rows = 3 /\ of_wasm(DummyWasm).lookup_index = <<>>
      BY <1>4 DEF of_wasm, OptionMap
<1>6. of_wasm(DummyWasm) # NoKey
      BY DEF of_wasm, NoKey
<1>7. to_wasm(Persisted(of_wasm(DummyWasm))) = DummyWasm
      BY <1>3, <1>4, <1>5 DEF to_wasm, Persisted, OptionMap
<1>8. Rebuilt(DummyWasm) = DummyWasm
      BY <1>3, <1>4 DEF Rebuilt, RebuiltEvals, OptionMap
<1> QED
      BY <1>1, <1>6, <1>7, <1>8 DEF OfCaml

\* A dummy key, or what is persisted of one.
DummyHost == IF platform = "native" THEN DummyCaml ELSE DummyWasm

IsDummyKey(k) == k = Key(TRUE, DummyHost)

IsDummyText(t) == platform = "wasm" /\ t = Key(TRUE, Persisted(of_wasm(DummyWasm)))

\* The key of the circuit, or what is persisted of it.
IsKeyOf(k, c) == c \in Circuits /\ k = Key(FALSE, ToHost(VerifierIndex(c)))

IsTextOf(t, c) == c \in Circuits /\ t = Key(FALSE, Persisted(VerifierIndex(c)))

\* The key is the one that was created, and the text is what is persisted of it.
KeyInv ==
    /\ platform \in {"native", "wasm"}
    /\ key # NoKey => IsDummyKey(key) \/ IsKeyOf(key, circuit)
    /\ text # NoKey => IsDummyText(text) \/ IsTextOf(text, circuit)

\* The fields of a key, which is never the absent one.
LEMMA KeyFields ==
    ASSUME NEW d, NEW v
    PROVE  Key(d, v) # NoKey /\ Key(d, v).dummy = d /\ Key(d, v).value = v
BY DEF Key, NoKey

LEMMA KeyWriteInv ==
    ASSUME KeyInv, NEW format, Write(format)
    PROVE  KeyInv'
<1>1. /\ key # NoKey /\ platform' = platform /\ circuit' = circuit /\ key' = key
      /\ text' = IF OfHost(key.value) = NoKey THEN text
                 ELSE Key(key.dummy, Persisted(OfHost(key.value)))
      BY DEF Write
<1>4. CASE OfHost(key.value) = NoKey
      BY <1>1, <1>4 DEF KeyInv, IsDummyKey, DummyHost, IsDummyText, IsKeyOf, IsTextOf, ToHost
<1>5. CASE OfHost(key.value) # NoKey
      <2>1. text' = Key(key.dummy, Persisted(OfHost(key.value)))
            BY <1>1, <1>5
      <2>2. CASE IsDummyKey(key)
            <3>1. key.dummy = TRUE /\ key.value = DummyHost
                  BY <2>2, KeyFields DEF IsDummyKey
            <3>2. platform = "wasm"
                  BY <1>5, <3>1, DummyKeys DEF KeyInv, DummyHost, OfHost
            <3>3. OfHost(key.value) = of_wasm(DummyWasm)
                  BY <3>1, <3>2 DEF OfHost, DummyHost
            <3>4. IsDummyText(text)'
                  BY <1>1, <2>1, <3>1, <3>2, <3>3 DEF IsDummyText
            <3> QED
                  BY <1>1, <2>2, <3>4 DEF KeyInv, IsDummyKey, DummyHost
      <2>3. CASE IsKeyOf(key, circuit)
            <3>1. key.dummy = FALSE /\ key.value = ToHost(VerifierIndex(circuit))
                  BY <2>3, KeyFields DEF IsKeyOf
            <3>2. circuit \in Circuits
                  BY <2>3 DEF IsKeyOf
            <3>3. Persisted(OfHost(key.value)) = Persisted(VerifierIndex(circuit))
                  <4>1. CASE platform = "native"
                        BY <3>1, <3>2, <4>1, CamlKeys DEF OfHost, ToHost
                  <4>2. CASE platform # "native"
                        BY <3>1, <3>2, <4>2, WasmKeys DEF OfHost, ToHost
                  <4> QED
                        BY <4>1, <4>2
            <3>4. IsTextOf(text, circuit)'
                  BY <1>1, <2>1, <3>1, <3>2, <3>3 DEF IsTextOf
            <3> QED
                  BY <1>1, <2>3, <3>4 DEF KeyInv, IsKeyOf, ToHost
      <2> QED
            BY <1>1, <2>2, <2>3 DEF KeyInv
<1> QED
      BY <1>4, <1>5

LEMMA KeyReadInv ==
    ASSUME KeyInv, Read
    PROVE  KeyInv'
<1>1. /\ text # NoKey /\ platform' = platform /\ circuit' = circuit /\ text' = text
      /\ key' = Key(text.dummy, ToHost(text.value))
      BY DEF Read
<1>2. IsDummyText(text) => IsDummyText(text)'
      BY <1>1 DEF IsDummyText
<1>3. IsTextOf(text, circuit) => IsTextOf(text, circuit)'
      BY <1>1 DEF IsTextOf
<1>4. CASE IsDummyText(text)
      <2>1. platform = "wasm" /\ text.dummy = TRUE
            /\ text.value = Persisted(of_wasm(DummyWasm))
            BY <1>4, KeyFields DEF IsDummyText
      <2>2. ToHost(text.value) = DummyHost
            BY <2>1, DummyKeys DEF ToHost, DummyHost
      <2>3. IsDummyKey(key)'
            BY <1>1, <2>1, <2>2 DEF IsDummyKey, DummyHost
      <2> QED
            BY <1>1, <1>2, <1>4, <2>3 DEF KeyInv
<1>5. CASE IsTextOf(text, circuit)
      <2>1. /\ circuit \in Circuits /\ text.dummy = FALSE
            /\ text.value = Persisted(VerifierIndex(circuit))
            BY <1>5, KeyFields DEF IsTextOf
      <2>2. ToHost(text.value) = ToHost(VerifierIndex(circuit))
            <3>1. CASE platform = "native"
                  BY <2>1, <3>1, CamlKeys DEF ToHost
            <3>2. CASE platform # "native"
                  BY <2>1, <3>2, WasmKeys DEF ToHost
            <3> QED
                  BY <3>1, <3>2
      <2>3. IsKeyOf(key, circuit)'
            BY <1>1, <2>1, <2>2 DEF IsKeyOf, ToHost
      <2> QED
            BY <1>1, <1>3, <1>5, <2>3 DEF KeyInv
<1> QED
      BY <1>1, <1>4, <1>5 DEF KeyInv

LEMMA KeyRebuildInv ==
    ASSUME KeyInv, Rebuild
    PROVE  KeyInv'
<1>1. /\ key # NoKey /\ platform = "wasm" /\ platform' = platform
      /\ circuit' = circuit /\ text' = text
      /\ key' = Key(key.dummy, Rebuilt(key.value))
      BY DEF Rebuild
<1>2. key' = key
      <2>1. CASE IsDummyKey(key)
            <3>1. key.dummy = TRUE /\ key.value = DummyWasm /\ key = Key(TRUE, DummyWasm)
                  BY <1>1, <2>1, KeyFields DEF IsDummyKey, DummyHost
            <3> QED
                  BY <1>1, <3>1, DummyKeys
      <2>2. CASE IsKeyOf(key, circuit)
            <3> DEFINE k == to_wasm(VerifierIndex(circuit))
            <3>1. circuit \in Circuits /\ key.dummy = FALSE /\ key.value = k /\ key = Key(FALSE, k)
                  BY <1>1, <2>2, KeyFields DEF IsKeyOf, ToHost
            <3>2. Rebuilt(k) = k
                  BY <3>1, WasmKeys
            <3> QED
                  BY <1>1, <3>1, <3>2
      <2> QED
            BY <1>1, <2>1, <2>2 DEF KeyInv
<1> QED
      BY <1>1, <1>2 DEF KeyInv, IsDummyKey, DummyHost, IsDummyText, IsKeyOf, IsTextOf, ToHost

\* Steps that leave the keys alone.
LEMMA KeyUnchangedInv ==
    ASSUME KeyInv, UNCHANGED <<platform, circuit, key, text>>
    PROVE  KeyInv'
BY DEF KeyInv, IsDummyKey, DummyHost, IsDummyText, IsKeyOf, IsTextOf, ToHost

\* At the beginning there is neither a key nor a text.
LEMMA KeyBeginInv ==
    ASSUME KeyInv, Begin
    PROVE  KeyInv'
<1>1. key = NoKey /\ text = NoKey
      BY DEF Begin, Fresh
<1>2. ASSUME NEW c \in Circuits, Create(c)
      PROVE  KeyInv'
      <2>1. /\ platform' = platform /\ circuit' = c /\ text' = text
            /\ key' = Key(FALSE, ToHost(VerifierIndex(c)))
            BY <1>2 DEF Create
      <2>2. IsKeyOf(key, circuit)'
            BY <2>1 DEF IsKeyOf, ToHost
      <2> QED
            BY <1>1, <2>1, <2>2 DEF KeyInv
<1>3. ASSUME NEW c \in Circuits, Receive(c)
      PROVE  KeyInv'
      <2>1. /\ platform' = platform /\ circuit' = c /\ key' = key
            /\ text' = Key(FALSE, Persisted(VerifierIndex(c)))
            BY <1>3 DEF Receive
      <2>2. IsTextOf(text, circuit)'
            BY <2>1 DEF IsTextOf
      <2> QED
            BY <1>1, <2>1, <2>2 DEF KeyInv
<1>4. CASE Dummy
      <2>1. platform' = platform /\ text' = text /\ key' = Key(TRUE, DummyHost)
            BY <1>4 DEF Dummy, DummyHost
      <2>2. IsDummyKey(key)'
            BY <2>1 DEF IsDummyKey, DummyHost
      <2> QED
            BY <1>1, <2>1, <2>2 DEF KeyInv
<1>5. ASSUME NEW lr, NEW public, NEW evals, NEW prev, CreateProof(lr, public, evals, prev)
      PROVE  KeyInv'
      BY <1>5, KeyUnchangedInv DEF CreateProof
<1>6. ASSUME NEW s, CrossValue(s)
      PROVE  KeyInv'
      BY <1>6, KeyUnchangedInv DEF CrossValue
<1>7. ASSUME NEW challenges, CreateProofPanics(challenges)
      PROVE  KeyInv'
      BY <1>7, KeyUnchangedInv DEF CreateProofPanics
<1> QED
      BY <1>2, <1>3, <1>4, <1>5, <1>6, <1>7 DEF Begin

LEMMA KeyInvMeans ==
    ASSUME KeyInv
    PROVE  KeysKeepTheirMeaning
<1> SUFFICES ASSUME key # NoKey
             PROVE  IF key.dummy THEN OfHost(key.value) = NoKey <=> platform = "native"
                    ELSE OfHost(key.value) = VerifierIndex(circuit)
                           <=> platform = "native" \/ (~circuit.runtime /\ circuit.zk_rows = 3)
      BY DEF KeysKeepTheirMeaning
<1>1. CASE IsDummyKey(key)
      <2>1. key.dummy = TRUE /\ key.value = DummyHost
            BY <1>1, KeyFields DEF IsDummyKey
      <2> QED
            BY <2>1, DummyKeys DEF KeyInv, DummyHost, OfHost
<1>2. CASE IsKeyOf(key, circuit)
      <2>1. circuit \in Circuits /\ key.dummy = FALSE
            /\ key.value = ToHost(VerifierIndex(circuit))
            BY <1>2, KeyFields DEF IsKeyOf
      <2>2. CASE platform = "native"
            BY <2>1, <2>2, CamlKeys DEF OfHost, ToHost
      <2>3. CASE platform # "native"
            <3>1. OfHost(key.value) = of_wasm(to_wasm(VerifierIndex(circuit)))
                  BY <2>1, <2>3 DEF OfHost, ToHost
            <3>2. OfHost(key.value) = VerifierIndex(circuit)
                    <=> ~ circuit.runtime /\ circuit.zk_rows = 3
                  BY <2>1, <3>1, WasmKeys
            <3> QED
                  BY <2>1, <2>3, <3>2
      <2> QED
            BY <2>2, <2>3
<1> QED
      BY <1>1, <1>2 DEF KeyInv

\* However often a verification key is written, read and rebuilt, in either build, it
\* stands for its circuit, but for the circuits with runtime tables or other than 3
\* zero-knowledge rows in the wasm build; the native dummy alone cannot be converted.
THEOREM KeysAlwaysKeepTheirMeaning == Spec => []KeysKeepTheirMeaning
<1>1. Init => KeyInv
      BY DEF Init, KeyInv
<1>2. KeyInv /\ [Next]_vars => KeyInv'
      <2> SUFFICES ASSUME KeyInv, [Next]_vars PROVE KeyInv'
            OBVIOUS
      <2>1. CASE Begin
            BY <2>1, KeyBeginInv
      <2>2. CASE NumberStep
            <3>1. UNCHANGED <<circuit, key, text>>
                  BY <2>2 DEF NumberStep
            <3>2. platform' = platform
                  BY <2>2 DEF NumberStep, NumberOperation
            <3> QED
                  BY <3>1, <3>2, KeyUnchangedInv
      <2>3. CASE RebuildProof \/ UNCHANGED vars
            BY <2>3, KeyUnchangedInv DEF RebuildProof, vars
      <2>4. CASE Read
            BY <2>4, KeyReadInv
      <2>5. CASE Rebuild
            BY <2>5, KeyRebuildInv
      <2>6. CASE \E format \in {"file", "json"} : Write(format)
            BY <2>6, KeyWriteInv
      <2> QED
            BY <2>1, <2>2, <2>3, <2>4, <2>5, <2>6 DEF Next
<1>3. KeyInv => KeysKeepTheirMeaning
      BY KeyInvMeans
<1> QED
      BY <1>1, <1>2, <1>3, PTL DEF Spec

-----------------------------------------------------------------------------
(* Proofs survive the boundary                                             *)

\* The only quotient and remainder.
LEMMA DivisionIs ==
    ASSUME NEW d \in Nat \ {0}, NEW q \in Nat, NEW r \in 0 .. (d - 1),
           NEW a, a = q * d + r
    PROVE  a \div d = q /\ a % d = r
<1> DEFINE p == a \div d
<1>1. a \in Int
      <2>1. q * d \in Int
            OBVIOUS
      <2> QED
            BY <2>1
<1>2. p \in Int /\ a % d \in 0 .. (d - 1) /\ a = (a % d) + p * d
      BY <1>1, Division
<1> HIDE DEF p
<1>3. ~ (p < q)
      <2> SUFFICES ASSUME p < q PROVE FALSE
            OBVIOUS
      <2>1. (q - p - 1) * d >= 0
            BY <1>2
      <2>2. (q - p - 1) * d = q * d - p * d - d
            BY <1>2
      <2> QED
            BY <1>2, <2>1, <2>2
<1>4. ~ (q < p)
      <2> SUFFICES ASSUME q < p PROVE FALSE
            OBVIOUS
      <2>1. (p - q - 1) * d >= 0
            BY <1>2
      <2>2. (p - q - 1) * d = p * d - q * d - d
            BY <1>2
      <2> QED
            BY <1>2, <2>1, <2>2
<1>5. p = q
      BY <1>2, <1>3, <1>4
<1> QED
      BY <1>2, <1>5 DEF p

\* The bytes of the elements of a vector are grouped into the elements again.
LEMMA FlatVectorsSurvive ==
    ASSUME NEW v \in Seq(Element)
    PROVE  FromAbi(IntoAbi(v)) = <<v>> /\ FromAbi(IntoAbi(v))[1] = v
<1> DEFINE data == IntoAbi(v)
           n == Len(v)
<1>1. n \in Nat /\ v = [i \in 1 .. n |-> v[i]] /\ \A i \in 1 .. n : v[i] \in 0 .. 3
      BY DEF Element
<1>2. data = [k \in 1 .. (2 * n) |-> Flatten(v[((k - 1) \div 2) + 1])[((k - 1) % 2) + 1]]
      BY DEF IntoAbi, FlattenedSize
<1> HIDE DEF n, data
<1>3. Len(data) = 2 * n
      BY <1>1, <1>2
<1>4. Len(data) % 2 = 0 /\ Len(data) \div 2 = n
      BY <1>1, <1>3
<1>5. ASSUME NEW i \in 1 .. n
      PROVE  Unflatten([b \in 1 .. 2 |-> data[2 * (i - 1) + b]]) = v[i]
      <2> DEFINE k == 2 * (i - 1) + 1
                 l == 2 * (i - 1) + 2
      <2>1. /\ k \in 1 .. (2 * n) /\ l \in 1 .. (2 * n) /\ i - 1 \in Nat
            /\ k - 1 = (i - 1) * 2 + 0 /\ l - 1 = (i - 1) * 2 + 1
            BY <1>1, <1>5
      <2> HIDE DEF k, l
      <2>2. /\ data[k] = Flatten(v[i])[1] /\ data[l] = Flatten(v[i])[2]
            <3>1. /\ (k - 1) \div 2 = i - 1 /\ (k - 1) % 2 = 0
                  BY <2>1, SMTT(30)
            <3>2. /\ (l - 1) \div 2 = i - 1 /\ (l - 1) % 2 = 1
                  BY <2>1, SMTT(30)
            <3>3. /\ data[k] = Flatten(v[((k - 1) \div 2) + 1])[((k - 1) % 2) + 1]
                  /\ data[l] = Flatten(v[((l - 1) \div 2) + 1])[((l - 1) % 2) + 1]
                  BY <1>2, <2>1
            <3>4. i - 1 + 1 = i /\ 0 + 1 = 1 /\ 1 + 1 = 2
                  OBVIOUS
            <3> QED
                  BY <3>1, <3>2, <3>3, <3>4
      <2>3. v[i] \in 0 .. 3
            BY <1>1
      <2>4. Flatten(v[i])[1] + 2 * Flatten(v[i])[2] = v[i]
            BY <2>3 DEF Flatten
      <2> QED
            BY <2>2, <2>4 DEF Unflatten, k, l
<1>6. FromAbi(data) = << [i \in 1 .. n |-> v[i]] >>
      BY <1>3, <1>4, <1>5 DEF FromAbi, FlattenedSize
<1> QED
      BY <1>1, <1>6 DEF data

\* The challenges of one earlier proof.
ChalsOf(prev, i) == prev[i].chals

PrevOK(prev) ==
    /\ Len(prev) \in Nat /\ IsTuple(prev, Len(prev)) /\ DOMAIN prev = 1 .. Len(prev)
    /\ \A i \in 1 .. Len(prev) :
         /\ prev[i] = [chals |-> ChalsOf(prev, i), comm |-> <<prev[i].comm[1]>>]
         /\ ChalsOf(prev, i) \in Seq(Element)
         /\ Len(ChalsOf(prev, i)) = Len(ChalsOf(prev, 1))
         /\ Len(ChalsOf(prev, i)) \in Nat

LEMMA PrevFacts ==
    ASSUME NEW prev \in Prevs
    PROVE  PrevOK(prev)
<1>1. IsSeq(prev)
      BY ProofsAssumption
<1>2. Len(prev) \in Nat /\ IsTuple(prev, Len(prev)) /\ DOMAIN prev = 1 .. Len(prev)
      BY <1>1 DEF IsSeq, IsTuple
<1>3. ASSUME NEW i \in 1 .. Len(prev)
      PROVE  /\ prev[i] = [chals |-> ChalsOf(prev, i), comm |-> <<prev[i].comm[1]>>]
             /\ ChalsOf(prev, i) \in Seq(Element)
             /\ Len(ChalsOf(prev, i)) = Len(ChalsOf(prev, 1))
             /\ Len(ChalsOf(prev, i)) \in Nat
      <2>1. i \in DOMAIN prev
            BY <1>2
      <2>2. /\ prev[i] = [chals |-> prev[i].chals, comm |-> <<prev[i].comm[1]>>]
            /\ prev[i].chals \in Seq(Element)
            /\ Len(prev[i].chals) = Len(prev[1].chals)
            BY <2>1, ProofsAssumption
      <2> DEFINE v == prev[i].chals
      <2>3. v \in Seq(Element)
            BY <2>2
      <2> HIDE DEF v
      <2>4. Len(v) \in Nat
            BY <2>3
      <2> QED
            BY <2>2, <2>4 DEF ChalsOf, v
<1> QED
      BY <1>2, <1>3 DEF PrevOK

\* So is what reaches the prover of them.
LEMMA EffectivePrev ==
    ASSUME NEW prev \in Prevs
    PROVE  PrevOK(Effective(prev))
<1>1. PrevOK(prev)
      BY PrevFacts
<1>2. PrevOK(<<>>)
      BY DEF PrevOK, IsTuple
<1> QED
      BY <1>1, <1>2 DEF Effective

\* The challenges of the earlier proofs, in one vector, are divided among them again.
LEMMA ChallengesSurvive ==
    ASSUME NEW prev \in Prevs
    PROVE  /\ AllChallenges(prev) \in Seq(Element)
           /\ RecursionChallenges(AllChallenges(prev), [i \in DOMAIN prev |-> prev[i].comm[1]])
                = Effective(prev)
<1> DEFINE n == Len(prev)
           d == Len(ChalsOf(prev, 1))
           all == AllChallenges(prev)
           sgs == [i \in DOMAIN prev |-> prev[i].comm[1]]
<1>1. /\ n \in Nat /\ IsTuple(prev, n) /\ DOMAIN prev = 1 .. n
      /\ \A i \in 1 .. n :
           /\ prev[i] = [chals |-> ChalsOf(prev, i), comm |-> <<prev[i].comm[1]>>]
           /\ ChalsOf(prev, i) \in Seq(Element)
           /\ Len(ChalsOf(prev, i)) = d
           /\ Len(ChalsOf(prev, i)) \in Nat
      BY PrevFacts DEF PrevOK
<1>2. CASE prev = <<>> \/ d = 0
      <2>1. all = <<>>
            <3>1. CASE prev = <<>>
                  BY <3>1 DEF AllChallenges
            <3>2. CASE prev # <<>> /\ d = 0
                  <4>1. all = [k \in 1 .. (d * n) |->
                                 prev[((k - 1) \div d) + 1].chals[((k - 1) % d) + 1]]
                        BY <3>2 DEF AllChallenges, ChalsOf
                  <4>2. 1 .. (d * n) = {}
                        BY <1>1, <3>2
                  <4> QED
                        BY <4>1, <4>2
            <3> QED
                  BY <1>2, <3>1, <3>2
      <2>2. \A t : RecursionChallenges(<<>>, t) = <<>>
            BY DEF RecursionChallenges
      <2> HIDE DEF all, sgs
      <2>3. all \in Seq(Element) /\ RecursionChallenges(all, sgs) = <<>>
            BY <2>1, <2>2
      <2>4. \A i \in DOMAIN prev : prev[i].chals = <<>>
            <3> SUFFICES ASSUME NEW i \in DOMAIN prev PROVE ChalsOf(prev, i) = <<>>
                  BY DEF ChalsOf
            <3>1. d = 0 /\ Len(ChalsOf(prev, i)) = d /\ ChalsOf(prev, i) \in Seq(Element)
                  BY <1>1, <1>2
            <3> DEFINE v == ChalsOf(prev, i)
            <3> HIDE DEF v
            <3>2. v \in Seq(Element) /\ Len(v) = 0
                  BY <3>1 DEF v
            <3>3. v = <<>>
                  BY <3>2
            <3> QED
                  BY <3>3 DEF v
      <2> QED
            BY <2>3, <2>4 DEF all, sgs, Effective
<1>3. CASE prev # <<>> /\ d # 0
      <2>1. n # 0
            <3> SUFFICES ASSUME n = 0 PROVE prev = <<>>
                  BY <1>3
            <3>1. prev = [i \in 1 .. n |-> prev[i]]
                  BY <1>1 DEF IsTuple
            <3> QED
                  BY <3>1
      <2>2. n \in Nat \ {0} /\ d \in Nat \ {0}
            BY <1>1, <1>3, <2>1
      <2>3. all = [k \in 1 .. (d * n) |-> ChalsOf(prev, ((k - 1) \div d) + 1)[((k - 1) % d) + 1]]
            BY <1>3 DEF AllChallenges, ChalsOf
      <2>4. sgs = [i \in 1 .. n |-> prev[i].comm[1]]
            BY <1>1
      <2> DEFINE S == {prev[i].comm[1] : i \in 1 .. n}
      <2>5. sgs \in Seq(S) /\ Len(sgs) = n /\ DOMAIN sgs = 1 .. n
            BY <1>1, <2>4
      <2> HIDE DEF n, d, all, sgs
      <2>6. d * n \in Nat /\ d * n # 0 /\ d * n = n * d
            BY <2>2
      <2>7. ASSUME NEW i \in 1 .. n, NEW m \in 1 .. d
            PROVE  /\ (i - 1) * d + m \in 1 .. (d * n)
                   /\ all[(i - 1) * d + m] = ChalsOf(prev, i)[m]
            <3> DEFINE k == (i - 1) * d + m
                       a == (i - 1) * d + (m - 1)
            <3>1. (i - 1) * d \in Nat /\ (n - i) * d \in Nat
                  <4>1. i - 1 \in Nat /\ n - i \in Nat /\ d \in Nat
                        BY <2>2
                  <4> QED
                        BY <4>1
            <3>2. (i - 1) * d + d + (n - i) * d = d * n
                  BY <2>2
            <3>3. k \in 1 .. (d * n)
                  BY <2>2, <2>6, <3>1, <3>2
            <3>4. k - 1 = a
                  BY <2>2, <3>1
            <3>5. a \div d = i - 1 /\ a % d = m - 1
                  <4>1. d \in Nat \ {0} /\ i - 1 \in Nat /\ m - 1 \in 0 .. (d - 1)
                        BY <2>2
                  <4> DEFINE q == i - 1
                             r == m - 1
                  <4>2. a = q * d + r
                        OBVIOUS
                  <4> HIDE DEF q, r, a
                  <4>3. q \in Nat /\ r \in 0 .. (d - 1)
                        BY <4>1 DEF q, r
                  <4>4. a \div d = q /\ a % d = r
                        BY <4>1, <4>2, <4>3, DivisionIs
                  <4> QED
                        BY <4>4 DEF q, r
            <3> HIDE DEF k, a
            <3>6. all[k] = ChalsOf(prev, ((k - 1) \div d) + 1)[((k - 1) % d) + 1]
                  BY <2>3, <3>3
            <3>7. i - 1 + 1 = i /\ m - 1 + 1 = m
                  OBVIOUS
            <3>8. all[k] = ChalsOf(prev, i)[m]
                  BY <3>4, <3>5, <3>6, <3>7
            <3> QED
                  BY <3>3, <3>8 DEF k
      <2>8. ASSUME NEW k \in 1 .. (d * n)
            PROVE  all[k] \in Element
            <3> DEFINE q == (k - 1) \div d
                       r == (k - 1) % d
            <3>1. k - 1 \in Int /\ k - 1 >= 0 /\ k - 1 < d * n
                  BY <2>6
            <3>2. q \in Int /\ r \in 0 .. (d - 1) /\ k - 1 = r + q * d
                  BY <2>2, <3>1, Division
            <3> HIDE DEF q, r
            <3>3. q >= 0
                  <4> SUFFICES ASSUME q < 0 PROVE FALSE
                        BY <3>2
                  <4>1. (0 - q - 1) * d >= 0
                        BY <2>2, <3>2
                  <4>2. (0 - q - 1) * d = 0 - q * d - d
                        BY <2>2, <3>2
                  <4> QED
                        BY <2>2, <3>1, <3>2, <4>1, <4>2
            <3>4. q < n
                  <4> SUFFICES ASSUME q >= n PROVE FALSE
                        BY <2>2, <3>2
                  <4>1. (q - n) * d >= 0
                        BY <2>2, <3>2
                  <4>2. (q - n) * d = q * d - d * n
                        BY <2>2, <3>2
                  <4> QED
                        BY <2>2, <2>6, <3>1, <3>2, <4>1, <4>2
            <3>5. q + 1 \in 1 .. n /\ r + 1 \in 1 .. d
                  BY <2>2, <3>2, <3>3, <3>4
            <3>6. ChalsOf(prev, q + 1) \in Seq(Element) /\ Len(ChalsOf(prev, q + 1)) = d
                  BY <1>1, <3>5
            <3>7. ChalsOf(prev, q + 1)[r + 1] \in Element
                  BY <3>5, <3>6
            <3>8. all[k] = ChalsOf(prev, q + 1)[r + 1]
                  BY <2>3 DEF q, r
            <3> QED
                  BY <3>7, <3>8
      <2>9. all \in Seq(Element) /\ Len(all) = d * n
            <3>1. all = [k \in 1 .. (d * n) |-> all[k]]
                  BY <2>3
            <3> QED
                  BY <2>6, <2>8, <3>1
      <2>10. all # <<>> /\ Len(all) \div Len(sgs) = d
            <3>1. (d * n) \div n = d
                  <4>1. 0 \in 0 .. (n - 1) /\ d * n = d * n + 0 /\ d \in Nat
                        BY <2>2, <2>6
                  <4> DEFINE a == d * n
                  <4>2. a = d * n + 0
                        BY <4>1
                  <4> HIDE DEF a
                  <4>3. a \div n = d
                        BY <2>2, <4>1, <4>2, DivisionIs
                  <4> QED
                        BY <4>3 DEF a
            <3>2. Len(all) # 0
                  BY <2>6, <2>9
            <3> QED
                  BY <2>5, <2>9, <3>1, <3>2
      <2>11. ASSUME NEW i \in 1 .. n
             PROVE  SubSeq(all, (i - 1) * d + 1, i * d) = ChalsOf(prev, i)
            <3> DEFINE lo == (i - 1) * d + 1
                       hi == i * d
            <3>1. /\ lo \in 1 .. (d * n) /\ hi \in 1 .. (d * n) /\ hi = lo - 1 + d
                  <4>1. (i - 1) * d + 1 \in 1 .. (d * n) /\ (i - 1) * d + d \in 1 .. (d * n)
                        BY <2>2, <2>7
                  <4>2. (i - 1) * d + d = i * d /\ (i - 1) * d \in Int
                        BY <2>2
                  <4> QED
                        BY <2>2, <4>1, <4>2
            <3>2. \A m \in 1 .. d : lo + m - 1 = (i - 1) * d + m
                  <4>1. (i - 1) * d \in Int
                        BY <2>2
                  <4> QED
                        BY <2>2, <4>1
            <3>3. \A m \in 1 .. d : all[lo + m - 1] = ChalsOf(prev, i)[m]
                  BY <2>7, <3>2
            <3> HIDE DEF lo, hi
            <3> DEFINE sub == SubSeq(all, lo, hi)
            <3>4. sub \in Seq(Element) /\ Len(sub) = d
                  BY <2>2, <2>6, <2>9, <3>1, SubSeqProperties
            <3>5. \A m \in 1 .. d : sub[m] = all[lo + m - 1]
                  BY <2>2, <2>6, <2>9, <3>1, SubSeqProperties
            <3> HIDE DEF sub
            <3>6. ChalsOf(prev, i) \in Seq(Element) /\ Len(ChalsOf(prev, i)) = d
                  BY <1>1
            <3>7. \A m \in 1 .. d : sub[m] = ChalsOf(prev, i)[m]
                  BY <3>3, <3>5
            <3> DEFINE chals == ChalsOf(prev, i)
            <3> HIDE DEF chals
            <3>8. sub = [m \in 1 .. d |-> sub[m]] /\ chals = [m \in 1 .. d |-> chals[m]]
                  BY <2>2, <3>4, <3>6 DEF chals
            <3>9. sub = chals
                  BY <3>7, <3>8 DEF chals
            <3> QED
                  BY <3>9 DEF sub, lo, hi, chals
      <2>12. RecursionChallenges(all, sgs) =
               [i \in 1 .. n |-> [chals |-> SubSeq(all, (i - 1) * d + 1, i * d),
                                  comm |-> <<sgs[i]>>]]
            BY <2>5, <2>10 DEF RecursionChallenges
      <2>13. \A i \in 1 .. n : prev[i] = [chals |-> SubSeq(all, (i - 1) * d + 1, i * d),
                                          comm |-> <<sgs[i]>>]
            BY <1>1, <2>4, <2>11
      <2>14. RecursionChallenges(all, sgs) = [i \in 1 .. n |-> prev[i]]
            BY <2>12, <2>13
      <2>15. Effective(prev) = prev
            <3>1. 1 \in DOMAIN prev /\ Len(ChalsOf(prev, 1)) # 0
                  BY <1>1, <2>2 DEF d
            <3>2. prev[1].chals # <<>>
                  BY <3>1 DEF ChalsOf
            <3> QED
                  BY <3>1, <3>2 DEF Effective
      <2> QED
            BY <1>1, <2>9, <2>14, <2>15 DEF IsTuple, all, sgs
<1> QED
      BY <1>2, <1>3

\* Nothing is lost of the values of a type without characters and unsupported types.
CleanLeaf(T) == T.k \notin Composite \cup Unsupported \cup {"char"}

Clean1(T) == \A x : Types1(T, x) => Carries1(T, x) /\ Narrows1(T, x)
Clean2(T) == \A x : Types2(T, x) => Carries2(T, x) /\ Narrows2(T, x)
Clean3(T) == \A x : Types3(T, x) => Carries3(T, x) /\ Narrows3(T, x)
Clean4(T) == \A x : Types4(T, x) => Carries4(T, x) /\ Narrows4(T, x)
Clean5(T) == \A x : Types5(T, x) => Carries5(T, x) /\ Narrows5(T, x)
Clean6(T) == \A x : Types6(T, x) => Carries6(T, x) /\ Narrows6(T, x)

LEMMA CleanLeaves ==
    ASSUME NEW T, CleanLeaf(T)
    PROVE  Clean1(T) /\ Clean2(T) /\ Clean3(T)
<1>1. \A x, parts : DOMAIN parts = {} => CarriedLayer(T, x, parts) /\ NarrowLayer(T, x, parts)
      BY DEF CleanLeaf, CarriedLayer, NarrowLayer
<1>2. \A x : DOMAIN Parts(T, x) = {}
      BY DEF CleanLeaf, Parts
<1>3. ASSUME NEW x
      PROVE  Carries1(T, x) /\ Narrows1(T, x)
      <2> DEFINE e == <<>>
      <2>1. DOMAIN e = {}
            OBVIOUS
      <2>2. Carries1(T, x) = CarriedLayer(T, x, e) /\ Narrows1(T, x) = NarrowLayer(T, x, e)
            BY DEF Carries1, Narrows1, Fold1
      <2> HIDE DEF e
      <2> QED
            BY <1>1, <2>1, <2>2
<1>4. ASSUME NEW x
      PROVE  Carries2(T, x) /\ Narrows2(T, x)
      <2> DEFINE carried == [i \in DOMAIN Parts(T, x) |-> Carries1(PartType(T, i), Parts(T, x)[i])]
                 narrow == [i \in DOMAIN Parts(T, x) |-> Narrows1(PartType(T, i), Parts(T, x)[i])]
      <2>1. Carries2(T, x) = CarriedLayer(T, x, carried) /\ Narrows2(T, x) = NarrowLayer(T, x, narrow)
            BY FoldsAreLayers
      <2>2. DOMAIN carried = {} /\ DOMAIN narrow = {}
            BY <1>2
      <2> HIDE DEF carried, narrow
      <2> QED
            BY <1>1, <2>1, <2>2
<1>5. ASSUME NEW x
      PROVE  Carries3(T, x) /\ Narrows3(T, x)
      <2> DEFINE carried == [i \in DOMAIN Parts(T, x) |-> Carries2(PartType(T, i), Parts(T, x)[i])]
                 narrow == [i \in DOMAIN Parts(T, x) |-> Narrows2(PartType(T, i), Parts(T, x)[i])]
      <2>1. Carries3(T, x) = CarriedLayer(T, x, carried) /\ Narrows3(T, x) = NarrowLayer(T, x, narrow)
            BY FoldsAreLayers
      <2>2. DOMAIN carried = {} /\ DOMAIN narrow = {}
            BY <1>2
      <2> HIDE DEF carried, narrow
      <2> QED
            BY <1>1, <2>1, <2>2
<1> QED
      BY <1>3, <1>4, <1>5 DEF Clean1, Clean2, Clean3

LEMMA CleanComposites2 ==
    ASSUME NEW T, T.k \in Composite,
           T.k # "struct" => Clean1(T.of),
           T.k = "struct" => \A i \in DOMAIN T.fields : Clean1(T.fields[i])
    PROVE  Clean2(T)
<1> SUFFICES ASSUME NEW x, Types2(T, x)
             PROVE  Carries2(T, x) /\ Narrows2(T, x)
      BY DEF Clean2
<1> DEFINE P == Parts(T, x)
           types == [i \in DOMAIN P |-> Types1(PartType(T, i), P[i])]
           carried == [i \in DOMAIN P |-> Carries1(PartType(T, i), P[i])]
           narrow == [i \in DOMAIN P |-> Narrows1(PartType(T, i), P[i])]
<1>1. /\ TypeLayer(T, x, types) /\ Carries2(T, x) = CarriedLayer(T, x, carried)
      /\ Narrows2(T, x) = NarrowLayer(T, x, narrow)
      BY FoldsAreLayers
<1>2. P = x /\ IsSeq(x) /\ (\A i \in DOMAIN x : types[i])
      BY <1>1 DEF Parts, TypeLayer
<1>3. T.k = "struct" => DOMAIN T.fields = DOMAIN x
      <2> SUFFICES ASSUME T.k = "struct" PROVE DOMAIN T.fields = DOMAIN x
            OBVIOUS
      <2>1. IsSeq(T.fields) /\ IsSeq(x) /\ Len(x) = Len(T.fields)
            BY <1>1, <1>2 DEF TypeLayer
      <2>2. DOMAIN T.fields = 1 .. Len(T.fields) /\ DOMAIN x = 1 .. Len(x)
            BY <2>1 DEF IsSeq
      <2> QED
            BY <2>1, <2>2
<1>4. ASSUME NEW i \in DOMAIN P
      PROVE  carried[i] /\ narrow[i]
      <2>1. Clean1(PartType(T, i))
            BY <1>2, <1>3 DEF PartType
      <2>2. Types1(PartType(T, i), P[i])
            BY <1>2
      <2> QED
            BY <2>1, <2>2 DEF Clean1
<1>5. DOMAIN carried = DOMAIN P /\ DOMAIN narrow = DOMAIN P
      OBVIOUS
<1>6. T.k \notin Unsupported /\ T.k # "char"
      BY DEF Composite, Unsupported
<1> HIDE DEF types, carried, narrow, P
<1> QED
      BY <1>1, <1>4, <1>5, <1>6 DEF CarriedLayer, NarrowLayer

LEMMA CleanComposites3 ==
    ASSUME NEW T, T.k \in Composite,
           T.k # "struct" => Clean2(T.of),
           T.k = "struct" => \A i \in DOMAIN T.fields : Clean2(T.fields[i])
    PROVE  Clean3(T)
<1> SUFFICES ASSUME NEW x, Types3(T, x)
             PROVE  Carries3(T, x) /\ Narrows3(T, x)
      BY DEF Clean3
<1> DEFINE P == Parts(T, x)
           types == [i \in DOMAIN P |-> Types2(PartType(T, i), P[i])]
           carried == [i \in DOMAIN P |-> Carries2(PartType(T, i), P[i])]
           narrow == [i \in DOMAIN P |-> Narrows2(PartType(T, i), P[i])]
<1>1. /\ TypeLayer(T, x, types) /\ Carries3(T, x) = CarriedLayer(T, x, carried)
      /\ Narrows3(T, x) = NarrowLayer(T, x, narrow)
      BY FoldsAreLayers
<1>2. P = x /\ IsSeq(x) /\ (\A i \in DOMAIN x : types[i])
      BY <1>1 DEF Parts, TypeLayer
<1>3. T.k = "struct" => DOMAIN T.fields = DOMAIN x
      <2> SUFFICES ASSUME T.k = "struct" PROVE DOMAIN T.fields = DOMAIN x
            OBVIOUS
      <2>1. IsSeq(T.fields) /\ IsSeq(x) /\ Len(x) = Len(T.fields)
            BY <1>1, <1>2 DEF TypeLayer
      <2>2. DOMAIN T.fields = 1 .. Len(T.fields) /\ DOMAIN x = 1 .. Len(x)
            BY <2>1 DEF IsSeq
      <2> QED
            BY <2>1, <2>2
<1>4. ASSUME NEW i \in DOMAIN P
      PROVE  carried[i] /\ narrow[i]
      <2>1. Clean2(PartType(T, i))
            BY <1>2, <1>3 DEF PartType
      <2>2. Types2(PartType(T, i), P[i])
            BY <1>2
      <2> QED
            BY <2>1, <2>2 DEF Clean2
<1>5. DOMAIN carried = DOMAIN P /\ DOMAIN narrow = DOMAIN P
      OBVIOUS
<1>6. T.k \notin Unsupported /\ T.k # "char"
      BY DEF Composite, Unsupported
<1> HIDE DEF types, carried, narrow, P
<1> QED
      BY <1>1, <1>4, <1>5, <1>6 DEF CarriedLayer, NarrowLayer

LEMMA CleanComposites4 ==
    ASSUME NEW T, T.k \in Composite,
           T.k # "struct" => Clean3(T.of),
           T.k = "struct" => \A i \in DOMAIN T.fields : Clean3(T.fields[i])
    PROVE  Clean4(T)
<1> SUFFICES ASSUME NEW x, Types4(T, x)
             PROVE  Carries4(T, x) /\ Narrows4(T, x)
      BY DEF Clean4
<1> DEFINE P == Parts(T, x)
           types == [i \in DOMAIN P |-> Types3(PartType(T, i), P[i])]
           carried == [i \in DOMAIN P |-> Carries3(PartType(T, i), P[i])]
           narrow == [i \in DOMAIN P |-> Narrows3(PartType(T, i), P[i])]
<1>1. /\ TypeLayer(T, x, types) /\ Carries4(T, x) = CarriedLayer(T, x, carried)
      /\ Narrows4(T, x) = NarrowLayer(T, x, narrow)
      BY FoldsAreLayers
<1>2. P = x /\ IsSeq(x) /\ (\A i \in DOMAIN x : types[i])
      BY <1>1 DEF Parts, TypeLayer
<1>3. T.k = "struct" => DOMAIN T.fields = DOMAIN x
      <2> SUFFICES ASSUME T.k = "struct" PROVE DOMAIN T.fields = DOMAIN x
            OBVIOUS
      <2>1. IsSeq(T.fields) /\ IsSeq(x) /\ Len(x) = Len(T.fields)
            BY <1>1, <1>2 DEF TypeLayer
      <2>2. DOMAIN T.fields = 1 .. Len(T.fields) /\ DOMAIN x = 1 .. Len(x)
            BY <2>1 DEF IsSeq
      <2> QED
            BY <2>1, <2>2
<1>4. ASSUME NEW i \in DOMAIN P
      PROVE  carried[i] /\ narrow[i]
      <2>1. Clean3(PartType(T, i))
            BY <1>2, <1>3 DEF PartType
      <2>2. Types3(PartType(T, i), P[i])
            BY <1>2
      <2> QED
            BY <2>1, <2>2 DEF Clean3
<1>5. DOMAIN carried = DOMAIN P /\ DOMAIN narrow = DOMAIN P
      OBVIOUS
<1>6. T.k \notin Unsupported /\ T.k # "char"
      BY DEF Composite, Unsupported
<1> HIDE DEF types, carried, narrow, P
<1> QED
      BY <1>1, <1>4, <1>5, <1>6 DEF CarriedLayer, NarrowLayer

LEMMA CleanComposites5 ==
    ASSUME NEW T, T.k \in Composite,
           T.k # "struct" => Clean4(T.of),
           T.k = "struct" => \A i \in DOMAIN T.fields : Clean4(T.fields[i])
    PROVE  Clean5(T)
<1> SUFFICES ASSUME NEW x, Types5(T, x)
             PROVE  Carries5(T, x) /\ Narrows5(T, x)
      BY DEF Clean5
<1> DEFINE P == Parts(T, x)
           types == [i \in DOMAIN P |-> Types4(PartType(T, i), P[i])]
           carried == [i \in DOMAIN P |-> Carries4(PartType(T, i), P[i])]
           narrow == [i \in DOMAIN P |-> Narrows4(PartType(T, i), P[i])]
<1>1. /\ TypeLayer(T, x, types) /\ Carries5(T, x) = CarriedLayer(T, x, carried)
      /\ Narrows5(T, x) = NarrowLayer(T, x, narrow)
      BY FoldsAreLayers
<1>2. P = x /\ IsSeq(x) /\ (\A i \in DOMAIN x : types[i])
      BY <1>1 DEF Parts, TypeLayer
<1>3. T.k = "struct" => DOMAIN T.fields = DOMAIN x
      <2> SUFFICES ASSUME T.k = "struct" PROVE DOMAIN T.fields = DOMAIN x
            OBVIOUS
      <2>1. IsSeq(T.fields) /\ IsSeq(x) /\ Len(x) = Len(T.fields)
            BY <1>1, <1>2 DEF TypeLayer
      <2>2. DOMAIN T.fields = 1 .. Len(T.fields) /\ DOMAIN x = 1 .. Len(x)
            BY <2>1 DEF IsSeq
      <2> QED
            BY <2>1, <2>2
<1>4. ASSUME NEW i \in DOMAIN P
      PROVE  carried[i] /\ narrow[i]
      <2>1. Clean4(PartType(T, i))
            BY <1>2, <1>3 DEF PartType
      <2>2. Types4(PartType(T, i), P[i])
            BY <1>2
      <2> QED
            BY <2>1, <2>2 DEF Clean4
<1>5. DOMAIN carried = DOMAIN P /\ DOMAIN narrow = DOMAIN P
      OBVIOUS
<1>6. T.k \notin Unsupported /\ T.k # "char"
      BY DEF Composite, Unsupported
<1> HIDE DEF types, carried, narrow, P
<1> QED
      BY <1>1, <1>4, <1>5, <1>6 DEF CarriedLayer, NarrowLayer

LEMMA CleanComposites6 ==
    ASSUME NEW T, T.k \in Composite,
           T.k # "struct" => Clean5(T.of),
           T.k = "struct" => \A i \in DOMAIN T.fields : Clean5(T.fields[i])
    PROVE  Clean6(T)
<1> SUFFICES ASSUME NEW x, Types6(T, x)
             PROVE  Carries6(T, x) /\ Narrows6(T, x)
      BY DEF Clean6
<1> DEFINE P == Parts(T, x)
           types == [i \in DOMAIN P |-> Types5(PartType(T, i), P[i])]
           carried == [i \in DOMAIN P |-> Carries5(PartType(T, i), P[i])]
           narrow == [i \in DOMAIN P |-> Narrows5(PartType(T, i), P[i])]
<1>1. /\ TypeLayer(T, x, types) /\ Carries6(T, x) = CarriedLayer(T, x, carried)
      /\ Narrows6(T, x) = NarrowLayer(T, x, narrow)
      BY FoldsAreLayers
<1>2. P = x /\ IsSeq(x) /\ (\A i \in DOMAIN x : types[i])
      BY <1>1 DEF Parts, TypeLayer
<1>3. T.k = "struct" => DOMAIN T.fields = DOMAIN x
      <2> SUFFICES ASSUME T.k = "struct" PROVE DOMAIN T.fields = DOMAIN x
            OBVIOUS
      <2>1. IsSeq(T.fields) /\ IsSeq(x) /\ Len(x) = Len(T.fields)
            BY <1>1, <1>2 DEF TypeLayer
      <2>2. DOMAIN T.fields = 1 .. Len(T.fields) /\ DOMAIN x = 1 .. Len(x)
            BY <2>1 DEF IsSeq
      <2> QED
            BY <2>1, <2>2
<1>4. ASSUME NEW i \in DOMAIN P
      PROVE  carried[i] /\ narrow[i]
      <2>1. Clean5(PartType(T, i))
            BY <1>2, <1>3 DEF PartType
      <2>2. Types5(PartType(T, i), P[i])
            BY <1>2
      <2> QED
            BY <2>1, <2>2 DEF Clean5
<1>5. DOMAIN carried = DOMAIN P /\ DOMAIN narrow = DOMAIN P
      OBVIOUS
<1>6. T.k \notin Unsupported /\ T.k # "char"
      BY DEF Composite, Unsupported
<1> HIDE DEF types, carried, narrow, P
<1> QED
      BY <1>1, <1>4, <1>5, <1>6 DEF CarriedLayer, NarrowLayer

\* Nothing is lost of the evaluations of a proof.
LEMMA EvaluationsAreClean ==
    ASSUME NEW e, HasType(ProofEvaluations, e)
    PROVE  Carried(ProofEvaluations, e) /\ Narrow(ProofEvaluations, e)
<1> DEFINE bytes == [k |-> "bytes"]
           chunks == [k |-> "seq", of |-> bytes]
           some == [k |-> "seq", of |-> PointEvaluations]
           optional == [k |-> "option", of |-> PointEvaluations]
           sorted == [k |-> "seq", of |-> optional]
<1>1. Clean1(bytes) /\ Clean2(bytes) /\ Clean3(bytes)
      <2>1. CleanLeaf(bytes)
            BY DEF CleanLeaf, Composite, Unsupported
      <2> QED
            BY <2>1, CleanLeaves
<1>2. chunks.k = "seq" /\ chunks.of = bytes /\ "seq" \in Composite /\ "struct" \in Composite
      /\ "option" \in Composite
      BY DEF Composite
<1>3. /\ PointEvaluations.k = "struct" /\ DOMAIN PointEvaluations.fields = {1, 2}
      /\ PointEvaluations.fields[1] = chunks /\ PointEvaluations.fields[2] = chunks
      BY DEF PointEvaluations
<1>4. /\ ProofEvaluations.k = "struct" /\ DOMAIN ProofEvaluations.fields = {1, 2, 3, 4}
      /\ ProofEvaluations.fields[1] = some
      /\ ProofEvaluations.fields[2] = PointEvaluations
      /\ ProofEvaluations.fields[3] = sorted
      /\ ProofEvaluations.fields[4] = optional
      BY DEF ProofEvaluations
<1>5. /\ some.k = "seq" /\ some.of = PointEvaluations
      /\ optional.k = "option" /\ optional.of = PointEvaluations
      /\ sorted.k = "seq" /\ sorted.of = optional
      OBVIOUS
<1> HIDE DEF bytes, chunks, some, optional, sorted
<1>6. Clean2(chunks) /\ Clean3(chunks)
      BY <1>1, <1>2, CleanComposites2, CleanComposites3
<1>7. Clean4(chunks)
      BY <1>1, <1>2, CleanComposites4
<1>8. Clean3(PointEvaluations) /\ Clean4(PointEvaluations) /\ Clean5(PointEvaluations)
      BY <1>2, <1>3, <1>6, <1>7, CleanComposites3, CleanComposites4, CleanComposites5
<1>9. Clean5(some) /\ Clean4(optional) /\ Clean5(optional)
      BY <1>2, <1>5, <1>8, CleanComposites4, CleanComposites5
<1>10. Clean5(sorted)
      BY <1>2, <1>5, <1>9, CleanComposites5
<1>11. Clean6(ProofEvaluations)
      BY <1>2, <1>4, <1>8, <1>9, <1>10, CleanComposites6
<1>12. Types6(ProofEvaluations, e)
      BY DEF Types6, HasType
<1>13. Carries6(ProofEvaluations, e) /\ Narrows6(ProofEvaluations, e)
      BY <1>11, <1>12 DEF Clean6
<1> QED
      BY <1>13 DEF Carries6, Narrows6, Carried, Narrow

\* So the evaluations are the same after they were given to OCaml and taken back.
LEMMA EvaluationsSurvive ==
    ASSUME NEW e \in Evals
    PROVE  Deserialize(ProofEvaluations, Serialize(ProofEvaluations, e))[1] = e
<1> DEFINE j == Serialize(ProofEvaluations, e)
           back == IF j = Failed THEN <<>> ELSE Deserialize(ProofEvaluations, j)
<1>1. HasType(ProofEvaluations, e)
      BY ProofsAssumption
<1>2. Survives(ProofEvaluations, e, back)
      BY <1>1, ValueSurvives
<1>3. back = <<e>> /\ back # <<>>
      BY <1>1, <1>2, EvaluationsAreClean DEF Survives
<1>4. Deserialize(ProofEvaluations, j) = <<e>>
      BY <1>3
<1> HIDE DEF j, back
<1> QED
      BY <1>4 DEF j

\* Two vectors of the same length are zipped without loss.
LEMMA ZipIs ==
    ASSUME NEW n \in Nat, NEW a, NEW b, IsTuple(a, n), IsTuple(b, n)
    PROVE  ZipShortest(a, b) = [i \in 1 .. n |-> <<a[i], b[i]>>]
<1>1. Len(a) = n /\ Len(b) = n
      BY DEF IsTuple
<1> QED
      BY <1>1 DEF ZipShortest

\* The opening proof is unzipped and zipped again.
LEMMA OpeningsSurvive ==
    ASSUME NEW lr \in Openings
    PROVE  OpeningProofOfWasm(WasmOpeningProof(lr)) = lr
<1> DEFINE n == Len(lr)
           a == [i \in DOMAIN lr |-> lr[i][1]]
           b == [i \in DOMAIN lr |-> lr[i][2]]
<1>1. IsSeq(lr) /\ \A i \in DOMAIN lr : lr[i] = <<lr[i][1], lr[i][2]>>
      BY ProofsAssumption
<1>2. n \in Nat /\ lr = [i \in 1 .. n |-> lr[i]] /\ DOMAIN lr = 1 .. n
      BY <1>1 DEF IsSeq
<1>3. WasmOpeningProof(lr).lr_0 = a /\ WasmOpeningProof(lr).lr_1 = b
      BY DEF WasmOpeningProof, Unzip
<1>4. IsTuple(a, n) /\ IsTuple(b, n)
      BY <1>2 DEF IsTuple
<1>5. \A i \in 1 .. n : <<a[i], b[i]>> = lr[i]
      BY <1>1, <1>2
<1> HIDE DEF n, a, b
<1>6. ZipShortest(a, b) = [i \in 1 .. n |-> <<a[i], b[i]>>]
      BY <1>2, <1>4, ZipIs
<1>7. ZipShortest(a, b) = lr
      BY <1>2, <1>5, <1>6
<1> QED
      BY <1>3, <1>7 DEF OpeningProofOfWasm

\* What the prover returned, as it is in the wasm build.
HeldProof(lr, public, evals, prev) ==
    WasmProverProof([lr |-> lr, evals |-> evals, prev |-> prev], public)

LEMMA HeldProofIs ==
    ASSUME NEW lr, NEW public, NEW evals, NEW prev
    PROVE  HeldProof(lr, public, evals, prev) =
             [proof |-> WasmOpeningProof(lr), evals |-> evals, public |-> public,
              prev_challenges_scalars |-> [i \in DOMAIN prev |-> prev[i].chals],
              prev_challenges_comms |-> [i \in DOMAIN prev |-> WasmPolyComm(prev[i].comm)]]
BY DEF HeldProof, WasmProverProof

\* The verifier is given what the prover returned.
LEMMA HeldProofMeans ==
    ASSUME NEW lr \in Openings, NEW public, NEW evals, NEW prev, PrevOK(prev)
    PROVE  LET w == HeldProof(lr, public, evals, prev)
           IN  /\ ProverProofOfWasm(w) = [lr |-> lr, evals |-> evals, prev |-> prev]
               /\ w.public = public /\ w # NoKey
<1> DEFINE w == HeldProof(lr, public, evals, prev)
           n == Len(prev)
           a == [i \in 1 .. n |-> ChalsOf(prev, i)]
           b == [i \in 1 .. n |-> WasmPolyComm(prev[i].comm)]
           zip == ZipShortest(a, b)
<1>1. /\ n \in Nat /\ IsTuple(prev, n) /\ DOMAIN prev = 1 .. n
      /\ \A i \in 1 .. n : prev[i] = [chals |-> ChalsOf(prev, i), comm |-> <<prev[i].comm[1]>>]
      BY DEF PrevOK
<1>2. /\ w.proof = WasmOpeningProof(lr) /\ w.evals = evals /\ w.public = public
      /\ w.prev_challenges_scalars = a /\ w.prev_challenges_comms = b
      BY <1>1, HeldProofIs DEF ChalsOf
<1>3. w # NoKey
      BY HeldProofIs DEF NoKey
<1>4. IsTuple(a, n) /\ IsTuple(b, n)
      BY DEF IsTuple
<1>5. \A i \in 1 .. n : a[i] = ChalsOf(prev, i) /\ b[i].unshifted = prev[i].comm
      BY DEF WasmPolyComm
<1> HIDE DEF w, n, a, b
<1>6. zip = [i \in 1 .. n |-> <<a[i], b[i]>>]
      BY <1>1, <1>4, ZipIs
<1> HIDE DEF zip
<1>7. DOMAIN zip = 1 .. n /\ \A i \in 1 .. n : zip[i][1] = a[i] /\ zip[i][2] = b[i]
      BY <1>6
<1>8. \A i \in 1 .. n : [chals |-> zip[i][1], comm |-> zip[i][2].unshifted] = prev[i]
      <2> SUFFICES ASSUME NEW i \in 1 .. n
                   PROVE  [chals |-> zip[i][1], comm |-> zip[i][2].unshifted] = prev[i]
            OBVIOUS
      <2>1. prev[i] = [chals |-> ChalsOf(prev, i), comm |-> <<prev[i].comm[1]>>]
            BY <1>1
      <2>2. prev[i].comm = <<prev[i].comm[1]>>
            BY <2>1
      <2>3. prev[i] = [chals |-> ChalsOf(prev, i), comm |-> prev[i].comm]
            BY <2>1, <2>2
      <2>4. zip[i][1] = ChalsOf(prev, i) /\ zip[i][2].unshifted = prev[i].comm
            BY <1>5, <1>7
      <2> QED
            BY <2>3, <2>4
<1>9. [i \in DOMAIN zip |-> [chals |-> zip[i][1], comm |-> zip[i][2].unshifted]] = prev
      BY <1>1, <1>7, <1>8 DEF IsTuple
<1>10. ProverProofOfWasm(w) =
         [lr |-> OpeningProofOfWasm(w.proof), evals |-> w.evals,
          prev |-> [i \in DOMAIN zip |-> [chals |-> zip[i][1], comm |-> zip[i][2].unshifted]]]
      BY <1>2 DEF ProverProofOfWasm, zip
<1>11. OpeningProofOfWasm(w.proof) = lr
      BY <1>2, OpeningsSurvive
<1>12. ProverProofOfWasm(w) = [lr |-> lr, evals |-> evals, prev |-> prev]
      BY <1>2, <1>9, <1>10, <1>11
<1> QED
      BY <1>2, <1>3, <1>12 DEF w

\* Taking the proof apart and putting it together again changes nothing.
LEMMA HeldProofSurvives ==
    ASSUME NEW lr \in Openings, NEW public \in Publics, NEW evals \in Evals, NEW prev,
           PrevOK(prev)
    PROVE  Constructed(Exposed(HeldProof(lr, public, evals, prev)))
             = HeldProof(lr, public, evals, prev)
<1> DEFINE w == HeldProof(lr, public, evals, prev)
           n == Len(prev)
           a == [i \in 1 .. n |-> ChalsOf(prev, i)]
           c == [i \in 1 .. n |-> IntoAbi(a[i])]
           j == Serialize(ProofEvaluations, evals)
           bytes == IntoAbi(public)
           opening == WasmOpeningProof(lr)
           comms == [i \in DOMAIN prev |-> WasmPolyComm(prev[i].comm)]
           x == [proof |-> opening, evals |-> j, public |-> bytes,
                 prev_challenges_scalars |-> c, prev_challenges_comms |-> comms]
<1>1. /\ n \in Nat /\ DOMAIN prev = 1 .. n
      /\ \A i \in 1 .. n : ChalsOf(prev, i) \in Seq(Element)
      BY DEF PrevOK
<1>2. w = [proof |-> opening, evals |-> evals, public |-> public,
           prev_challenges_scalars |-> a, prev_challenges_comms |-> comms]
      BY <1>1, HeldProofIs DEF ChalsOf
<1>3. DOMAIN a = 1 .. n /\ DOMAIN c = 1 .. n
      OBVIOUS
<1>4. Deserialize(ProofEvaluations, j)[1] = evals
      BY EvaluationsSurvive
<1>5. FromAbi(bytes)[1] = public
      <2>1. public \in Seq(Element)
            BY ProofsAssumption
      <2> QED
            BY <2>1, FlatVectorsSurvive
<1>6. [i \in DOMAIN c |-> FromAbi(c[i])[1]] = a
      <2>1. \A i \in 1 .. n : FromAbi(c[i])[1] = ChalsOf(prev, i)
            <3> SUFFICES ASSUME NEW i \in 1 .. n PROVE FromAbi(c[i])[1] = ChalsOf(prev, i)
                  OBVIOUS
            <3>1. ChalsOf(prev, i) \in Seq(Element)
                  BY <1>1
            <3>2. c[i] = IntoAbi(ChalsOf(prev, i))
                  OBVIOUS
            <3> QED
                  BY <3>1, <3>2, FlatVectorsSurvive
      <2> QED
            BY <2>1
<1> HIDE DEF w, n, a, j, bytes, opening, comms
<1>7. Exposed(w) = x
      BY <1>2, <1>3 DEF Exposed, j, bytes
<1> HIDE DEF c
<1>8. Constructed(x) = [proof |-> opening, evals |-> evals, public |-> public,
                        prev_challenges_scalars |-> a, prev_challenges_comms |-> comms]
      BY <1>4, <1>5, <1>6 DEF Constructed
<1> QED
      BY <1>2, <1>7, <1>8 DEF w

\* The proof is the one that the prover returned for what the caller sent.
IsSentProof(w, s, lr, public, evals, prev) ==
    /\ s = [proof |-> [lr |-> lr, evals |-> evals, prev |-> prev], public |-> public]
    /\ w = HeldProof(lr, public, evals, Effective(prev))

ProofInv ==
    proof # NoKey =>
      \E lr \in Openings, public \in Publics, evals \in Evals, prev \in Prevs :
        IsSentProof(proof, sent, lr, public, evals, prev)

LEMMA CreateProofInv ==
    ASSUME NEW lr \in Openings, NEW public \in Publics, NEW evals \in Evals,
           NEW prev \in Prevs, CreateProof(lr, public, evals, prev)
    PROVE  ProofInv'
<1> DEFINE sgs == [i \in DOMAIN prev |-> prev[i].comm[1]]
           all == AllChallenges(prev)
<1>1. all \in Seq(Element) /\ RecursionChallenges(all, sgs) = Effective(prev)
      BY ChallengesSurvive
<1>2. FromAbi(IntoAbi(all))[1] = all
      BY <1>1, FlatVectorsSurvive
<1>3. /\ proof' = WasmProverProof([lr |-> lr, evals |-> evals,
                      prev |-> RecursionChallenges(FromAbi(IntoAbi(all))[1], sgs)], public)
      /\ sent' = [proof |-> [lr |-> lr, evals |-> evals, prev |-> prev], public |-> public]
      BY DEF CreateProof
<1> HIDE DEF sgs, all
<1>4. proof' = HeldProof(lr, public, evals, Effective(prev))
      BY <1>1, <1>2, <1>3 DEF HeldProof
<1>5. IsSentProof(proof', sent', lr, public, evals, prev)
      BY <1>3, <1>4 DEF IsSentProof
<1> QED
      BY <1>5 DEF ProofInv

\* A proof that is exposed to JavaScript and constructed again, however often, is the
\* one the prover returned for the opening, the evaluations, the public input and the
\* recursion challenges that were sent, whatever their number and their values, with
\* the commitments that have no challenges left out.
THEOREM ProofsAlwaysSurviveTheBoundary == Spec => []ProofsSurviveTheBoundary
<1>1. Init => ProofInv
      BY DEF Init, ProofInv
<1>2. ProofInv /\ [Next]_vars => ProofInv'
      <2> SUFFICES ASSUME ProofInv, [Next]_vars PROVE ProofInv'
            OBVIOUS
      <2>1. CASE UNCHANGED <<proof, sent>>
            BY <2>1 DEF ProofInv
      <2>2. CASE Begin
            <3>1. ASSUME NEW c, Create(c) \/ Receive(c)
                  PROVE  UNCHANGED <<proof, sent>>
                  BY <3>1 DEF Create, Receive
            <3>2. CASE Dummy
                  BY <2>1, <3>2 DEF Dummy
            <3>3. ASSUME NEW s, CrossValue(s)
                  PROVE  UNCHANGED <<proof, sent>>
                  BY <3>3 DEF CrossValue
            <3>4. ASSUME NEW lr \in Openings, NEW public \in Publics, NEW evals \in Evals,
                         NEW prev \in Prevs, CreateProof(lr, public, evals, prev)
                  PROVE  ProofInv'
                  BY <3>4, CreateProofInv
            <3>5. ASSUME NEW challenges \in Publics, CreateProofPanics(challenges), Fresh
                  PROVE  ProofInv'
                  BY <3>5 DEF CreateProofPanics, Fresh, ProofInv
            <3> QED
                  BY <2>1, <2>2, <3>1, <3>2, <3>3, <3>4, <3>5 DEF Begin
      <2>3. CASE RebuildProof
            <3>1. proof # NoKey /\ proof' = Constructed(Exposed(proof)) /\ sent' = sent
                  BY <2>3 DEF RebuildProof
            <3>2. PICK lr \in Openings, public \in Publics, evals \in Evals, prev \in Prevs :
                    IsSentProof(proof, sent, lr, public, evals, prev)
                  BY <3>1 DEF ProofInv
            <3>3. proof' = proof
                  BY <3>1, <3>2, EffectivePrev, HeldProofSurvives DEF IsSentProof
            <3> QED
                  BY <2>1, <3>1, <3>3
      <2>4. CASE NumberStep
            BY <2>1, <2>4 DEF NumberStep
      <2>5. CASE Read \/ Rebuild
            BY <2>1, <2>5 DEF Read, Rebuild
      <2>6. CASE \E format \in {"file", "json"} : Write(format)
            BY <2>1, <2>6 DEF Write
      <2>7. CASE UNCHANGED vars
            BY <2>1, <2>7 DEF vars
      <2> QED
            BY <2>2, <2>3, <2>4, <2>5, <2>6, <2>7 DEF Next
<1>3. ProofInv => ProofsSurviveTheBoundary
      <2> SUFFICES ASSUME ProofInv, proof # NoKey
                   PROVE  /\ ProverProofOfWasm(proof) = [sent.proof EXCEPT !.prev = Effective(@)]
                          /\ proof.public = sent.public
            BY DEF ProofsSurviveTheBoundary
      <2>1. PICK lr \in Openings, public \in Publics, evals \in Evals, prev \in Prevs :
              IsSentProof(proof, sent, lr, public, evals, prev)
            BY DEF ProofInv
      <2>2. /\ sent.proof = [lr |-> lr, evals |-> evals, prev |-> prev] /\ sent.public = public
            /\ proof = HeldProof(lr, public, evals, Effective(prev))
            BY <2>1 DEF IsSentProof
      <2>3. /\ ProverProofOfWasm(proof) = [lr |-> lr, evals |-> evals, prev |-> Effective(prev)]
            /\ proof.public = public
            BY <2>2, EffectivePrev, HeldProofMeans
      <2> QED
            BY <2>2, <2>3
<1> QED
      BY <1>1, <1>2, <1>3, PTL DEF Spec
=============================================================================
