--------------------------- MODULE SerialTimeProofs ----------------------------
(***************************************************************************)
(* The arithmetic of SerialTime is that of the times the stamps stand for,  *)
(* as long as they are less than Half apart.                               *)
(***************************************************************************)
EXTENDS SerialTime, TLAPS

LEMMA ModulusFacts ==
  Half \in Nat /\ Half > 0 /\ Modulus \in Nat /\ Modulus = Half + Half
BY HalfAssumption DEF Modulus

(* A time is a multiple of Modulus and its stamp. *)
LEMMA StampOf ==
  \A t \in Nat :
    /\ t \div Modulus \in Int
    /\ t % Modulus \in Stamp
    /\ t = Modulus * (t \div Modulus) + (t % Modulus)
<1> SUFFICES ASSUME NEW t \in Nat
             PROVE  /\ t \div Modulus \in Int
                    /\ t % Modulus \in Stamp
                    /\ t = Modulus * (t \div Modulus) + (t % Modulus)
  OBVIOUS
<1>1. QED
  BY ModulusFacts, Z3 DEF Stamp

(* A multiple of Modulus that is small is one of the three smallest. *)
LEMMA SmallMultiple ==
  ASSUME NEW k \in Int, Modulus * k < 2 * Modulus, -2 * Modulus < Modulus * k
  PROVE  Modulus * k \in {-Modulus, 0, Modulus}
<1>1. CASE k >= 2
  <2>1. Modulus * k >= Modulus * 2
    BY <1>1, ModulusFacts
  <2>2. QED
    BY <2>1, ModulusFacts
<1>2. CASE k <= -2
  <2>1. Modulus * k <= Modulus * (-2)
    BY <1>2, ModulusFacts
  <2>2. QED
    BY <2>1, ModulusFacts
<1>3. CASE k \in {-1, 0, 1}
  BY <1>3, ModulusFacts
<1>4. QED
  BY <1>1, <1>2, <1>3

(* TimeDiff (_itimediff in ikcp.c) of two stamps is the difference of the   *)
(* times: the clock may come round between them.                            *)
THEOREM DiffExact ==
  ASSUME NEW x \in Nat, NEW y \in Nat, x - y < Half, y - x <= Half
  PROVE  TimeDiff(Now32(x), Now32(y)) = x - y
<1> DEFINE qx == x \div Modulus
           qy == y \div Modulus
           sx == x % Modulus
           sy == y % Modulus
<1>1. /\ qx \in Int /\ sx \in Stamp /\ x = Modulus * qx + sx
      /\ qy \in Int /\ sy \in Stamp /\ y = Modulus * qy + sy
  BY StampOf
<1>2. TimeDiff(Now32(x), Now32(y)) = TimeDiff(sx, sy)
  BY DEF Now32
<1> HIDE DEF qx, qy, sx, sy
<1> DEFINE m == Modulus * (qx - qy)
<1>3. m = Modulus * qx - Modulus * qy
  BY <1>1, ModulusFacts
<1>4. sx \in Int /\ sy \in Int /\ sx - sy < Modulus /\ sy - sx < Modulus
  BY <1>1, ModulusFacts DEF Stamp
<1>5. m = (x - y) - (sx - sy)
  BY <1>1, <1>3, <1>4, ModulusFacts
<1>6. m < 2 * Modulus /\ -2 * Modulus < m
  BY <1>4, <1>5, ModulusFacts
<1>7. m \in {-Modulus, 0, Modulus}
  BY <1>1, <1>6, SmallMultiple
<1> HIDE DEF m
<1>8. TimeDiff(sx, sy) = x - y
  BY <1>4, <1>5, <1>7, ModulusFacts DEF TimeDiff
<1>9. QED
  BY <1>2, <1>8

(* However far apart the times, a difference that is not negative is at     *)
(* most the true one, and it is the true one of times that are less than a  *)
(* turn of the clock apart.                                                 *)
THEOREM DiffBelow ==
  ASSUME NEW x \in Nat, NEW y \in Nat, y <= x,
         TimeDiff(Now32(x), Now32(y)) >= 0
  PROVE  /\ TimeDiff(Now32(x), Now32(y)) <= x - y
         /\ x - y < Modulus => TimeDiff(Now32(x), Now32(y)) = x - y
<1> DEFINE qx == x \div Modulus
           qy == y \div Modulus
           sx == x % Modulus
           sy == y % Modulus
           d == TimeDiff(sx, sy)
<1>1. /\ qx \in Int /\ sx \in Stamp /\ x = Modulus * qx + sx
      /\ qy \in Int /\ sy \in Stamp /\ y = Modulus * qy + sy
  BY StampOf
<1>2. TimeDiff(Now32(x), Now32(y)) = d
  BY DEF Now32
<1> HIDE DEF qx, qy, sx, sy
<1>3. sx \in Int /\ sy \in Int /\ sx - sy < Modulus /\ sy - sx < Modulus
  BY <1>1, ModulusFacts DEF Stamp
<1>4. /\ d \in Int /\ d < Half
      /\ d \in {sx - sy, sx - sy - Modulus, sx - sy + Modulus}
  BY <1>3, ModulusFacts DEF TimeDiff
<1> DEFINE k == qx - qy
<1>5. k \in Int /\ x - y = Modulus * k + (sx - sy)
  <2>1. Modulus * k = Modulus * qx - Modulus * qy
    BY <1>1, ModulusFacts
  <2>2. Modulus * qx \in Int /\ Modulus * qy \in Int
    BY <1>1, ModulusFacts
  <2>3. QED
    BY <1>1, <1>3, <2>1, <2>2
<1> HIDE DEF k, d
<1>6. PICK j \in Int : x - y = Modulus * j + d
  <2>1. CASE d = sx - sy
    BY <1>5, <2>1
  <2>2. CASE d = sx - sy - Modulus
    <3>1. Modulus * (k + 1) = Modulus * k + Modulus
      BY <1>5, ModulusFacts
    <3>2. x - y = Modulus * (k + 1) + d
      BY <1>3, <1>5, <2>2, <3>1, ModulusFacts
    <3>3. k + 1 \in Int
      BY <1>5
    <3>4. QED
      BY <3>2, <3>3
  <2>3. CASE d = sx - sy + Modulus
    <3>1. Modulus * (k - 1) = Modulus * k - Modulus
      BY <1>5, ModulusFacts
    <3>2. x - y = Modulus * (k - 1) + d
      BY <1>3, <1>5, <2>3, <3>1, ModulusFacts
    <3>3. k - 1 \in Int
      BY <1>5
    <3>4. QED
      BY <3>2, <3>3
  <2>4. QED
    BY <1>4, <2>1, <2>2, <2>3
<1>7. d >= 0
  BY <1>2
<1>8. CASE j <= -1
  <2>1. Modulus * j <= Modulus * (-1)
    BY <1>6, <1>8, ModulusFacts
  <2>2. QED
    BY <1>4, <1>6, <2>1, ModulusFacts
<1>9. CASE j >= 0
  <2>1. Modulus * j >= 0
    BY <1>6, <1>9, ModulusFacts
  <2>2. d <= x - y
    BY <1>4, <1>6, <2>1, ModulusFacts
  <2>3. CASE j = 0
    BY <1>2, <1>4, <1>6, <2>3, ModulusFacts
  <2>4. CASE j >= 1
    <3>1. Modulus * j >= Modulus * 1
      BY <1>6, <2>4, ModulusFacts
    <3>2. ~(x - y < Modulus)
      BY <1>4, <1>6, <1>7, <3>1, ModulusFacts
    <3>3. QED
      BY <1>2, <2>2, <3>2
  <2>5. QED
    BY <1>6, <1>9, <2>3, <2>4
<1>10. QED
  BY <1>6, <1>8, <1>9

(* The stamp a delay after the stamp of t is the stamp of the time then. *)
THEOREM AfterExact ==
  ASSUME NEW t \in Nat, NEW d \in Nat
  PROVE  After(Now32(t), d) = Now32(t + d)
<1> DEFINE s == t % Modulus
           q == t \div Modulus
           r1 == (s + d) % Modulus
           q1 == (s + d) \div Modulus
           r2 == (t + d) % Modulus
           q2 == (t + d) \div Modulus
<1>1. s \in Nat /\ q \in Int /\ t = Modulus * q + s
  <2>1. s \in Stamp /\ q \in Int /\ t = Modulus * q + s
    BY StampOf
  <2> HIDE DEF s, q
  <2>2. QED
    BY <2>1, ModulusFacts DEF Stamp
<1>2. r1 \in Stamp /\ q1 \in Int /\ s + d = Modulus * q1 + r1
  <2> HIDE DEF s
  <2>1. s + d \in Nat
    BY <1>1
  <2>2. QED
    BY <2>1, StampOf
<1>3. r2 \in Stamp /\ q2 \in Int /\ t + d = Modulus * q2 + r2
  BY StampOf
<1>4. After(Now32(t), d) = r1 /\ Now32(t + d) = r2
  BY DEF After, Now32
<1> HIDE DEF s, q, r1, q1, r2, q2
<1> DEFINE m == Modulus * (q + q1 - q2)
<1>5. m = Modulus * q + Modulus * q1 - Modulus * q2
  BY <1>1, <1>2, <1>3, ModulusFacts
<1>6. m = r2 - r1 /\ r1 \in Int /\ r2 \in Int
      /\ r2 - r1 < Modulus /\ r1 - r2 < Modulus
  BY <1>1, <1>2, <1>3, <1>5, ModulusFacts DEF Stamp
<1>7. m \in {-Modulus, 0, Modulus}
  BY <1>1, <1>2, <1>3, <1>6, SmallMultiple, ModulusFacts
<1> HIDE DEF m
<1>8. r1 = r2
  BY <1>6, <1>7, ModulusFacts
<1>9. QED
  BY <1>4, <1>8
=============================================================================
