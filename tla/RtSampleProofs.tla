-------------------------- MODULE RtSampleProofs ---------------------------
(***************************************************************************)
(* What becomes of the samples: those of the callback are played in the    *)
(* channels that the host has asked for, and it gets those that were       *)
(* recorded in them.  Proved for bytes of eight bits and for all back ends *)
(* but CoreAudio, for every number of frames and of channels, every format *)
(* and layout of both sides and either order of the bytes.                 *)
(*                                                                         *)
(* The way of a sample has four parts, and so has this module:             *)
(*   its value     a conversion changes it by less than a step (Converted) *)
(*   its bytes     they are in the order in which they are read (Ordered)  *)
(*   its place     that of its channel and frame, and of no other (Sides)  *)
(*   the stream    openStream has set it up for all this (Opened)          *)
(* Filled, Sent and PlayedNow are then the steps of an output, GotNow and  *)
(* HeardNow those of an input, and CycleInv is what a cycle keeps: besides *)
(* the samples it says that nothing else is left in the device buffer      *)
(* (SharedQuiet), which an output that follows another one relies on.      *)
(***************************************************************************)
EXTENDS RtDataProofs, WellFoundedInduction

-----------------------------------------------------------------------------
(* The values.                                                             *)

\* The distance of two samples, as floats.
Apart(a, b) == IF a < b THEN b - a ELSE a - b

\* Samples within a step of one of the formats are near.
LEMMA NearLemma ==
  ASSUME NEW f, NEW g, NEW x, NEW y, x # Garbled, y # Garbled, StepOf(f) \in Nat, StepOf(g) \in Nat,
         ToFloat(f, x) \in Int, ToFloat(g, y) \in Int,
         Apart(ToFloat(f, x), ToFloat(g, y)) <= StepOf(f) \/ Apart(ToFloat(f, x), ToFloat(g, y)) <= StepOf(g)
  PROVE  Near(f, x, g, y)
<1>1. /\ Max({StepOf(f), StepOf(g)}) \in Nat
      /\ StepOf(f) <= Max({StepOf(f), StepOf(g)}) /\ StepOf(g) <= Max({StepOf(f), StepOf(g)})
  BY MaxOfTwo
<1>2. Apart(ToFloat(f, x), ToFloat(g, y)) \in Int
  BY DEF Apart
<1> DEFINE m == Max({StepOf(f), StepOf(g)})
<1>3. m \in Nat
  BY <1>1
<1> HIDE DEF m
<1>4. Apart(ToFloat(f, x), ToFloat(g, y)) <= m
  BY <1>1, <1>2, <1>3 DEF m
<1> QED BY <1>4 DEF Near, Apart, m

\* A float that becomes an integer.
LEMMA Cancel ==
  ASSUME NEW a \in Int, NEW b \in Int, NEW c \in Nat \ {0}, a * c <= b * c
  PROVE  a <= b
<1> SUFFICES ASSUME a >= b + 1 PROVE FALSE
  OBVIOUS
<1>1. PICK k \in Nat : a = b + 1 + k
  <2>1. a - (b + 1) \in Nat /\ a = b + 1 + (a - (b + 1))
    OBVIOUS
  <2> QED BY <2>1
<1>2. a * c = b * c + c + k * c
  BY <1>1
<1>3. k * c \in Nat /\ b * c \in Int
  BY Product
<1> QED BY <1>2, <1>3

\* An integer of another width.
LEMMA RoundedLemma ==
  ASSUME NEW n, Full(n) \in Nat \ {0}, NEW q \in Nat \ {0}, Unit = q * Full(n), NEW x \in -Unit..Unit
  PROVE  /\ FromFloat(n, x) \in Int
         /\ 2 * FromFloat(n, x) <= Full(n) - 1 /\ -(Full(n) + 1) <= 2 * FromFloat(n, x)
         /\ Apart(x, (2 * FromFloat(n, x) + 1) * q) <= 2 * q
<1> DEFINE y == FromFloat(n, x)
           F == Full(n)
           d == 2 * Unit
           m == x * F - Unit
<1>1. d \in Nat \ {0} /\ m \in Int /\ x \in Int /\ F \in Nat \ {0} /\ Unit \in Nat \ {0}
  <2>1. Unit \in Nat /\ Unit # 0
    BY Product
  <2> QED BY <2>1
<1>2. y = IF m >= 0 THEN m \div d ELSE -((-m) \div d)
  BY DEF FromFloat
<1> HIDE DEF y, F, d, m
<1>3. ASSUME NEW z \in Nat PROVE z \div d \in Nat /\ (z \div d) * d <= z /\ z < (z \div d) * d + d
  BY <1>1
<1>4. /\ y \in Int /\ y * d <= m + (d - 1) /\ m <= y * d + (d - 1)
      /\ m >= 0 => y >= 0 /\ y * d <= m
      /\ m < 0 => y <= 0 /\ m <= y * d
  <2>1. CASE m >= 0
    <3>1. m \in Nat /\ y = m \div d
      BY <1>1, <1>2, <2>1
    <3> DEFINE w == y * d
    <3>2. y \in Nat /\ w <= m /\ m < w + d
      BY <1>3, <3>1
    <3>3. w \in Int
      BY <1>1, <3>2
    <3> HIDE DEF w
    <3>4. w <= m + (d - 1) /\ m <= w + (d - 1) /\ w <= m
      BY <1>1, <3>1, <3>2, <3>3
    <3>5. y \in Int /\ y >= 0 /\ ~(m < 0)
      BY <1>1, <2>1, <3>2
    <3> QED BY <3>4, <3>5 DEF w
  <2>2. CASE m < 0
    <3> DEFINE z == -m
               k == z \div d
               w == k * d
    <3>1. z \in Nat /\ y = -k
      BY <1>1, <1>2, <2>2
    <3>2. k \in Nat /\ w <= z /\ z < w + d
      BY <1>3, <3>1
    <3>3. w \in Int
      BY <1>1, <3>2
    <3>4. y * d = -w
      BY <1>1, <3>1, <3>2
    <3>5. m = -z
      BY <1>1
    <3> HIDE DEF z, k, w
    <3>6. -w <= m + (d - 1) /\ m <= -w + (d - 1) /\ m <= -w
      BY <1>1, <3>1, <3>2, <3>3, <3>5
    <3>7. y \in Int /\ y <= 0 /\ ~(m >= 0)
      BY <1>1, <2>2, <3>1, <3>2
    <3> QED BY <3>4, <3>6, <3>7
  <2> QED BY <1>1, <2>1, <2>2
<1> DEFINE a == x - q - 2 * q * y
<1>5. a \in Int /\ a * F = m - y * d /\ d = 2 * q * F
  <2>1. q * y \in Int /\ q * F = Unit
    BY <1>1, <1>4 DEF F
  <2>2. a * F = x * F - q * F - 2 * (q * F) * y
    BY <1>1, <1>4
  <2>3. 2 * (q * F) * y = y * d
    BY <1>1, <1>4, <2>1 DEF d
  <2>4. a * F = x * F - Unit - y * d
    BY <2>1, <2>2, <2>3
  <2> QED BY <1>1, <1>4, <2>1, <2>4 DEF m, d
<1>6. a <= 2 * q /\ -(2 * q) <= a
  <2> DEFINE w == y * d
             A == a * F
             B == (2 * q) * F
             C == (-(2 * q)) * F
  <2>1. w \in Int /\ A = m - w /\ B = d /\ C = -d
    BY <1>1, <1>4, <1>5
  <2>2. w <= m + (d - 1) /\ m <= w + (d - 1)
    BY <1>4
  <2> HIDE DEF w, A, B, C
  <2>3. A <= B /\ C <= A
    BY <1>1, <2>1, <2>2
  <2>4. 2 * q \in Int /\ -(2 * q) \in Int
    OBVIOUS
  <2> HIDE DEF a
  <2> QED BY <1>1, <1>5, <2>3, <2>4, Cancel DEF A, B, C
<1>7. Apart(x, (2 * y + 1) * q) <= 2 * q
  <2>1. (2 * y + 1) * q = x - a /\ x - a \in Int
    BY <1>1, <1>4
  <2> HIDE DEF a
  <2> QED BY <1>1, <1>5, <1>6, <2>1 DEF Apart
<1>8. 2 * y <= F - 1 /\ -(F + 1) <= 2 * y
  <2>1. x * F <= Unit * F /\ -(Unit * F) <= x * F
    <3>1. x + Unit \in Nat /\ x + Unit <= 2 * Unit /\ 2 * Unit \in Nat
      BY <1>1
    <3>2. (x + Unit) * F <= 2 * Unit * F /\ (x + Unit) * F \in Nat
      BY <1>1, <3>1, ProductGrows, Product
    <3>3. (x + Unit) * F = x * F + Unit * F /\ 2 * Unit * F = Unit * F + Unit * F
      BY <1>1
    <3>4. x * F \in Int /\ Unit * F \in Int
      BY <1>1
    <3> QED BY <3>2, <3>3, <3>4
  <2>2. /\ (2 * y) * Unit = y * d
        /\ (F - 1) * Unit = Unit * F - Unit /\ (-(F + 1)) * Unit = -(Unit * F) - Unit
    BY <1>1, <1>4 DEF d
  <2>3. /\ 2 * y \in Int /\ F - 1 \in Int /\ -(F + 1) \in Int
        /\ x * F \in Int /\ Unit * F \in Int /\ y * d \in Int
    BY <1>1, <1>4
  <2>4. CASE m >= 0
    <3>1. 0 <= 2 * y /\ -(F + 1) <= 0
      BY <1>1, <1>4, <2>4
    <3>2. (2 * y) * Unit <= (F - 1) * Unit
      BY <1>1, <1>4, <2>1, <2>2, <2>3, <2>4 DEF m
    <3>3. 2 * y <= F - 1
      BY <1>1, <2>3, <3>2, Cancel
    <3> QED BY <2>3, <3>1, <3>3
  <2>5. CASE m < 0
    <3>1. 2 * y <= 0 /\ 0 <= F - 1
      BY <1>1, <1>4, <2>5
    <3>2. (-(F + 1)) * Unit <= (2 * y) * Unit
      BY <1>1, <1>4, <2>1, <2>2, <2>3, <2>5 DEF m
    <3>3. -(F + 1) <= 2 * y
      BY <1>1, <2>3, <3>2, Cancel
    <3> QED BY <2>3, <3>1, <3>3
  <2> QED BY <1>1, <2>4, <2>5
<1> QED BY <1>4, <1>7, <1>8 DEF y, F


\* Two integer formats of h and h * k samples on each side of zero.
LEMMA HalvesLemma ==
  ASSUME NEW h \in Nat \ {0}, NEW k \in Nat \ {0}, NEW F, F = 2 * h - 1, NEW G, G = 2 * (h * k) - 1
  PROVE  /\ F \in Nat \ {0} /\ G \in Nat \ {0} /\ h * k \in Nat \ {0}
         /\ G = (k - 1) * F + F + (k - 1) /\ (k - 1) * F \in Nat
<1>1. h * k \in Nat \ {0}
  BY Product
<1>2. F \in Nat \ {0} /\ G \in Nat \ {0}
  BY <1>1
<1>3. (k - 1) * F = (2 * h - 1) * k - F /\ (2 * h - 1) * k = 2 * (h * k) - k
  OBVIOUS
<1>4. (k - 1) * F \in Nat
  BY <1>2, Product
<1> QED BY <1>1, <1>2, <1>3, <1>4

\* An integer to which zeros are added.
LEMMA WidenedLemma ==
  ASSUME NEW h \in Nat \ {0}, NEW k \in Nat \ {0}, NEW F, F = 2 * h - 1, NEW G, G = 2 * (h * k) - 1,
         NEW P \in Nat \ {0}, NEW Q \in Nat \ {0}, P * F = Q * G,
         NEW x \in Int, -h <= x, x <= h - 1
  PROVE  /\ Apart((2 * x + 1) * P, (2 * (x * k) + 1) * Q) <= 2 * P
         /\ -(h * k) <= x * k /\ x * k <= h * k - 1
<1> DEFINE u == 2 * x + 1
           v == 2 * (x * k) + 1
           a == u * P - v * Q
           z == (k - 1) * (u + F)
<1>1. u \in Int /\ v \in Int /\ a \in Int /\ F \in Nat \ {0} /\ G \in Nat \ {0}
  BY HalvesLemma
<1>2. /\ G = (k - 1) * F + F + (k - 1) /\ (k - 1) * F \in Nat
      /\ v = k * u - (k - 1)
  BY HalvesLemma
<1>3. u * G - v * F = z
  <2>1. u * G = u * ((k - 1) * F) + u * F + u * (k - 1)
    BY <1>1, <1>2
  <2>2. v * F = k * u * F - (k - 1) * F
    BY <1>1, <1>2
  <2>3. u * ((k - 1) * F) + u * F = k * u * F
    BY <1>1
  <2>4. z = u * (k - 1) + (k - 1) * F
    BY <1>1
  <2> HIDE DEF u, v, z
  <2> QED BY <1>1, <2>1, <2>2, <2>3, <2>4
<1>4. a * G = P * z
  <2>1. a * G = u * P * G - v * (Q * G)
    BY <1>1
  <2>2. v * (Q * G) = v * F * P
    BY <1>1
  <2>3. P * (u * G - v * F) = u * P * G - v * F * P
    BY <1>1
  <2> HIDE DEF u, v, a, z
  <2> QED BY <1>3, <2>1, <2>2, <2>3
<1>5. z \in Nat /\ z <= 2 * G
  <2>1. u + F \in Nat /\ u + F <= 2 * F /\ k - 1 \in Nat /\ 2 * F \in Nat
    BY <1>1
  <2>2. (u + F) * (k - 1) <= (2 * F) * (k - 1) /\ (u + F) * (k - 1) \in Nat
    BY <2>1, ProductGrows, Product
  <2>3. z = (u + F) * (k - 1) /\ (2 * F) * (k - 1) = 2 * ((k - 1) * F)
    BY <1>1
  <2> HIDE DEF z, u
  <2> QED BY <1>1, <1>2, <2>1, <2>2, <2>3
<1>6. 0 <= a /\ a <= 2 * P
  <2> HIDE DEF a, z
  <2>1. z * P <= (2 * G) * P /\ z * P \in Nat /\ 2 * G \in Nat
    BY <1>1, <1>5, ProductGrows, Product
  <2>2. 0 * G <= a * G /\ a * G <= (2 * P) * G
    BY <1>1, <1>4, <1>5, <2>1
  <2> QED BY <1>1, <2>2, Cancel
<1>7. Apart(u * P, v * Q) <= 2 * P
  <2>1. u * P \in Int /\ v * Q \in Int
    BY <1>1
  <2> HIDE DEF u, v
  <2> QED BY <1>6, <2>1 DEF Apart
<1>8. -(h * k) <= x * k /\ x * k <= h * k - 1
  <2>1. x + h \in Nat /\ x + h <= 2 * h - 1 /\ 2 * h - 1 \in Nat
    OBVIOUS
  <2>2. (x + h) * k <= (2 * h - 1) * k /\ (x + h) * k \in Nat
    BY <2>1, ProductGrows, Product
  <2>3. (x + h) * k = x * k + h * k /\ (2 * h - 1) * k = 2 * (h * k) - k
    OBVIOUS
  <2>4. x * k \in Int /\ h * k \in Int
    OBVIOUS
  <2> QED BY <2>2, <2>3, <2>4
<1> QED BY <1>7, <1>8 DEF u, v

\* And one that loses its last bits.
LEMMA NarrowedLemma ==
  ASSUME NEW h \in Nat \ {0}, NEW k \in Nat \ {0}, NEW F, F = 2 * h - 1, NEW G, G = 2 * (h * k) - 1,
         NEW P \in Nat \ {0}, NEW Q \in Nat \ {0}, P * F = Q * G,
         NEW x \in Int, -(h * k) <= x, x <= h * k - 1
  PROVE  /\ x \div k \in Int
         /\ Apart((2 * x + 1) * Q, (2 * (x \div k) + 1) * P) <= 2 * P
         /\ -h <= x \div k /\ x \div k <= h - 1
<1> DEFINE y == x \div k
           t == x - y * k
           u == 2 * x + 1
           v == 2 * y + 1
           e == 2 * t + 1 - k
           a == u * Q - v * P
           z == e * F - (k - 1) * v
<1>1. /\ y \in Int /\ 0 <= t /\ t < k
  OBVIOUS
<1> HIDE DEF y
<1>2. /\ G = (k - 1) * F + F + (k - 1) /\ (k - 1) * F \in Nat
      /\ F \in Nat \ {0} /\ G \in Nat \ {0} /\ h * k \in Nat \ {0}
  BY HalvesLemma
<1>3. /\ t \in Int /\ u \in Int /\ v \in Int /\ e \in Int /\ a \in Int /\ z \in Int
      /\ u = k * v + e /\ -(k - 1) <= e /\ e <= k - 1
  BY <1>1, <1>2
<1>4. -h <= y /\ y <= h - 1
  <2>1. y * k <= (h * k - 1) /\ -(h * k) < (y + 1) * k
    <3>1. y * k \in Int /\ (y + 1) * k = y * k + k
      BY <1>1
    <3> QED BY <1>1, <1>2, <3>1
  <2>2. ~(h <= y)
    <3> SUFFICES ASSUME h <= y PROVE FALSE
      OBVIOUS
    <3>1. h * k <= y * k /\ y * k \in Int
      BY <1>1, ProductGrows
    <3> QED BY <1>2, <2>1, <3>1
  <2>3. ~(y + 1 <= -h)
    <3> SUFFICES ASSUME y + 1 <= -h PROVE FALSE
      OBVIOUS
    <3>1. h <= -(y + 1) /\ -(y + 1) \in Nat
      BY <1>1
    <3>2. h * k <= (-(y + 1)) * k
      BY <3>1, ProductGrows
    <3>3. (-(y + 1)) * k = -((y + 1) * k) /\ (y + 1) * k \in Int
      BY <1>1
    <3> QED BY <1>2, <2>1, <3>2, <3>3
  <2> QED BY <1>1, <2>2, <2>3
<1>5. u * F - v * G = z
  <2>1. v * G = v * ((k - 1) * F) + v * F + v * (k - 1)
    BY <1>2, <1>3
  <2>2. u * F = k * v * F + e * F
    <3>1. u * F = (k * v + e) * F
      BY <1>3
    <3> HIDE DEF u, v, e
    <3> QED BY <1>2, <1>3, <3>1
  <2>3. v * ((k - 1) * F) + v * F = k * v * F
    BY <1>2, <1>3
  <2>4. v * (k - 1) = (k - 1) * v /\ k * v * F \in Int /\ e * F \in Int /\ (k - 1) * v \in Int
    BY <1>2, <1>3
  <2> DEFINE A == k * v * F
             B == v * ((k - 1) * F)
             C == v * F
             D == (k - 1) * v
             E == e * F
  <2>5. B \in Int /\ C \in Int
    BY <1>2, <1>3
  <2>6. u * F = A + E /\ v * G = B + C + D /\ B + C = A /\ z = E - D /\ A \in Int /\ D \in Int /\ E \in Int
    BY <2>1, <2>2, <2>3, <2>4
  <2> HIDE DEF A, B, C, D, E, u, v, e, z
  <2> QED BY <2>5, <2>6
<1>6. a * G = P * z
  <2>1. a * G = u * (Q * G) - v * P * G
    BY <1>2, <1>3
  <2>2. u * (Q * G) = u * F * P
    BY <1>2, <1>3
  <2>3. P * (u * F - v * G) = u * F * P - v * P * G
    BY <1>2, <1>3
  <2> HIDE DEF u, v, a, z
  <2> QED BY <1>5, <2>1, <2>2, <2>3
<1>7. -(2 * G) <= z /\ z <= 2 * G
  <2>1. -F <= v /\ v <= F
    BY <1>1, <1>4
  <2>2. ASSUME NEW p \in Int, NEW q \in Nat, NEW r \in Nat, -q <= p, p <= q
        PROVE  p * r \in Int /\ -(q * r) <= p * r /\ p * r <= q * r
    <3>1. p + q \in Nat /\ p + q <= 2 * q /\ 2 * q \in Nat
      BY <2>2
    <3>2. (p + q) * r <= (2 * q) * r /\ (p + q) * r \in Nat
      BY <3>1, ProductGrows, Product
    <3>3. (p + q) * r = p * r + q * r /\ (2 * q) * r = q * r + q * r /\ p * r \in Int /\ q * r \in Int
      OBVIOUS
    <3> QED BY <3>2, <3>3
  <2>3. e * F \in Int /\ -((k - 1) * F) <= e * F /\ e * F <= (k - 1) * F
    <3>1. k - 1 \in Nat
      OBVIOUS
    <3> HIDE DEF e
    <3> QED BY <1>2, <1>3, <2>2, <3>1
  <2>4. v * (k - 1) \in Int /\ -(F * (k - 1)) <= v * (k - 1) /\ v * (k - 1) <= F * (k - 1)
    <3>1. k - 1 \in Nat
      OBVIOUS
    <3> HIDE DEF v
    <3> QED BY <1>2, <1>3, <2>1, <2>2, <3>1
  <2>5. F * (k - 1) = (k - 1) * F /\ v * (k - 1) = (k - 1) * v
    BY <1>2, <1>3
  <2> DEFINE A == e * F
             B == (k - 1) * v
             C == (k - 1) * F
  <2>6. A \in Int /\ B \in Int /\ C \in Int /\ -C <= A /\ A <= C /\ -C <= B /\ B <= C
    BY <1>2, <2>3, <2>4, <2>5
  <2>7. z = A - B /\ G = C + F + (k - 1)
    BY <1>2
  <2> HIDE DEF A, B, C, z
  <2> QED BY <1>2, <2>6, <2>7
<1>8. -(2 * P) <= a /\ a <= 2 * P
  <2> HIDE DEF a, z
  <2>1. P * z <= (2 * P) * G /\ (-(2 * P)) * G <= P * z
    <3>1. z + 2 * G \in Nat /\ z + 2 * G <= 4 * G /\ 4 * G \in Nat
      BY <1>2, <1>3, <1>7
    <3>2. (z + 2 * G) * P <= (4 * G) * P /\ (z + 2 * G) * P \in Nat
      BY <3>1, ProductGrows, Product
    <3>3. /\ (z + 2 * G) * P = P * z + 2 * (G * P) /\ (4 * G) * P = 4 * (G * P)
          /\ (2 * P) * G = 2 * (G * P) /\ (-(2 * P)) * G = -(2 * (G * P))
          /\ P * z \in Int /\ G * P \in Int
      BY <1>2, <1>3
    <3> QED BY <3>2, <3>3
  <2>2. a * G <= (2 * P) * G /\ (-(2 * P)) * G <= a * G
    BY <1>6, <2>1
  <2> QED BY <1>2, <1>3, <2>2, Cancel
<1>9. Apart(u * Q, v * P) <= 2 * P
  <2>1. u * Q \in Int /\ v * P \in Int
    BY <1>3
  <2> HIDE DEF u, v
  <2> QED BY <1>8, <2>1 DEF Apart
<1> QED BY <1>1, <1>4, <1>9 DEF u, v, y

\* The samples of an integer format of n bytes on each side of zero.
Half(n) == 2 ^ (ByteBits * n - 1)

\* The bytes of the code.
LEMMA HalfLemma ==
  ASSUME ByteBits = 8
  PROVE  /\ \A n \in Widths : Half(n) \in Nat \ {0} /\ Full(n) = 2 * Half(n) - 1
         /\ \A m, n \in Widths : m < n =>
              /\ 2 ^ (ByteBits * (n - m)) \in Nat \ {0}
              /\ Half(n) = Half(m) * 2 ^ (ByteBits * (n - m))
<1>1. Half(1) = 128 /\ Half(2) = 32768 /\ Half(3) = 8388608 /\ Half(4) = 2147483648
  BY SMT DEF Half
<1>2. Full(1) = 255 /\ Full(2) = 65535 /\ Full(3) = 16777215 /\ Full(4) = 4294967295
  BY SMT DEF Full
<1>3. ASSUME NEW n \in Widths PROVE Half(n) \in Nat \ {0} /\ Full(n) = 2 * Half(n) - 1
  BY <1>1, <1>2, SMT DEF Widths
<1>4. /\ 2 ^ (ByteBits * (2 - 1)) = 256 /\ 2 ^ (ByteBits * (3 - 2)) = 256 /\ 2 ^ (ByteBits * (4 - 3)) = 256
      /\ 2 ^ (ByteBits * (3 - 1)) = 65536 /\ 2 ^ (ByteBits * (4 - 2)) = 65536
      /\ 2 ^ (ByteBits * (4 - 1)) = 16777216
  BY SMT
<1>5. ASSUME NEW m \in Widths, NEW n \in Widths, m < n
      PROVE  <<m, n>> \in {<<1, 2>>, <<1, 3>>, <<1, 4>>, <<2, 3>>, <<2, 4>>, <<3, 4>>}
  BY <1>5 DEF Widths
<1>6. ASSUME NEW m \in Widths, NEW n \in Widths, m < n
      PROVE  /\ 2 ^ (ByteBits * (n - m)) \in Nat \ {0}
             /\ Half(n) = Half(m) * 2 ^ (ByteBits * (n - m))
  <2>1. CASE m = 1 /\ n = 2
    BY <1>1, <1>4, <2>1, SMT
  <2>2. CASE m = 1 /\ n = 3
    BY <1>1, <1>4, <2>2, SMT
  <2>3. CASE m = 1 /\ n = 4
    BY <1>1, <1>4, <2>3, SMT
  <2>4. CASE m = 2 /\ n = 3
    BY <1>1, <1>4, <2>4, SMT
  <2>5. CASE m = 2 /\ n = 4
    BY <1>1, <1>4, <2>5, SMT
  <2>6. CASE m = 3 /\ n = 4
    BY <1>1, <1>4, <2>6, SMT
  <2> QED BY <1>5, <1>6, <2>1, <2>2, <2>3, <2>4, <2>5, <2>6
<1> QED BY <1>3, <1>6

\* A step of an integer format is 2 * (Unit \div Full(n)).
LEMMA UnitLemma ==
  ASSUME ByteBits = 8
  PROVE  /\ Unit \in Nat \ {0}
         /\ \A n \in Widths : /\ Full(n) \in Nat \ {0} /\ Unit \div Full(n) \in Nat \ {0}
                              /\ (Unit \div Full(n)) * Full(n) = Unit
<1>1. \A n \in Widths : Full(n) \in Nat \ {0}
  BY HalfLemma
<1>2. ASSUME NEW a \in Nat \ {0}, NEW b \in Nat \ {0} PROVE a * b \in Nat \ {0} /\ (a * b) \div b = a
  <2>1. a * b \in Nat /\ a * b # 0
    BY Product
  <2>2. (a * b) \div b = a
    OBVIOUS
  <2> QED BY <2>1, <2>2
<1> DEFINE a == Full(1)
           b == Full(2)
           c == Full(3)
           d == Full(4)
<1>3. Unit = a * b * c * d
  BY DEF Unit
<1>4. a \in Nat \ {0} /\ b \in Nat \ {0} /\ c \in Nat \ {0} /\ d \in Nat \ {0}
  BY <1>1 DEF Widths
<1> HIDE DEF a, b, c, d
<1>5. a * b \in Nat \ {0} /\ c * d \in Nat \ {0}
  BY <1>2, <1>4
<1>6. /\ a * b * c \in Nat \ {0} /\ a * b * d \in Nat \ {0}
      /\ c * d * a \in Nat \ {0} /\ c * d * b \in Nat \ {0}
  BY <1>2, <1>4, <1>5
<1>7. /\ Unit = (a * b * c) * d /\ Unit = (a * b * d) * c
      /\ Unit = (c * d * a) * b /\ Unit = (c * d * b) * a
  BY <1>3, <1>4
<1>8. \A x \in {a, b, c, d} : \E y \in Nat \ {0} : Unit = y * x
  BY <1>6, <1>7
<1>9. ASSUME NEW n \in Widths
      PROVE  Unit \div Full(n) \in Nat \ {0} /\ (Unit \div Full(n)) * Full(n) = Unit
  <2>1. Full(n) \in {a, b, c, d}
    BY DEF Widths, a, b, c, d
  <2>2. PICK y \in Nat \ {0} : Unit = y * Full(n)
    BY <1>8, <2>1
  <2>3. Unit \div Full(n) = y
    BY <1>1, <1>2, <2>2
  <2> QED BY <2>2, <2>3
<1>10. Unit \in Nat \ {0}
  BY <1>2, <1>4, <1>6, <1>7
<1> QED BY <1>1, <1>9, <1>10

\* The formats.
LEMMA FormatLemma ==
  ASSUME ByteBits = 8, NEW f \in Formats
  PROVE  /\ f \in Floats => /\ Lowest(f) = -Unit /\ Highest(f) = Unit /\ StepOf(f) = 0
                            /\ \A x : ToFloat(f, x) = x
         /\ f \notin Floats => /\ formatBytes[f] \in Widths
                               /\ Lowest(f) = -Half(formatBytes[f]) /\ Highest(f) = Half(formatBytes[f]) - 1
                               /\ StepOf(f) = 2 * (Unit \div Full(formatBytes[f]))
                               /\ \A x : ToFloat(f, x) = (2 * x + 1) * (Unit \div Full(formatBytes[f]))
<1>1. f \notin Floats => formatBytes[f] \in Widths
  BY FormatBytes DEF formatBytes, Floats, Widths
<1> QED BY <1>1 DEF Lowest, Highest, StepOf, ToFloat, Half

\* What a sample is converted to: in the range of its format, and not further off than a
\* step of one of the two.
Carried(f, x, g, y) ==
  /\ y \in Lowest(g)..Highest(g)
  /\ \/ Apart(ToFloat(f, x), ToFloat(g, y)) <= StepOf(f)
     \/ Apart(ToFloat(f, x), ToFloat(g, y)) <= StepOf(g)

\* Which conversion is which.
LEMMA CarriedLemma ==
  ASSUME ByteBits = 8, NEW f \in Formats, NEW g \in Formats, NEW x \in Lowest(f)..Highest(f)
  PROVE  Carried(f, x, g, IF g \in Floats THEN ToFloat(f, x) ELSE ToInteger(g, f, x))
<1> DEFINE m == formatBytes[f]
           n == formatBytes[g]
           P == Unit \div Full(m)
           Q == Unit \div Full(n)
<1>1. Unit \in Nat \ {0}
  BY UnitLemma
<1>2. ASSUME f \notin Floats
      PROVE  /\ m \in Widths /\ Half(m) \in Nat \ {0} /\ Full(m) = 2 * Half(m) - 1
             /\ Full(m) \in Nat \ {0} /\ P \in Nat \ {0} /\ P * Full(m) = Unit
             /\ Lowest(f) = -Half(m) /\ Highest(f) = Half(m) - 1 /\ StepOf(f) = 2 * P
             /\ \A z : ToFloat(f, z) = (2 * z + 1) * P
  BY <1>2, FormatLemma, HalfLemma, UnitLemma
<1>3. ASSUME g \notin Floats
      PROVE  /\ n \in Widths /\ Half(n) \in Nat \ {0} /\ Full(n) = 2 * Half(n) - 1
             /\ Full(n) \in Nat \ {0} /\ Q \in Nat \ {0} /\ Q * Full(n) = Unit
             /\ Lowest(g) = -Half(n) /\ Highest(g) = Half(n) - 1 /\ StepOf(g) = 2 * Q
             /\ \A z : ToFloat(g, z) = (2 * z + 1) * Q
  BY <1>3, FormatLemma, HalfLemma, UnitLemma
<1>4. f \in Floats => /\ Lowest(f) = -Unit /\ Highest(f) = Unit /\ StepOf(f) = 0
                      /\ \A z : ToFloat(f, z) = z
  BY FormatLemma
<1>5. g \in Floats => /\ Lowest(g) = -Unit /\ Highest(g) = Unit /\ StepOf(g) = 0
                      /\ \A z : ToFloat(g, z) = z
  BY FormatLemma
<1>6. \A z \in Int : Apart(z, z) = 0
  BY DEF Apart
<1> HIDE DEF m, n, P, Q
<1>7. CASE g \in Floats /\ f \in Floats
  BY <1>1, <1>4, <1>5, <1>6, <1>7 DEF Carried
<1>8. CASE g \in Floats /\ f \notin Floats
  <2> DEFINE y == (2 * x + 1) * P
             h == Half(m)
             F == Full(m)
  <2>1. /\ F = 2 * h - 1 /\ h \in Nat \ {0} /\ P \in Nat \ {0} /\ P * F = Unit
        /\ x \in Int /\ -h <= x /\ x <= h - 1
    BY <1>2, <1>8
  <2> HIDE DEF h, F
  <2>2. 2 * x + 1 + F \in Nat /\ 2 * x + 1 + F <= 2 * F /\ 2 * F \in Nat
    BY <2>1
  <2>3. (2 * x + 1 + F) * P <= (2 * F) * P /\ (2 * x + 1 + F) * P \in Nat
    BY <2>1, <2>2, ProductGrows, Product
  <2>4. (2 * x + 1 + F) * P = y + P * F /\ (2 * F) * P = 2 * (P * F) /\ y \in Int
    BY <2>1
  <2> HIDE DEF y
  <2>5. y \in -Unit..Unit
    BY <1>1, <2>1, <2>3, <2>4
  <2> QED BY <1>2, <1>5, <1>6, <1>8, <2>1, <2>4, <2>5 DEF Carried, y
<1>9. CASE g \notin Floats /\ f \in Floats
  <2>1. ToInteger(g, f, x) = FromFloat(n, x)
    BY <1>9 DEF ToInteger, n
  <2>2. /\ FromFloat(n, x) \in Int
        /\ 2 * FromFloat(n, x) <= Full(n) - 1 /\ -(Full(n) + 1) <= 2 * FromFloat(n, x)
        /\ Apart(x, (2 * FromFloat(n, x) + 1) * Q) <= 2 * Q
    BY <1>3, <1>4, <1>9, RoundedLemma
  <2>3. FromFloat(n, x) \in -Half(n)..(Half(n) - 1)
    BY <1>3, <1>9, <2>2
  <2> QED BY <1>3, <1>4, <1>9, <2>1, <2>2, <2>3 DEF Carried
<1>10. CASE g \notin Floats /\ f \notin Floats
  <2>1. x \in Int /\ -Half(m) <= x /\ x <= Half(m) - 1 /\ m \in Nat /\ n \in Nat
    BY <1>2, <1>3, <1>10 DEF Widths
  <2>2. ToInteger(g, f, x) = IF m <= n THEN x * 2 ^ (ByteBits * (n - m)) ELSE x \div 2 ^ (ByteBits * (m - n))
    BY <1>10 DEF ToInteger, Widened, Narrowed, m, n
  <2>3. CASE m = n
    <3>1. 2 ^ (ByteBits * (n - m)) = 1
      <4>1. ByteBits * (n - m) = 0
        BY <2>1, <2>3
      <4>2. 2 ^ 0 = 1
        OBVIOUS
      <4> QED BY <4>1, <4>2
    <3>2. ToInteger(g, f, x) = x
      BY <2>1, <2>2, <2>3, <3>1
    <3>3. P = Q
      BY <2>3 DEF P, Q
    <3>4. (2 * x + 1) * P \in Int
      BY <1>2, <1>10, <2>1
    <3>5. Apart(ToFloat(f, x), ToFloat(g, x)) = 0
      BY <1>2, <1>3, <1>6, <1>10, <3>3, <3>4
    <3> QED BY <1>2, <1>3, <1>10, <2>3, <3>2, <3>5 DEF Carried
  <2>4. CASE m < n
    <3> DEFINE k == 2 ^ (ByteBits * (n - m))
               h == Half(m)
    <3>1. k \in Nat \ {0} /\ Half(n) = h * k
      BY <1>2, <1>3, <1>10, <2>4, HalfLemma
    <3>2. ToInteger(g, f, x) = x * k
      BY <2>1, <2>2, <2>4
    <3> HIDE DEF k
    <3>3. /\ Apart((2 * x + 1) * P, (2 * (x * k) + 1) * Q) <= 2 * P
          /\ -(h * k) <= x * k /\ x * k <= h * k - 1
      BY <1>2, <1>3, <1>10, <2>1, <3>1, WidenedLemma
    <3>4. x * k \in Int /\ h * k \in Int
      BY <1>2, <1>10, <2>1, <3>1
    <3>5. x * k \in Lowest(g)..Highest(g)
      BY <1>3, <1>10, <3>1, <3>3, <3>4
    <3> QED BY <1>2, <1>3, <1>10, <3>2, <3>3, <3>5 DEF Carried
  <2>5. CASE n < m
    <3> DEFINE k == 2 ^ (ByteBits * (m - n))
               h == Half(n)
    <3>1. k \in Nat \ {0} /\ Half(m) = h * k
      BY <1>2, <1>3, <1>10, <2>5, HalfLemma
    <3>2. ToInteger(g, f, x) = x \div k
      BY <2>1, <2>2, <2>5
    <3> HIDE DEF k
    <3>3. /\ x \div k \in Int
          /\ Apart((2 * x + 1) * P, (2 * (x \div k) + 1) * Q) <= 2 * Q
          /\ -h <= x \div k /\ x \div k <= h - 1
      <4> DEFINE F == Full(n)
                 G == Full(m)
      <4>1. /\ h \in Nat \ {0} /\ F = 2 * h - 1 /\ Q \in Nat \ {0} /\ Q * F = Unit
        BY <1>3, <1>10
      <4>2. /\ G = 2 * (h * k) - 1 /\ P \in Nat \ {0} /\ P * G = Unit
        BY <1>2, <1>10, <3>1
      <4>3. x \in Int /\ -(h * k) <= x /\ x <= h * k - 1
        BY <1>2, <1>10, <3>1
      <4> HIDE DEF h, F, G
      <4> QED BY <3>1, <4>1, <4>2, <4>3, NarrowedLemma
    <3>4. x \div k \in Lowest(g)..Highest(g)
      <4> DEFINE y == x \div k
      <4>1. Lowest(g) = -h /\ Highest(g) = h - 1 /\ h \in Nat
        BY <1>3, <1>10
      <4>2. y \in Int /\ -h <= y /\ y <= h - 1
        BY <3>3
      <4> HIDE DEF y, h
      <4>3. y \in Lowest(g)..Highest(g)
        BY <4>1, <4>2
      <4> QED BY <4>3 DEF y
    <3> QED BY <1>2, <1>3, <1>10, <3>2, <3>3, <3>4 DEF Carried
  <2> QED BY <2>1, <2>3, <2>4, <2>5
<1> QED BY <1>7, <1>8, <1>9, <1>10

\* No sample is a garbled one.
LEMMA RangeLemma ==
  ASSUME ByteBits = 8, NEW f \in Formats, NEW x \in Lowest(f)..Highest(f)
  PROVE  x \in Int /\ x # Garbled /\ ToFloat(f, x) \in Int /\ StepOf(f) \in Nat
<1>1. Unit \in Nat \ {0}
  BY UnitLemma
<1>2. CASE f \in Floats
  <2>1. x \in -Unit..Unit /\ ToFloat(f, x) = x /\ StepOf(f) = 0
    BY <1>2, FormatLemma
  <2> QED BY <1>1, <2>1 DEF Garbled
<1>3. CASE f \notin Floats
  <2> DEFINE n == formatBytes[f]
             Q == Unit \div Full(n)
  <2>1. /\ n \in Widths /\ Lowest(f) = -Half(n) /\ Highest(f) = Half(n) - 1 /\ StepOf(f) = 2 * Q
        /\ ToFloat(f, x) = (2 * x + 1) * Q
    BY <1>3, FormatLemma
  <2>2. /\ Half(n) \in Nat \ {0} /\ Full(n) = 2 * Half(n) - 1
        /\ Full(n) \in Nat \ {0} /\ Q \in Nat \ {0} /\ Q * Full(n) = Unit
    BY <2>1, HalfLemma, UnitLemma
  <2> HIDE DEF n, Q
  <2>3. x \in Int /\ x < Half(n) /\ ToFloat(f, x) \in Int /\ StepOf(f) \in Nat
    BY <2>1, <2>2
  <2>4. Full(n) <= Unit
    <3>1. 1 * Full(n) <= Q * Full(n)
      BY <2>2, ProductGrows
    <3> QED BY <2>2, <3>1
  <2> QED BY <1>1, <2>2, <2>3, <2>4 DEF Garbled
<1> QED BY <1>2, <1>3

\* Conversion changes a sample by no more than rounding.
LEMMA ConvertedLemma ==
  ASSUME ByteBits = 8, NEW f \in Formats, NEW g \in Formats, NEW x \in Lowest(f)..Highest(f)
  PROVE  Near(f, x, g, Converted(g, f, x)) /\ Converted(g, f, x) \in Lowest(g)..Highest(g)
<1> DEFINE y == Converted(g, f, x)
<1>1. x # Garbled /\ ToFloat(f, x) \in Int /\ StepOf(f) \in Nat
  BY RangeLemma
<1>2. y = IF g \in Floats THEN ToFloat(f, x) ELSE ToInteger(g, f, x)
  BY <1>1 DEF Converted
<1>3. Carried(f, x, g, y)
  BY <1>2, CarriedLemma
<1> HIDE DEF y
<1>4. y \in Lowest(g)..Highest(g)
  BY <1>3 DEF Carried
<1>5. y # Garbled /\ ToFloat(g, y) \in Int /\ StepOf(g) \in Nat
  BY <1>4, RangeLemma
<1>6. Near(f, x, g, y)
  BY <1>1, <1>3, <1>5, NearLemma DEF Carried
<1> QED BY <1>4, <1>6 DEF y

\* What is not converted stays what it is.
LEMMA SameLemma ==
  ASSUME ByteBits = 8, NEW f \in Formats, NEW x \in Lowest(f)..Highest(f)
  PROVE  Near(f, x, f, x)
<1>1. x # Garbled /\ ToFloat(f, x) \in Int /\ StepOf(f) \in Nat
  BY RangeLemma
<1>2. Apart(ToFloat(f, x), ToFloat(f, x)) <= StepOf(f)
  BY <1>1 DEF Apart
<1> QED BY <1>1, <1>2, NearLemma

\* The samples that are sent and recorded are samples.
LEMMA SampleLemma ==
  ASSUME ByteBits = 8, NEW f \in Formats, round \in Nat, NEW i \in Nat, NEW k \in Nat
  PROVE  Sample(f, i, k) \in Lowest(f)..Highest(f)
<1> DEFINE j == (2 * i + k + round) % 4
           L == Lowest(f)
           H == Highest(f)
           w == H - L
           third == w \div 3
<1>1. j \in 0..3
  OBVIOUS
<1>2. L \in Int /\ H \in Int /\ L <= H
  <2>1. CASE f \in Floats
    BY <2>1, FormatLemma, UnitLemma
  <2>2. CASE f \notin Floats
    BY <2>2, FormatLemma, HalfLemma
  <2> QED BY <2>1, <2>2
<1>3. Sample(f, i, k) = L + j * third
  BY DEF Sample
<1> HIDE DEF j, L, H
<1>4. w \in Nat
  BY <1>2
<1> HIDE DEF w
<1>5. third \in Nat /\ 3 * third <= w
  BY <1>4
<1> HIDE DEF third
<1>6. j * third \in 0..w
  BY <1>1, <1>4, <1>5
<1>7. L + j * third \in L..H
  <2> DEFINE s == j * third
  <2> HIDE DEF s
  <2> SUFFICES L + s \in L..H
    BY DEF s
  <2> QED BY <1>2, <1>4, <1>6 DEF s, w
<1> QED BY <1>3, <1>7 DEF L, H

-----------------------------------------------------------------------------
(* Numbers.                                                                *)

\* Induction over the natural numbers, for a set instead of a predicate.
LEMMA NaturalsAreReached ==
  ASSUME NEW T, 0 \in T, \A n \in Nat : n \in T => n + 1 \in T
  PROVE  Nat \subseteq T
<1> SUFFICES ASSUME Nat \ T # {} PROVE FALSE
  OBVIOUS
<1> DEFINE R == OpToRel(<, Nat)
<1>1. IsWellFoundedOn(R, Nat)
  BY NatLessThanWellFounded
<1>2. PICK x \in Nat \ T : \A y \in Nat \ T : <<y, x>> \notin R
  <2>1. Nat \ T \subseteq Nat
    OBVIOUS
  <2> HIDE DEF R
  <2> QED BY <1>1, <2>1, WFMin
<1>3. x # 0 /\ x - 1 \in Nat
  OBVIOUS
<1>4. <<x - 1, x>> \in R
  BY <1>3 DEF OpToRel
<1>5. x - 1 \in T
  BY <1>2, <1>3, <1>4
<1> QED BY <1>3, <1>5

\* A place names its row and its column.
LEMMA PlaceIsUnique ==
  ASSUME NEW c \in Nat, NEW i \in Nat, NEW j \in Nat, NEW x \in 0..(c - 1), NEW y \in 0..(c - 1),
         i * c + x = j * c + y
  PROVE  i = j /\ x = y
<1>1. ASSUME NEW a \in Nat, NEW b \in Nat, NEW u \in 0..(c - 1), NEW v \in 0..(c - 1), a < b
      PROVE  a * c + u # b * c + v
  <2>1. b >= a + 1 /\ a + 1 \in Nat
    BY <1>1
  <2>2. b * c >= (a + 1) * c
    BY <2>1, ProductGrows
  <2>3. (a + 1) * c = a * c + c /\ a * c \in Nat /\ b * c \in Nat
    BY Product
  <2> QED BY <2>2, <2>3
<1>2. i = j
  BY <1>1
<1>3. i * c \in Nat
  BY Product
<1> QED BY <1>2, <1>3

\* A byte names its sample and its place in it.
LEMMA ByteLemma ==
  ASSUME NEW f \in Formats, NEW p \in Nat, NEW b \in 0..(formatBytes[f] - 1)
  PROVE  /\ (p * formatBytes[f] + b) \div formatBytes[f] = p
         /\ (p * formatBytes[f] + b) % formatBytes[f] = b
BY FormatBytes DEF formatBytes

\* The bytes of a buffer.
LEMMA ByteOfSample ==
  ASSUME NEW n \in Nat \ {0}, NEW samples \in Nat, NEW p \in 0..(samples - 1), NEW b \in 0..(n - 1)
  PROVE  p * n + b \in 0..(samples * n - 1)
<1>1. p + 1 <= samples /\ p + 1 \in Nat
  OBVIOUS
<1>2. (p + 1) * n <= samples * n
  BY <1>1, ProductGrows
<1>3. (p + 1) * n = p * n + n /\ p * n \in Nat /\ samples * n \in Nat
  BY Product
<1> QED BY <1>2, <1>3

-----------------------------------------------------------------------------
(* Bytes.                                                                  *)

\* The bytes of a buffer are decoded to its samples.
LEMMA BytesLemma ==
  ASSUME NEW f \in Formats, NEW samples \in Nat, NEW buffer, NEW p \in 0..(samples - 1),
         NEW b \in 0..(formatBytes[f] - 1)
  PROVE  /\ p * formatBytes[f] + b \in DOMAIN Bytes(buffer, samples, f)
         /\ Bytes(buffer, samples, f)[p * formatBytes[f] + b] = <<buffer[p], b>>
<1> DEFINE n == formatBytes[f]
           at == p * n + b
<1>1. n \in Nat \ {0} /\ p \in Nat
  BY FormatBytes
<1>2. at \in 0..(samples * n - 1)
  BY <1>1, ByteOfSample
<1>3. at \div n = p /\ at % n = b
  BY <1>1, ByteLemma
<1> HIDE DEF at
<1>4. /\ at \in DOMAIN Bytes(buffer, samples, f)
      /\ Bytes(buffer, samples, f)[at] = <<buffer[p], b>>
  BY <1>2, <1>3 DEF Bytes
<1> QED BY <1>4 DEF at

\* The bytes of sample p are those of v.
Spell(bytes, p, f, highestFirst, v) ==
  \A b \in 0..(formatBytes[f] - 1) :
    LET at == p * formatBytes[f] + (IF highestFirst THEN formatBytes[f] - 1 - b ELSE b)
    IN  at \in DOMAIN bytes /\ bytes[at] = <<v, b>>

\* A sample is decoded from bytes that are its own, in either order.
LEMMA DecodedLemma ==
  ASSUME NEW bytes, NEW f \in Formats, NEW p, NEW v, NEW highestFirst \in BOOLEAN,
         Spell(bytes, p, f, highestFirst, v)
  PROVE  Decoded(bytes, p, f, formatBytes[f], highestFirst) = v
<1> DEFINE n == formatBytes[f]
           At(b) == p * n + (IF highestFirst THEN n - 1 - b ELSE b)
<1>1. 0 \in 0..(n - 1)
  BY FormatBytes
<1>2. \A b \in 0..(n - 1) : At(b) \in DOMAIN bytes /\ bytes[At(b)] = <<v, b>>
  BY DEF Spell
<1>3. Decoded(bytes, p, f, n, highestFirst)
        = IF At(0) \notin DOMAIN bytes THEN Garbled
          ELSE IF \A b \in 0..(n - 1) : At(b) \in DOMAIN bytes /\ bytes[At(b)] = <<bytes[At(0)][1], b>>
                 THEN bytes[At(0)][1] ELSE Garbled
  BY DEF Decoded
<1> HIDE DEF n, At
<1>4. At(0) \in DOMAIN bytes /\ bytes[At(0)][1] = v
  BY <1>1, <1>2
<1> QED BY <1>2, <1>3, <1>4 DEF n

\* Every place has a row and a column.
LEMMA DivisionLemma ==
  ASSUME NEW q \in Nat, NEW n \in Nat \ {0}
  PROVE  q \div n \in Nat /\ q % n \in 0..(n - 1) /\ q = (q \div n) * n + (q % n)
OBVIOUS

\* The places before a row are those of the rows before it.
LEMMA RowLemma ==
  ASSUME NEW n \in Nat, NEW d \in Nat, NEW x \in 0..(n - 1), NEW i \in Nat
  PROVE  d * n + x < i * n <=> d < i
<1>1. d * n \in Nat /\ i * n \in Nat
  BY Product
<1>2. CASE d < i
  <2>1. d + 1 <= i /\ d + 1 \in Nat
    BY <1>2
  <2>2. (d + 1) * n <= i * n /\ (d + 1) * n = d * n + n
    BY <2>1, ProductGrows
  <2> QED BY <1>1, <1>2, <2>2
<1>3. CASE i <= d
  <2>1. i * n <= d * n
    BY <1>3, ProductGrows
  <2> QED BY <1>1, <1>3, <2>1
<1> QED BY <1>2, <1>3

\* The bytes of a buffer of samples, and those of every sample in reverse.
BytesOf(bytes, samples, f) ==
  /\ DOMAIN bytes = 0..(samples * formatBytes[f] - 1)
  /\ bytes = [q \in DOMAIN bytes |-> bytes[q]]

Reversed(turned, bytes, samples, f) ==
  /\ BytesOf(turned, samples, f)
  /\ \A p \in 0..(samples - 1), b \in 0..(formatBytes[f] - 1) :
       turned[p * formatBytes[f] + b] = bytes[p * formatBytes[f] + (formatBytes[f] - 1 - b)]

\* byteSwapBuffer turns the bytes of every sample, but for 24 bits.
LEMMA SwappedLemma ==
  ASSUME NEW f \in Formats, f # "SINT24", NEW samples \in Nat, NEW bytes, BytesOf(bytes, samples, f)
  PROVE  Reversed(byteSwapBuffer(bytes, samples, f), bytes, samples, f)
<1> DEFINE n == formatBytes[f]
           Mirror(q) == (q \div n) * n + (n - 1 - (q % n))
           W == [i \in 0..samples |-> [q \in DOMAIN bytes |-> bytes[IF q < i * n THEN Mirror(q) ELSE q]]]
           S == CHOOSE g : g = [i \in 0..samples |->
                                  IF i = 0 THEN bytes ELSE Turned(g[i - 1], (i - 1) * n, n)]
<1>0. DOMAIN bytes = 0..(samples * n - 1) /\ bytes = [q \in DOMAIN bytes |-> bytes[q]]
  BY DEF BytesOf
<1>1. n \in Nat \ {0} /\ n = Stride(f)
  BY FormatBytes DEF Stride
<1>2. byteSwapBuffer(bytes, samples, f) = S[samples]
  BY <1>1 DEF byteSwapBuffer
<1>3. ASSUME NEW q \in DOMAIN bytes
      PROVE  /\ q \in Nat /\ Mirror(q) \in DOMAIN bytes
             /\ \A p \in Nat : q \in (p * n)..(p * n + n - 1) => Mirror(q) = 2 * (p * n) + n - 1 - q
             /\ \A i \in Nat : Mirror(q) < i * n <=> q < i * n
  <2> DEFINE d == q \div n
             m == q % n
  <2>1. q \in Nat /\ q < samples * n
    BY <1>0, <1>1, Product
  <2>2. d \in Nat /\ m \in 0..(n - 1) /\ q = d * n + m
    BY <1>1, <2>1, DivisionLemma
  <2> HIDE DEF d, m, n
  <2> DEFINE b == n - 1 - m
  <2>3. b \in 0..(n - 1)
    BY <1>1, <2>2
  <2>4. d \in 0..(samples - 1)
    BY <1>1, <2>1, <2>2, RowLemma
  <2>5. d * n + b \in DOMAIN bytes
    <3> HIDE DEF b
    <3> QED BY <1>0, <1>1, <2>2, <2>3, <2>4, ByteOfSample
  <2>6. ASSUME NEW p \in Nat, q \in (p * n)..(p * n + n - 1)
        PROVE  d * n + b = 2 * (p * n) + n - 1 - q
    <3> DEFINE P == p * n
               x == q - P
    <3>1. P \in Nat
      BY <1>1, Product
    <3>2. q \in P..(P + n - 1)
      BY <2>6
    <3> HIDE DEF P
    <3>3. x \in 0..(n - 1) /\ q = P + x
      BY <1>1, <2>1, <3>1, <3>2
    <3> HIDE DEF x
    <3>4. d = p /\ x = m
      BY <1>1, <2>2, <3>3, PlaceIsUnique DEF P
    <3>5. d * n + b = P + b
      BY <3>4 DEF P
    <3>6. d * n + b = 2 * P + n - 1 - q
      BY <1>1, <2>1, <2>2, <3>1, <3>3, <3>4, <3>5
    <3> QED BY <3>6 DEF P
  <2>7. ASSUME NEW i \in Nat
        PROVE  d * n + b < i * n <=> q < i * n
    <3> HIDE DEF b
    <3> QED BY <1>1, <2>2, <2>3, RowLemma
  <2> QED BY <2>1, <2>5, <2>6, <2>7 DEF d, m, n, b
<1>4. W = [i \in 0..samples |-> IF i = 0 THEN bytes ELSE Turned(W[i - 1], (i - 1) * n, n)]
  <2> HIDE DEF Mirror
  <2>1. W[0] = bytes
    <3>1. \A q \in DOMAIN bytes : ~(q < 0 * n)
      BY <1>1, <1>3
    <3> QED BY <1>0, <3>1
  <2>2. ASSUME NEW i \in 1..samples PROVE W[i] = Turned(W[i - 1], (i - 1) * n, n)
    <3> DEFINE p == i - 1
               lo == p * n
               V == W[p]
    <3>1. p \in Nat /\ p \in 0..samples /\ i = p + 1 /\ i \in 0..samples /\ i \in Nat
      OBVIOUS
    <3>2. lo \in Nat /\ i * n = lo + n
      BY <1>1, <3>1, Product
    <3>3. V = [q \in DOMAIN bytes |-> bytes[IF q < lo THEN Mirror(q) ELSE q]]
      BY <3>1
    <3>4. W[i] = [q \in DOMAIN bytes |-> bytes[IF q < lo + n THEN Mirror(q) ELSE q]]
      BY <3>1, <3>2
    <3>5. /\ \A q \in DOMAIN bytes : q \in Nat /\ Mirror(q) \in DOMAIN bytes
          /\ \A q \in DOMAIN bytes : Mirror(q) < lo <=> q < lo
          /\ \A q \in DOMAIN bytes : q \in lo..(lo + n - 1) => Mirror(q) = 2 * lo + n - 1 - q
      BY <1>3, <3>1
    <3> HIDE DEF V, lo, Mirror, W
    <3>6. ASSUME NEW q \in DOMAIN bytes
          PROVE  bytes[IF q < lo + n THEN Mirror(q) ELSE q]
                   = IF q \in lo..(lo + n - 1) THEN V[2 * lo + n - 1 - q] ELSE V[q]
      <4>1. q \in Nat /\ Mirror(q) \in DOMAIN bytes /\ (Mirror(q) < lo <=> q < lo)
        BY <3>5
      <4>2. CASE q \in lo..(lo + n - 1)
        <5>1. q < lo + n /\ ~(q < lo)
          BY <1>1, <3>2, <4>1, <4>2
        <5>2. Mirror(q) = 2 * lo + n - 1 - q
          BY <3>5, <4>2
        <5>3. V[Mirror(q)] = bytes[Mirror(q)]
          BY <3>3, <4>1, <5>1
        <5> QED BY <4>2, <5>1, <5>2, <5>3
      <4>3. CASE q \notin lo..(lo + n - 1)
        <5>1. q < lo + n <=> q < lo
          BY <1>1, <3>2, <4>1, <4>3
        <5>2. V[q] = bytes[IF q < lo THEN Mirror(q) ELSE q]
          BY <3>3
        <5> QED BY <4>3, <5>1, <5>2
      <4> QED BY <4>2, <4>3
    <3>7. DOMAIN V = DOMAIN bytes
      BY <3>3
    <3>8. W[i] = Turned(V, lo, n)
      BY <3>4, <3>6, <3>7 DEF Turned
    <3> QED BY <3>8 DEF V, lo
  <2>3. W = [i \in 0..samples |-> W[i]]
    OBVIOUS
  <2> HIDE DEF W
  <2>4. \A i \in 0..samples : W[i] = IF i = 0 THEN bytes ELSE Turned(W[i - 1], (i - 1) * n, n)
    BY <2>1, <2>2
  <2> QED BY <2>3, <2>4
<1>5. S = [i \in 0..samples |-> IF i = 0 THEN bytes ELSE Turned(S[i - 1], (i - 1) * n, n)]
  <2> HIDE DEF W
  <2> QED BY <1>4
<1> HIDE DEF S, W
<1>6. \A i \in 0..samples : S[i] = W[i]
  <2> DEFINE T == {i \in Nat : i <= samples => S[i] = W[i]}
  <2>1. 0 \in T
    BY <1>4, <1>5
  <2>2. ASSUME NEW i \in Nat, i \in T PROVE i + 1 \in T
    <3> SUFFICES ASSUME i + 1 <= samples PROVE S[i + 1] = W[i + 1]
      OBVIOUS
    <3>1. i + 1 \in 0..samples /\ i + 1 # 0 /\ (i + 1) - 1 = i /\ S[i] = W[i]
      BY <2>2
    <3>2. S[i + 1] = Turned(S[i], i * n, n)
      BY <1>5, <3>1
    <3>3. W[i + 1] = Turned(W[i], i * n, n)
      BY <1>4, <3>1
    <3> QED BY <3>1, <3>2, <3>3
  <2> HIDE DEF T
  <2>3. Nat \subseteq T
    BY <2>1, <2>2, NaturalsAreReached
  <2> QED BY <2>3 DEF T
<1>7. S[samples] = W[samples] /\ BytesOf(W[samples], samples, f)
  <2>1. samples \in 0..samples
    OBVIOUS
  <2>2. S[samples] = W[samples]
    BY <1>6, <2>1
  <2> HIDE DEF Mirror
  <2>3. W[samples] = [q \in DOMAIN bytes |-> bytes[IF q < samples * n THEN Mirror(q) ELSE q]]
    BY <2>1 DEF W
  <2>4. BytesOf(W[samples], samples, f)
    BY <1>0, <2>3 DEF BytesOf
  <2> QED BY <2>2, <2>4
<1>8. ASSUME NEW p \in 0..(samples - 1), NEW b \in 0..(n - 1)
      PROVE  W[samples][p * n + b] = bytes[p * n + (n - 1 - b)]
  <2> DEFINE q == p * n + b
  <2>1. q \in 0..(samples * n - 1)
    BY <1>1, ByteOfSample
  <2>2. q \in DOMAIN bytes /\ q < samples * n
    BY <1>0, <1>1, <2>1, Product
  <2>3. W[samples][q] = bytes[Mirror(q)]
    BY <2>2 DEF W
  <2>4. p * n \in Nat
    BY <1>1, Product
  <2>5. q \in (p * n)..(p * n + n - 1)
    BY <1>1, <2>4
  <2>6. Mirror(q) = 2 * (p * n) + n - 1 - q
    <3> HIDE DEF q, Mirror
    <3> QED BY <1>3, <2>2, <2>5
  <2>7. 2 * (p * n) + n - 1 - q = p * n + (n - 1 - b)
    BY <1>1, <2>4
  <2> HIDE DEF Mirror
  <2> QED BY <2>3, <2>6, <2>7
<1> QED BY <1>2, <1>7, <1>8 DEF n, Reversed

\* The bytes of samples with these values, each from the lowest on or the other way.
Ordered(bytes, samples, f, value, highestFirst) ==
  /\ BytesOf(bytes, samples, f)
  /\ \A p \in 0..(samples - 1), b \in 0..(formatBytes[f] - 1) :
       bytes[p * formatBytes[f] + b] = <<value[p], IF highestFirst THEN formatBytes[f] - 1 - b ELSE b>>

\* The host's buffers are in its order.
LEMMA OwnOrder ==
  ASSUME NEW f \in Formats, NEW samples \in Nat, NEW buffer
  PROVE  Ordered(Bytes(buffer, samples, f), samples, f, buffer, FALSE)
<1> DEFINE bytes == Bytes(buffer, samples, f)
<1>1. DOMAIN bytes = 0..(samples * formatBytes[f] - 1) /\ bytes = [q \in DOMAIN bytes |-> bytes[q]]
  BY DEF Bytes
<1>2. \A p \in 0..(samples - 1), b \in 0..(formatBytes[f] - 1) :
        bytes[p * formatBytes[f] + b] = <<buffer[p], b>>
  BY BytesLemma
<1> HIDE DEF bytes
<1> QED BY <1>1, <1>2 DEF Ordered, BytesOf, bytes

\* Swapping them makes the other order.
LEMMA OtherOrder ==
  ASSUME NEW f \in Formats, f # "SINT24", NEW samples \in Nat, NEW bytes, NEW value,
         NEW highestFirst \in BOOLEAN,
         Ordered(bytes, samples, f, value, highestFirst)
  PROVE  Ordered(byteSwapBuffer(bytes, samples, f), samples, f, value, ~highestFirst)
<1> DEFINE n == formatBytes[f]
           turned == byteSwapBuffer(bytes, samples, f)
<1>1. n \in Nat \ {0}
  BY FormatBytes
<1>2. BytesOf(bytes, samples, f)
  BY DEF Ordered
<1>3. Reversed(turned, bytes, samples, f)
  BY <1>2, SwappedLemma
<1> HIDE DEF turned
<1>4. ASSUME NEW p \in 0..(samples - 1), NEW b \in 0..(n - 1)
      PROVE  turned[p * n + b] = <<value[p], IF ~highestFirst THEN n - 1 - b ELSE b>>
  <2> DEFINE c == n - 1 - b
  <2>1. c \in 0..(n - 1) /\ n - 1 - c = b
    BY <1>1
  <2>2. bytes[p * n + c] = <<value[p], IF highestFirst THEN n - 1 - c ELSE c>>
    BY <2>1 DEF Ordered
  <2>3. turned[p * n + b] = bytes[p * n + c]
    BY <1>3 DEF Reversed
  <2> HIDE DEF n
  <2> QED BY <2>1, <2>2, <2>3
<1>5. BytesOf(turned, samples, f)
  BY <1>3 DEF Reversed
<1> QED BY <1>4, <1>5 DEF Ordered, turned

\* Who expects their order gets the samples; one byte has no order.
LEMMA OrderedLemma ==
  ASSUME NEW f \in Formats, NEW samples \in Nat, NEW bytes, NEW value,
         NEW highestFirst \in BOOLEAN, NEW expected \in BOOLEAN,
         Ordered(bytes, samples, f, value, highestFirst),
         highestFirst = expected \/ formatBytes[f] = 1,
         NEW p \in 0..(samples - 1)
  PROVE  Decoded(bytes, p, f, formatBytes[f], expected) = value[p]
<1> DEFINE n == formatBytes[f]
           In(b) == IF expected THEN n - 1 - b ELSE b
<1>1. n \in Nat \ {0}
  BY FormatBytes
<1>2. ASSUME NEW b \in 0..(n - 1)
      PROVE  p * n + In(b) \in DOMAIN bytes /\ bytes[p * n + In(b)] = <<value[p], b>>
  <2>1. In(b) \in 0..(n - 1)
    BY <1>1
  <2>2. (IF highestFirst THEN n - 1 - In(b) ELSE In(b)) = b
    BY <1>1
  <2> HIDE DEF In, n
  <2>3. p * n + In(b) \in 0..(samples * n - 1)
    BY <1>1, <2>1, ByteOfSample
  <2>4. bytes[p * n + In(b)] = <<value[p], IF highestFirst THEN n - 1 - In(b) ELSE In(b)>>
    BY <2>1 DEF Ordered, n
  <2>5. DOMAIN bytes = 0..(samples * n - 1)
    BY DEF Ordered, BytesOf, n
  <2> QED BY <2>2, <2>3, <2>4, <2>5
<1>3. Spell(bytes, p, f, expected, value[p])
  BY <1>2 DEF Spell
<1> QED BY <1>3, DecodedLemma

-----------------------------------------------------------------------------
(* Places.                                                                 *)

\* Frame i of channel c in a buffer of either layout.
Place(interleaved, frames, channels, i, c) ==
  IF interleaved THEN i * channels + c ELSE c * frames + i

\* It is inside the buffer, and no other has it.
LEMMA PlacesLie ==
  ASSUME NEW interleaved, NEW frames \in Nat, NEW channels \in Nat \ {0},
         NEW i \in 0..(frames - 1), NEW c \in 0..(channels - 1)
  PROVE  Place(interleaved, frames, channels, i, c) \in 0..(frames * channels - 1)
<1>1. /\ i * channels + c \in Nat /\ i * channels + c + 1 <= frames * channels
      /\ i * 1 + c * frames \in Nat /\ i * 1 + c * frames + 1 <= frames * channels
  BY PlaceLemma
<1>2. frames * channels \in Nat /\ c * frames \in Nat /\ i * channels \in Nat
  BY Product
<1> QED BY <1>1, <1>2 DEF Place

\* Different frames or channels have different places.
LEMMA PlacesDiffer ==
  ASSUME NEW interleaved, NEW frames \in Nat, NEW channels \in Nat,
         NEW i \in 0..(frames - 1), NEW c \in 0..(channels - 1),
         NEW j \in 0..(frames - 1), NEW d \in 0..(channels - 1),
         Place(interleaved, frames, channels, i, c) = Place(interleaved, frames, channels, j, d)
  PROVE  i = j /\ c = d
<1>1. i \in Nat /\ c \in Nat /\ j \in Nat /\ d \in Nat
  OBVIOUS
<1>2. CASE interleaved
  <2>1. i * channels + c = j * channels + d
    BY <1>2 DEF Place
  <2> QED BY <1>1, <2>1, PlaceIsUnique
<1>3. CASE ~interleaved
  <2>1. c * frames + i = d * frames + j
    BY <1>3 DEF Place
  <2> QED BY <1>1, <2>1, PlaceIsUnique
<1> QED BY <1>2, <1>3

\* The places of a device, of a user and of a conversion are such places.
LEMMA PlacesOfSides ==
  \A mode, i, c :
    /\ DevicePlace(mode, i, c)
         = Place(stream.deviceInterleaved[mode], stream.bufferSize, stream.nDeviceChannels[mode], i, c)
    /\ UserPlace(mode, i, c)
         = Place(stream.userInterleaved, stream.bufferSize, stream.nUserChannels[mode], i, c)
BY DEF DevicePlace, UserPlace, Place

-----------------------------------------------------------------------------
(* convertBuffer.                                                          *)

\* A position that is converted once has the sample that is converted to it.
LEMMA WrittenLemma ==
  ASSUME NEW out, NEW in, NEW info, NEW frames, NEW cleared, NEW q \in Places(info, frames),
         NEW p \in DOMAIN out, p = Position(info.out, q[1], q[2]),
         \A r \in Places(info, frames) : Position(info.out, r[1], r[2]) = p => r = q
  PROVE  convertBuffer(out, in, info, frames, cleared)[p]
           = Converted(info.out.format, info.in.format, in[Position(info.in, q[1], q[2])])
<1> DEFINE S == {r \in Places(info, frames) : Position(info.out, r[1], r[2]) = p}
<1>1. S = {q}
  OBVIOUS
<1>2. p \in {Position(info.out, r[1], r[2]) : r \in Places(info, frames)}
  OBVIOUS
<1>3. convertBuffer(out, in, info, frames, cleared)[p]
        = LET r == CHOOSE r \in S : TRUE
              x == Position(info.in, r[1], r[2])
          IN  Converted(info.out.format, info.in.format, in[x])
  BY <1>2 DEF convertBuffer
<1> HIDE DEF S
<1>4. (CHOOSE r \in S : TRUE) = q
  BY <1>1
<1> QED BY <1>3, <1>4

\* Any other is cleared or left alone.
LEMMA UnwrittenLemma ==
  ASSUME NEW out, NEW in, NEW info, NEW frames, NEW cleared, NEW p \in DOMAIN out,
         \A r \in Places(info, frames) : Position(info.out, r[1], r[2]) # p
  PROVE  convertBuffer(out, in, info, frames, cleared)[p] = IF p < cleared THEN 0 ELSE out[p]
<1>1. p \notin {Position(info.out, r[1], r[2]) : r \in Places(info, frames)}
  OBVIOUS
<1> QED BY <1>1 DEF convertBuffer

\* A conversion keeps the places of the buffer that it is written to.
LEMMA SameDomain ==
  ASSUME NEW out, NEW in, NEW info, NEW frames, NEW cleared
  PROVE  DOMAIN convertBuffer(out, in, info, frames, cleared) = DOMAIN out
BY DEF convertBuffer

\* Both sides of the conversion of a direction.
DeviceSide(mode) == IF mode = "OUTPUT" THEN stream.convertInfo[mode].out ELSE stream.convertInfo[mode].in
UserSide(mode) == IF mode = "OUTPUT" THEN stream.convertInfo[mode].in ELSE stream.convertInfo[mode].out

Sides(mode, first) ==
  /\ Places(stream.convertInfo[mode], stream.bufferSize) = Frames \X UserChannels(mode)
  /\ DeviceSide(mode).format = stream.deviceFormat[mode] /\ UserSide(mode).format = stream.userFormat
  /\ \A i \in Frames, k \in UserChannels(mode) :
       /\ first + k \in DeviceChannels(mode)
       /\ Position(DeviceSide(mode), i, k) = DevicePlace(mode, i, first + k)
       /\ Position(UserSide(mode), i, k) = UserPlace(mode, i, k)

\* The conversion of a direction is between the places of its two sides.
LEMMA SidesLemma ==
  ASSUME NEW mode \in Modes, Fitting(stream, mode), NEW first \in Nat, Leads(stream, mode, first)
  PROVE  Sides(mode, first)
<1> DEFINE n == stream.bufferSize
           u == stream.nUserChannels[mode]
           c == stream.nDeviceChannels[mode]
           info == stream.convertInfo[mode]
<1>1. n \in Nat /\ u \in Nat \ {0} /\ c \in Nat \ {0} /\ u + first <= c
  BY DEF Fitting, Leads
<1>2. info = setConvertInfo(stream, mode, first)
  BY DEF Leads
<1>3. info.channels = u
  BY <1>1, <1>2 DEF setConvertInfo, Lesser
<1>4. /\ DeviceSide(mode).jump = Jump(stream.deviceInterleaved[mode], c)
      /\ DeviceSide(mode).format = stream.deviceFormat[mode]
      /\ \A k \in 0..(c - 1) : DeviceSide(mode).at[k] = Offset(stream.deviceInterleaved[mode], first, k, n)
  BY <1>2 DEF setConvertInfo, Modes, DeviceSide
<1>5. /\ UserSide(mode).jump = Jump(stream.userInterleaved, u)
      /\ UserSide(mode).format = stream.userFormat
      /\ \A k \in 0..(u - 1) : UserSide(mode).at[k] = Offset(stream.userInterleaved, 0, k, n)
  BY <1>2 DEF setConvertInfo, Modes, UserSide
<1>6. Places(info, n) = Frames \X UserChannels(mode)
  BY <1>3 DEF Places, Frames, UserChannels
<1>7. ASSUME NEW i \in Frames, NEW k \in UserChannels(mode)
      PROVE  /\ first + k \in DeviceChannels(mode)
             /\ Position(DeviceSide(mode), i, k) = DevicePlace(mode, i, first + k)
             /\ Position(UserSide(mode), i, k) = UserPlace(mode, i, k)
  <2>1. i \in Nat /\ k \in Nat /\ k \in 0..(u - 1) /\ k \in 0..(c - 1) /\ first + k \in DeviceChannels(mode)
    BY <1>1 DEF Frames, UserChannels, DeviceChannels
  <2>2. Position(DeviceSide(mode), i, k)
          = IF stream.deviceInterleaved[mode] THEN i * c + (first + k) ELSE i * 1 + (first + k) * n
    BY <1>4, <2>1 DEF Position, Jump, Offset
  <2>3. Position(UserSide(mode), i, k)
          = IF stream.userInterleaved THEN i * u + (0 + k) ELSE i * 1 + (0 + k) * n
    BY <1>5, <2>1 DEF Position, Jump, Offset
  <2>4. (first + k) * n \in Nat /\ k * n \in Nat /\ 0 + k = k
    BY <1>1, <2>1, Product
  <2> HIDE DEF n, u, c
  <2>5. i * 1 + (first + k) * n = (first + k) * n + i /\ i * 1 + k * n = k * n + i
    BY <2>1, <2>4
  <2> QED BY <2>1, <2>2, <2>3, <2>4, <2>5 DEF DevicePlace, UserPlace, n, u, c
<1> QED BY <1>4, <1>5, <1>6, <1>7 DEF Sides, n

-----------------------------------------------------------------------------
(* What a direction is set up for.                                         *)

\* The order of the bytes and the first channel of the driver are noted for the direction.
Marked(s, t, mode, swap, offset) ==
  \A m \in Modes : /\ t.doByteSwap[m] = IF m = mode THEN swap ELSE s.doByteSwap[m]
                   /\ t.channelOffset[m] = IF m = mode THEN offset ELSE s.channelOffset[m]

\* Allocating the buffers leaves these marks alone.
LEMMA KeptMarks ==
  ASSUME NEW s, Shaped(s), NEW mode \in Modes, NEW first, NEW atLeast
  PROVE  LET a == Allocated(s, mode, first, atLeast)
         IN  a.doByteSwap = s.doByteSwap /\ a.channelOffset = s.channelOffset
<1> DEFINE converts == Converts(s, mode)
           user == UserFrame(s, mode) * s.bufferSize
           device == IF ~converts \/ KeepsBuffer(s, mode, atLeast) THEN s.deviceBytes
                     ELSE DeviceFrame(s, mode) * s.bufferSize
           joined == Joined(s, mode)
           c == [s EXCEPT !.doConvertBuffer[mode] = converts, !.userBytes[mode] = user,
                          !.deviceBytes = device, !.mode = joined]
           info == setConvertInfo(c, mode, first)
           d == [c EXCEPT !.convertInfo[mode] = info]
<1>1. Allocated(s, mode, first, atLeast) = IF converts THEN d ELSE c
  BY DEF Allocated, Joined
<1> HIDE DEF converts, user, device, joined, info
<1>2. c.doByteSwap = s.doByteSwap /\ c.channelOffset = s.channelOffset
  BY DEF Shaped, Sided
<1>3. DOMAIN c = DOMAIN s
  OBVIOUS
<1> HIDE DEF c
<1>4. d.doByteSwap = s.doByteSwap /\ d.channelOffset = s.channelOffset
  BY <1>2, <1>3 DEF Shaped, Sided
<1> QED BY <1>1, <1>2, <1>4

\* They are made when the direction is chosen.
LEMMA ChosenMarks ==
  ASSUME NEW s, Shaped(s), NEW mode \in Modes, NEW r, NEW format, NEW interleaved,
         NEW channels, NEW swap, NEW offset, NEW frames, NEW first, NEW atLeast
  PROVE  LET c == Chosen(s, mode, r, format, interleaved, channels, swap, offset, frames)
         IN  /\ Marked(s, c, mode, swap, offset)
             /\ Marked(s, Allocated(c, mode, first, atLeast), mode, swap, offset)
<1> DEFINE c == Chosen(s, mode, r, format, interleaved, channels, swap, offset, frames)
<1>1. Marked(s, c, mode, swap, offset)
  BY DEF Chosen, Shaped, Sided, Marked
<1>2. Shaped(c)
  BY ChosenLemma
<1> HIDE DEF c
<1>3. /\ Allocated(c, mode, first, atLeast).doByteSwap = c.doByteSwap
      /\ Allocated(c, mode, first, atLeast).channelOffset = c.channelOffset
  BY <1>2, KeptMarks
<1> QED BY <1>1, <1>3 DEF Marked, c

\* OSS makes them too, and it does not make them for an output that it opens again.
LEMMA OssMarks ==
  ASSUME NEW d, NEW s, Shaped(s), NEW mode \in Modes, NEW r, OssOpen(d, s, mode, r) # Failure
  PROVE  Marked(s, OssOpen(d, s, mode, r), mode, d.swapped /\ OssFormat(d, r) # "SINT8", 0)
<1> DEFINE swap == d.swapped /\ OssFormat(d, r) # "SINT8"
           C == Chosen(s, mode, r, OssFormat(d, r), TRUE, OssChannels(d, r), swap, 0, OssFrames(d, r))
           S == [C EXCEPT !.deviceFormat["OUTPUT"] = OssFormat(d, r),
                          !.nDeviceChannels["OUTPUT"] = OssChannels(d, r)]
           c == IF Reopens(s, mode, r) THEN S ELSE C
<1>1. OssOpen(d, s, mode, r) = Allocated(c, mode, r.firstChannel, 0)
  BY DEF OssOpen, OssChannels, OssFrames
<1>2. Marked(s, C, mode, swap, 0)
  <2> HIDE DEF swap
  <2> QED BY ChosenMarks
<1>3. Shaped(C)
  <2> DEFINE yes == TRUE
  <2> HIDE DEF swap, yes
  <2>1. Shaped(Chosen(s, mode, r, OssFormat(d, r), yes, OssChannels(d, r), swap, 0, OssFrames(d, r)))
    BY ChosenLemma
  <2> QED BY <2>1 DEF yes
<1> HIDE DEF C
<1>4. Shaped(S) /\ S.doByteSwap = C.doByteSwap /\ S.channelOffset = C.channelOffset
  BY <1>3 DEF Shaped, Sided
<1> HIDE DEF S
<1>5. Shaped(c) /\ c.doByteSwap = C.doByteSwap /\ c.channelOffset = C.channelOffset
  BY <1>3, <1>4
<1> HIDE DEF c
<1>6. /\ Allocated(c, mode, r.firstChannel, 0).doByteSwap = c.doByteSwap
      /\ Allocated(c, mode, r.firstChannel, 0).channelOffset = c.channelOffset
  BY <1>5, KeptMarks
<1> QED BY <1>1, <1>2, <1>5, <1>6 DEF Marked

\* The first of the device's channels that the driver is asked for.
Leading(r) == IF Api \in {"ASIO", "JACK"} THEN r.firstChannel ELSE 0

\* The order in which the device has its bytes is the one it gets.
InOrder(t, mode, d) ==
  /\ d.swapped \in BOOLEAN
  /\ \/ t.deviceFormat[mode] = "SINT8"
     \/ d.swapped = (t.doByteSwap[mode] /\ Api \notin {"JACK", "PULSE"})

\* The direction is set up for the channels of r.
ServedAs(t, mode, r) ==
  /\ t.nUserChannels[mode] = r.channels
  /\ t.channelOffset[mode] = Leading(r)
  /\ t.nUserChannels[mode] + (r.firstChannel - Leading(r)) <= t.nDeviceChannels[mode]
  /\ Converts(t, mode) => t.convertInfo[mode] = setConvertInfo(t, mode, r.firstChannel - Leading(r))

\* What is common to all back ends.
LEMMA ServedOnce ==
  ASSUME NEW s, NEW t, NEW mode \in Modes, NEW r \in Requested,
         NEW interleaved, NEW channels \in Nat, NEW first \in Nat, NEW atLeast,
         r.channels + first <= channels, first = r.firstChannel - Leading(r),
         Buffered(s, t, mode, r, interleaved, channels, first, atLeast),
         NEW swap, Marked(s, t, mode, swap, Leading(r))
  PROVE  ServedAs(t, mode, r) /\ t.doByteSwap[mode] = swap
<1>1. /\ t.nUserChannels[mode] = r.channels /\ t.nDeviceChannels[mode] = channels
      /\ Converts(t, mode) => t.convertInfo[mode] = setConvertInfo(t, mode, first)
  BY DEF Buffered
<1>2. t.doByteSwap[mode] = swap /\ t.channelOffset[mode] = Leading(r)
  BY DEF Marked
<1> QED BY <1>1, <1>2 DEF ServedAs

\* Every back end but CoreAudio.
LEMMA ServedLemma ==
  ASSUME system \in Systems, Api # "CORE", NEW s, Shaped(s), NEW mode \in Modes, NEW r \in Requested,
         r.id \in DOMAIN system.devices,
         NEW t, t = probeDeviceOpen(Api, system.devices[r.id], s, mode, r), t # Failure
  PROVE  /\ ServedAs(t, mode, r) /\ InOrder(t, mode, system.devices[r.id])
         /\ \E swap : Marked(s, t, mode, swap, Leading(r))
         /\ Beside(s, t, mode) \/ IsDuplexInput(s, mode)
<1> DEFINE d == system.devices[r.id]
<1>1. Plausible(Api, d) /\ Api \in {"ASIO", "JACK", "ALSA", "PULSE", "OSS"}
  BY SystemsAssumption DEF Api
<1>2. /\ r.channels \in Nat /\ r.firstChannel \in Nat
      /\ r.channels + 0 <= r.channels /\ 0 \in Nat
  <2>1. r.channels \in Nat /\ r.firstChannel \in Nat
    BY DEF Requested
  <2> QED BY <2>1
<1>3. /\ Api = "ASIO" => t = AsioOpen(d, s, mode, r)
      /\ Api = "JACK" => t = JackOpen(d, s, mode, r)
      /\ Api = "ALSA" => t = AlsaOpen(d, s, mode, r)
      /\ Api = "PULSE" => t = PulseOpen(d, s, mode, r)
      /\ Api = "OSS" => t = OssOpen(d, s, mode, r)
  BY DEF probeDeviceOpen
<1>4. d.swapped \in BOOLEAN /\ (Api \in {"JACK", "ALSA", "PULSE"} => d.swapped = FALSE)
  BY <1>1 DEF Plausible
<1> HIDE DEF d
<1> SUFFICES /\ ServedAs(t, mode, r) /\ InOrder(t, mode, d)
             /\ \E swap : Marked(s, t, mode, swap, Leading(r))
             /\ Beside(s, t, mode) \/ IsDuplexInput(s, mode)
  BY DEF d
<1> DEFINE no == FALSE
           yes == TRUE
           first == r.firstChannel
<1>5. CASE Api = "ASIO"
  <2> DEFINE frames == AsioFrames(d, s, mode, r)
  <2>1. t = AsioOpen(d, s, mode, r)
    BY <1>3, <1>5
  <2>2. /\ SetUp(s, t, mode, r, AsioFormat(d), frames)
        /\ Buffered(s, t, mode, r, no, r.channels, 0, 0) /\ Beside(s, t, mode)
    BY <2>1, AsioLemma
  <2>3. t = Allocated(Chosen(s, mode, r, AsioFormat(d), no, r.channels, d.swapped, first, frames), mode, 0, 0)
    BY <2>1 DEF AsioOpen, AsioFrames
  <2> HIDE DEF no, frames, first
  <2>4. Marked(s, t, mode, d.swapped, first)
    BY <2>3, ChosenMarks
  <2>5. Leading(r) = first /\ 0 = r.firstChannel - Leading(r)
    BY <1>2, <1>5 DEF Leading, first
  <2>6. ServedAs(t, mode, r) /\ t.doByteSwap[mode] = d.swapped
    BY <1>2, <2>2, <2>4, <2>5, ServedOnce
  <2> QED BY <1>4, <1>5, <2>2, <2>4, <2>5, <2>6 DEF InOrder
<1>6. CASE Api = "JACK"
  <2>1. t = JackOpen(d, s, mode, r)
    BY <1>3, <1>6
  <2>2. Buffered(s, t, mode, r, no, r.channels, 0, 1) /\ Beside(s, t, mode)
    BY <2>1, JackLemma
  <2>3. t = Allocated(Chosen(s, mode, r, "FLOAT32", no, r.channels, no, first, d.sizes.prefer), mode, 0, 1)
    BY <2>1 DEF JackOpen
  <2> HIDE DEF no, first
  <2>4. Marked(s, t, mode, no, first)
    BY <2>3, ChosenMarks
  <2>5. Leading(r) = first /\ 0 = r.firstChannel - Leading(r)
    BY <1>2, <1>6 DEF Leading, first
  <2>6. ServedAs(t, mode, r) /\ t.doByteSwap[mode] = no
    BY <1>2, <2>2, <2>4, <2>5, ServedOnce
  <2> QED BY <1>4, <1>6, <2>2, <2>4, <2>5, <2>6 DEF InOrder, no
<1>7. CASE Api = "ALSA"
  <2> DEFINE channels == AtLeast(r.channels + r.firstChannel, d.least)
             split == AlsaInterleaved(d, r)
  <2>1. t = AlsaOpen(d, s, mode, r)
    BY <1>3, <1>7
  <2>2. /\ SetUp(s, t, mode, r, AlsaFormat(d, r), AlsaPeriod(d, r))
        /\ Buffered(s, t, mode, r, split, channels, r.firstChannel, 0)
        /\ d.formats # {}
    BY <2>1, AlsaLemma
  <2>3. t = Allocated(Chosen(s, mode, r, AlsaFormat(d, r), split, channels, no, 0, AlsaPeriod(d, r)),
                      mode, first, 0)
    BY <2>1 DEF AlsaOpen
  <2>4. Beside(s, t, mode)
    BY <2>1, AlsaBeside
  <2>5. channels \in Nat /\ r.channels + first <= channels /\ first \in Nat
    BY <1>1, <1>2, <1>7 DEF Plausible, AtLeast
  <2> HIDE DEF no, channels, split, first
  <2>6. Marked(s, t, mode, no, 0)
    BY <2>3, ChosenMarks
  <2>7. Leading(r) = 0 /\ first = r.firstChannel - Leading(r)
    BY <1>2, <1>7 DEF Leading, first
  <2>8. ServedAs(t, mode, r) /\ t.doByteSwap[mode] = no
    BY <2>2, <2>5, <2>6, <2>7, ServedOnce DEF first
  <2> QED BY <1>4, <1>7, <2>4, <2>6, <2>7, <2>8 DEF InOrder, no
<1>8. CASE Api = "PULSE"
  <2>1. t = PulseOpen(d, s, mode, r) /\ r.firstChannel = 0
    BY <1>3, <1>8 DEF PulseOpen
  <2>2. Buffered(s, t, mode, r, yes, r.channels, 0, 0) /\ Beside(s, t, mode)
    BY <2>1, PulseLemma
  <2>3. t = Allocated(Chosen(s, mode, r, PulseFormat(r), yes, r.channels, no, 0, r.frames), mode, 0, 0)
    BY <2>1 DEF PulseOpen, PulseFormat
  <2> HIDE DEF no, yes
  <2>4. Marked(s, t, mode, no, 0)
    BY <2>3, ChosenMarks
  <2>5. Leading(r) = 0 /\ 0 = r.firstChannel - Leading(r)
    BY <1>8, <2>1 DEF Leading
  <2>6. ServedAs(t, mode, r) /\ t.doByteSwap[mode] = no
    BY <1>2, <2>2, <2>4, <2>5, ServedOnce
  <2> QED BY <1>4, <1>8, <2>2, <2>4, <2>5, <2>6 DEF InOrder, no
<1>9. CASE Api = "OSS"
  <2> DEFINE swap == d.swapped /\ OssFormat(d, r) # "SINT8"
  <2>1. t = OssOpen(d, s, mode, r)
    BY <1>3, <1>9
  <2>2. /\ SetUp(s, t, mode, r, OssFormat(d, r), OssFrames(d, r))
        /\ Buffered(s, t, mode, r, yes, OssChannels(d, r), first, 0) /\ OssFormats(d) # {}
        /\ Beside(s, t, mode) \/ Reopens(s, mode, r)
    BY <2>1, OssLemma
  <2>3. Marked(s, t, mode, swap, 0)
    BY <2>1, OssMarks
  <2>4. /\ OssChannels(d, r) \in Nat /\ r.channels + first <= OssChannels(d, r) /\ first \in Nat
    BY <1>1, <1>2, <1>9 DEF OssChannels, AtLeast, Plausible
  <2> HIDE DEF yes, swap, first
  <2>5. Leading(r) = 0 /\ first = r.firstChannel - Leading(r)
    BY <1>2, <1>9 DEF Leading, first
  <2>6. ServedAs(t, mode, r) /\ t.doByteSwap[mode] = swap
    BY <2>2, <2>3, <2>4, <2>5, ServedOnce
  <2>7. t.deviceFormat[mode] = OssFormat(d, r)
    BY <2>2 DEF SetUp
  <2>8. InOrder(t, mode, d)
    BY <1>4, <1>9, <2>6, <2>7 DEF InOrder, swap
  <2> QED BY <2>2, <2>3, <2>5, <2>6, <2>8 DEF Reopens
<1> QED BY <1>1, <1>5, <1>6, <1>7, <1>8, <1>9

\* The channels of a direction, used or not.
Counted(t, mode) ==
  t.nUserChannels[mode] \in Nat /\ t.nDeviceChannels[mode] \in Nat /\ t.channelOffset[mode] \in Nat

\* A direction of an open stream is what was asked for.
Opened(mode) ==
  /\ asked[mode] \in Requested
  /\ ServedAs(stream, mode, asked[mode])
  /\ InOrder(stream, mode, Device(mode))

\* A direction that is served has its channels.
LEMMA CountedLemma ==
  ASSUME NEW t, NEW mode \in Modes, NEW r \in Requested, ServedAs(t, mode, r), Fitting(t, mode)
  PROVE  Counted(t, mode)
BY DEF Counted, ServedAs, Fitting, Leading, Requested

\* The other direction is as it was.
LEMMA OtherLemma ==
  ASSUME NEW s, NEW t, NEW mode \in Modes, NEW swap, NEW offset, Beside(s, t, mode),
         Marked(s, t, mode, swap, offset), NEW m \in Modes, m # mode
  PROVE  /\ Counted(t, m) = Counted(s, m)
         /\ t.doByteSwap[m] = s.doByteSwap[m] /\ t.channelOffset[m] = s.channelOffset[m]
         /\ t.device[m] = s.device[m] /\ t.deviceFormat[m] = s.deviceFormat[m]
         /\ t.nUserChannels[m] = s.nUserChannels[m] /\ t.nDeviceChannels[m] = s.nDeviceChannels[m]
BY DEF Beside, Marked, Counted

\* So has, with none, a direction that is not used.
LEMMA ClearedChannels == \A m \in Modes : Counted(Cleared, m)
BY DEF Counted, Cleared, Both, Modes

\* An open stream of one direction, or of both that share nothing but the buffer.
LEMMA OpenServed ==
  ASSUME RtInv, phase = "open", Api # "CORE", ~Reopened, ~Resized
  PROVE  \A mode \in Modes : Counted(stream, mode) /\ (Uses(mode) => Opened(mode))
<1>1. /\ Shaped(Cleared) /\ "OUTPUT" \in Modes /\ "INPUT" \in Modes
      /\ \A m \in Modes : ~IsDuplexInput(Cleared, m)
  BY ClearedLemma DEF IsDuplexInput, Modes
<1>2. \A mode \in Modes : Uses(mode) => Fitting(stream, mode)
  BY OpenFits
\* one direction
<1>3. ASSUME NEW mode \in Modes, NEW other \in Modes, other # mode, asked[mode] # None, Uses(mode), ~Uses(other),
             stream = probeDeviceOpen(Api, system.devices[asked[mode].id], Cleared, mode, asked[mode])
      PROVE  Counted(stream, mode) /\ Counted(stream, other) /\ Opened(mode)
  <2> DEFINE r == asked[mode]
  <2>1. /\ system \in Systems /\ stream # Failure
        /\ r \in Requested /\ r.channels # 0 /\ r.id \in DOMAIN system.devices
    BY <1>3, AskedLemma DEF Modes
  <2>2. stream = probeDeviceOpen(Api, system.devices[r.id], Cleared, mode, r)
    BY <1>3
  <2> HIDE DEF r
  <2>3. /\ ServedAs(stream, mode, r) /\ InOrder(stream, mode, system.devices[r.id])
        /\ \E swap : Marked(Cleared, stream, mode, swap, Leading(r))
        /\ Beside(Cleared, stream, mode)
    BY <1>1, <2>1, <2>2, ServedLemma
  <2>4. stream.device[mode] = r.id
    BY <1>1, <2>1, <2>2, ProbeLemma DEF Adds
  <2>5. Opened(mode)
    BY <2>1, <2>3, <2>4 DEF Opened, Device, r
  <2>6. Counted(stream, mode)
    BY <1>2, <1>3, <2>1, <2>3, CountedLemma
  <2>7. Counted(stream, other)
    BY <1>3, <2>3, OtherLemma, ClearedChannels
  <2> QED BY <2>5, <2>6, <2>7
<1>4. CASE asked.OUTPUT = None
  <2>1. stream = probeDeviceOpen(Api, system.devices[asked.INPUT.id], Cleared, "INPUT", asked.INPUT)
    BY <1>4, AskedLemma, ProbedBothLemma
  <2>2. asked["INPUT"] # None /\ Uses("INPUT") /\ ~Uses("OUTPUT")
    BY <1>4, AskedLemma DEF Uses, ModeOf
  <2> QED BY <1>1, <1>3, <2>1, <2>2 DEF Modes
<1>5. CASE asked.OUTPUT # None /\ asked.INPUT = None
  <2>1. stream = probeDeviceOpen(Api, system.devices[asked.OUTPUT.id], Cleared, "OUTPUT", asked.OUTPUT)
    BY <1>5, AskedLemma, ProbedBothLemma DEF OutputOf
  <2>2. asked["OUTPUT"] # None /\ Uses("OUTPUT") /\ ~Uses("INPUT")
    BY <1>5, AskedLemma DEF Uses, ModeOf
  <2> QED BY <1>1, <1>3, <2>1, <2>2 DEF Modes
<1>6. CASE asked.OUTPUT # None /\ asked.INPUT # None
  <2> DEFINE s == OutputOf(asked)
             r == InputOf(asked, s)
  <2>1. /\ s # Failure /\ Shaped(s) /\ s.mode = "OUTPUT"
        /\ r \in Requested /\ r.id = asked.INPUT.id /\ r.channels = asked.INPUT.channels
        /\ r.firstChannel = asked.INPUT.firstChannel
        /\ r.format = asked.INPUT.format /\ r.nonInterleaved = asked.INPUT.nonInterleaved
        /\ stream = probeDeviceOpen(Api, system.devices[asked.INPUT.id], s, "INPUT", r)
        /\ Beside(s, stream, "INPUT") /\ stream.bufferSize = s.bufferSize
        /\ stream.mode = "DUPLEX" /\ stream.device["INPUT"] = asked.INPUT.id
    BY <1>6, DuplexLemma
  <2>2. /\ s = probeDeviceOpen(Api, system.devices[asked.OUTPUT.id], Cleared, "OUTPUT", asked.OUTPUT)
        /\ Placed(s, "OUTPUT", asked.OUTPUT) /\ Fitting(s, "OUTPUT")
        /\ s.device["OUTPUT"] = asked.OUTPUT.id
    BY <1>6, <2>1, OutputFits
  <2>3. /\ system \in Systems /\ stream # Failure
        /\ asked.OUTPUT \in Requested /\ asked.OUTPUT.id \in DOMAIN system.devices
        /\ asked.INPUT \in Requested /\ asked.INPUT.id \in DOMAIN system.devices
        /\ asked.INPUT.channels # 0
    BY <1>6, AskedLemma
  <2> HIDE DEF s, r
  <2>4. /\ ServedAs(s, "OUTPUT", asked.OUTPUT)
        /\ InOrder(s, "OUTPUT", system.devices[asked.OUTPUT.id])
    BY <1>1, <2>1, <2>2, <2>3, ServedLemma
  <2>5. /\ ServedAs(stream, "INPUT", r) /\ InOrder(stream, "INPUT", system.devices[asked.INPUT.id])
        /\ \E swap : Marked(s, stream, "INPUT", swap, Leading(r))
    BY <1>1, <2>1, <2>3, ServedLemma
  <2>6. Placed(stream, "INPUT", r)
    BY <1>1, <2>1, <2>3, PlacesLemma
  <2>7. stream.userFormat = s.userFormat /\ stream.userInterleaved = s.userInterleaved
    <3>1. /\ asked.OUTPUT.format = asked.INPUT.format
          /\ asked.OUTPUT.nonInterleaved = asked.INPUT.nonInterleaved
      BY <1>6, AskedLemma, RequestsAssumption
    <3>2. s.userFormat = asked.OUTPUT.format /\ s.userInterleaved = ~asked.OUTPUT.nonInterleaved
      BY <2>2 DEF Placed
    <3>3. stream.userFormat = r.format /\ stream.userInterleaved = ~r.nonInterleaved
      BY <2>6 DEF Placed
    <3>4. r.format = asked.INPUT.format /\ r.nonInterleaved = asked.INPUT.nonInterleaved
      BY <2>1
    <3> QED BY <3>1, <3>2, <3>3, <3>4
  <2>8. PICK swap : Marked(s, stream, "INPUT", swap, Leading(r))
    BY <2>5
  <2>9. /\ stream.doByteSwap["OUTPUT"] = s.doByteSwap["OUTPUT"]
        /\ stream.channelOffset["OUTPUT"] = s.channelOffset["OUTPUT"]
        /\ stream.device["OUTPUT"] = s.device["OUTPUT"]
        /\ stream.deviceFormat["OUTPUT"] = s.deviceFormat["OUTPUT"]
        /\ stream.nUserChannels["OUTPUT"] = s.nUserChannels["OUTPUT"]
        /\ stream.nDeviceChannels["OUTPUT"] = s.nDeviceChannels["OUTPUT"]
        /\ stream.deviceInterleaved["OUTPUT"] = s.deviceInterleaved["OUTPUT"]
        /\ stream.convertInfo["OUTPUT"] = s.convertInfo["OUTPUT"]
    BY <1>1, <2>1, <2>8 DEF Beside, Marked, Modes
  <2>10. Opened("OUTPUT")
    <3>1. Converts(stream, "OUTPUT") = Converts(s, "OUTPUT")
      BY <2>7, <2>9 DEF Converts
    <3>2. \A first : setConvertInfo(stream, "OUTPUT", first) = setConvertInfo(s, "OUTPUT", first)
      BY <1>1, <2>1, <2>7, <2>9, ConversionLemma
    <3>3. ServedAs(stream, "OUTPUT", asked.OUTPUT)
      BY <2>4, <2>9, <3>1, <3>2 DEF ServedAs
    <3>4. InOrder(stream, "OUTPUT", Device("OUTPUT"))
      BY <2>2, <2>4, <2>9 DEF InOrder, Device
    <3> QED BY <2>3, <3>3, <3>4 DEF Opened
  <2>11. Opened("INPUT")
    <3>1. ServedAs(stream, "INPUT", asked.INPUT)
      BY <2>1, <2>5 DEF ServedAs, Leading
    <3>2. InOrder(stream, "INPUT", Device("INPUT"))
      BY <2>1, <2>5 DEF Device
    <3> QED BY <2>3, <3>1, <3>2 DEF Opened
  <2>12. \A m \in Modes : Uses(m) /\ asked[m] \in Requested
    BY <2>1, <2>3 DEF Uses, Modes
  <2>13. \A m \in Modes : Opened(m)
    BY <2>10, <2>11 DEF Modes
  <2>14. \A m \in Modes : Counted(stream, m)
    BY <1>2, <2>12, <2>13, CountedLemma DEF Opened
  <2> QED BY <2>13, <2>14
<1> QED BY <1>4, <1>5, <1>6

-----------------------------------------------------------------------------
(* The buffers of a cycle.                                                 *)

\* The largest of four numbers.
LEMMA MaxOfFour ==
  ASSUME NEW a \in Nat, NEW b \in Nat, NEW c \in Nat, NEW d \in Nat
  PROVE  /\ Max({a, b, c, d}) \in Nat
         /\ \A n \in {a, b, c, d} : n <= Max({a, b, c, d})
<1> DEFINE S == {a, b, c, d}
<1>1. PICK x \in {a, b} : a <= x /\ b <= x
  OBVIOUS
<1>2. PICK y \in {c, d} : c <= y /\ d <= y
  OBVIOUS
<1>3. \E m \in S : \A n \in S : n <= m
  <2>1. CASE x <= y
    <3>1. y \in S /\ \A n \in S : n <= y
      BY <1>1, <1>2, <2>1
    <3> QED BY <3>1
  <2>2. CASE y <= x
    <3>1. x \in S /\ \A n \in S : n <= x
      BY <1>1, <1>2, <2>2
    <3> QED BY <3>1
  <2> QED BY <1>1, <1>2, <2>1, <2>2
<1>4. Max(S) \in S /\ \A n \in S : n <= Max(S)
  <2> HIDE DEF S
  <2> QED BY <1>3 DEF Max
<1> QED BY <1>4

\* A blank buffer has the places of all directions, on either side.
LEMMA RoomLemma ==
  ASSUME NEW s, s.bufferSize \in Nat, \A m \in Modes : Counted(s, m)
  PROVE  /\ DOMAIN Blank(s) = 0..(s.bufferSize * Room(s) - 1)
         /\ \A m \in Modes :
              /\ 0..(s.bufferSize * s.nDeviceChannels[m] - 1) \subseteq DOMAIN Blank(s)
              /\ 0..(s.bufferSize * s.nUserChannels[m] - 1) \subseteq DOMAIN Blank(s)
<1> DEFINE n == s.bufferSize
           D(m) == s.nDeviceChannels[m]
           U(m) == s.channelOffset[m] + s.nUserChannels[m]
<1>1. \A m \in Modes : D(m) \in Nat /\ U(m) \in Nat /\ s.nUserChannels[m] \in Nat /\ s.nUserChannels[m] <= U(m)
  BY DEF Counted
<1>2. UNION {{D(m), U(m)} : m \in Modes} = {D("OUTPUT"), U("OUTPUT"), D("INPUT"), U("INPUT")}
  BY DEF Modes
<1>3. Room(s) = Max({D("OUTPUT"), U("OUTPUT"), D("INPUT"), U("INPUT")})
  BY <1>2 DEF Room
<1>4. "OUTPUT" \in Modes /\ "INPUT" \in Modes
  BY DEF Modes
<1> HIDE DEF D, U
<1>5. Room(s) \in Nat /\ \A m \in Modes : D(m) <= Room(s) /\ U(m) <= Room(s)
  <2>1. /\ D("OUTPUT") \in Nat /\ U("OUTPUT") \in Nat /\ D("INPUT") \in Nat /\ U("INPUT") \in Nat
    BY <1>1, <1>4
  <2>2. /\ Room(s) \in Nat
        /\ \A x \in {D("OUTPUT"), U("OUTPUT"), D("INPUT"), U("INPUT")} : x <= Room(s)
    BY <1>3, <2>1, MaxOfFour
  <2> QED BY <2>2 DEF Modes
<1>6. ASSUME NEW x \in Nat, x <= Room(s)
      PROVE  0..(n * x - 1) \subseteq 0..(n * Room(s) - 1)
  <2>1. x * n <= Room(s) * n
    BY <1>5, <1>6, ProductGrows
  <2>2. x * n = n * x /\ Room(s) * n = n * Room(s) /\ n * x \in Nat /\ n * Room(s) \in Nat
    BY <1>5, Product
  <2> QED BY <2>1, <2>2
<1>7. DOMAIN Blank(s) = 0..(n * Room(s) - 1)
  BY DEF Blank
<1>8. ASSUME NEW m \in Modes
      PROVE  /\ 0..(n * s.nDeviceChannels[m] - 1) \subseteq DOMAIN Blank(s)
             /\ 0..(n * s.nUserChannels[m] - 1) \subseteq DOMAIN Blank(s)
  <2>1. /\ s.nDeviceChannels[m] \in Nat /\ s.nDeviceChannels[m] <= Room(s)
        /\ s.nUserChannels[m] \in Nat /\ s.nUserChannels[m] <= Room(s)
    BY <1>1, <1>5 DEF D
  <2> QED BY <1>6, <1>7, <2>1
<1> QED BY <1>7, <1>8

\* What is handed over is in the device's format and has its channels.  If nothing
\* is converted the user's buffer is the device's.
LEMMA HandedOver ==
  ASSUME NEW mode \in Modes, Fitting(stream, mode)
  PROVE  /\ Handed(mode).format = stream.deviceFormat[mode]
         /\ HandedSamples(mode) = stream.bufferSize * stream.nDeviceChannels[mode]
         /\ HandedSamples(mode) \in Nat
         /\ ~stream.doConvertBuffer[mode] =>
              /\ stream.userFormat = stream.deviceFormat[mode]
              /\ stream.nUserChannels[mode] = stream.nDeviceChannels[mode]
              /\ UserChannels(mode) = DeviceChannels(mode)
              /\ \A i \in Frames, c \in DeviceChannels(mode) : UserPlace(mode, i, c) = DevicePlace(mode, i, c)
<1> DEFINE n == stream.bufferSize
           u == stream.nUserChannels[mode]
           c == stream.nDeviceChannels[mode]
<1>1. n \in Nat /\ u \in Nat \ {0} /\ c \in Nat \ {0} /\ u <= c /\ n * c \in Nat
  BY Product DEF Fitting
<1>2. ASSUME ~stream.doConvertBuffer[mode]
      PROVE  /\ stream.userFormat = stream.deviceFormat[mode] /\ u = c
             /\ stream.userInterleaved = stream.deviceInterleaved[mode] \/ c = 1
  <2>1. ~Converts(stream, mode)
    BY <1>2 DEF Fitting
  <2>2. stream.userFormat = stream.deviceFormat[mode] /\ u = c
    BY <1>1, <2>1 DEF Converts
  <2>3. CASE c > 1
    BY <2>1, <2>2, <2>3 DEF Converts
  <2>4. CASE ~(c > 1)
    BY <1>1, <2>2, <2>4
  <2> QED BY <2>2, <2>3, <2>4
<1>3. ASSUME ~stream.doConvertBuffer[mode], NEW i \in Frames, NEW k \in DeviceChannels(mode)
      PROVE  UserPlace(mode, i, k) = DevicePlace(mode, i, k)
  <2>1. CASE stream.userInterleaved = stream.deviceInterleaved[mode]
    BY <1>2, <1>3, <2>1 DEF UserPlace, DevicePlace
  <2>2. CASE c = 1
    <3>1. u = 1 /\ k = 0 /\ i \in Nat /\ n \in Nat
      BY <1>1, <1>2, <1>3, <2>2 DEF DeviceChannels, Frames
    <3>2. i * u + k = i /\ k * n + i = i /\ i * c + k = i
      BY <2>2, <3>1
    <3> QED BY <3>2 DEF UserPlace, DevicePlace
  <2> QED BY <1>2, <1>3, <2>1, <2>2
<1>4. ~stream.doConvertBuffer[mode] => UserChannels(mode) = DeviceChannels(mode)
  BY <1>2 DEF UserChannels, DeviceChannels
<1>5. HandedSamples(mode) = n * c /\ Handed(mode).format = stream.deviceFormat[mode]
  BY <1>2 DEF HandedSamples, Handed
<1> QED BY <1>1, <1>2, <1>3, <1>4, <1>5

-----------------------------------------------------------------------------
(* The output.                                                             *)

\* The buffer that is handed to the device, its bytes, and what is played of them.
Filled ==
  IF stream.doConvertBuffer["OUTPUT"]
    THEN convertBuffer(deviceBuffer, Meant, stream.convertInfo["OUTPUT"], stream.bufferSize, ClearedSamples)
    ELSE Meant

Sent == InHostOrder(Bytes(Filled, HandedSamples("OUTPUT"), Handed("OUTPUT").format), "OUTPUT")

PlayedNow ==
  [q \in Frames \X PlayedChannels |->
     Decoded(Sent, DevicePlace("OUTPUT", q[1], q[2]), stream.deviceFormat["OUTPUT"],
             Slot(stream.deviceFormat["OUTPUT"]), Device("OUTPUT").swapped)]

\* No sample is there but those of the served channels.
Begins(mode) == asked[mode].firstChannel - stream.channelOffset[mode]

Quiet(buffer) ==
  \A i \in Frames, c \in DeviceChannels("OUTPUT") :
    c - Begins("OUTPUT") \notin UserChannels("OUTPUT") => buffer[DevicePlace("OUTPUT", i, c)] = 0

\* What the host has asked for, for what is played.
OutputReaches(p) ==
  /\ \A i \in Frames, k \in UserChannels("OUTPUT") :
       Near(stream.userFormat, Meant[UserPlace("OUTPUT", i, k)],
            stream.deviceFormat["OUTPUT"], p[<<i, Begins("OUTPUT") + k>>])
  /\ \A i \in Frames, c \in PlayedChannels :
       c - Begins("OUTPUT") \notin UserChannels("OUTPUT") => KeepsInput \/ p[<<i, c>>] = 0

\* The order of the bytes, where there is no known gap.
LEMMA OrderLemma ==
  ASSUME NEW mode \in Modes, Fitting(stream, mode), InOrder(stream, mode, Device(mode)), ~Gap(mode)
  PROVE  LET f == stream.deviceFormat[mode]
         IN  /\ f \in Formats /\ Slot(f) = formatBytes[f]
             /\ Device(mode).swapped \in BOOLEAN
             /\ Swaps(mode) => f # "SINT24"
             /\ Device(mode).swapped = Swaps(mode) \/ formatBytes[f] = 1
<1> DEFINE f == stream.deviceFormat[mode]
<1>1. f \in Formats
  BY DEF Fitting
<1>2. Slot(f) = formatBytes[f] /\ (Swaps(mode) => f # "SINT24")
  BY DEF Gap, Slot
<1>3. Device(mode).swapped \in BOOLEAN
  BY DEF InOrder
<1>4. f = "SINT8" => formatBytes[f] = 1
  BY DEF formatBytes
<1>5. f = "SINT8" \/ Device(mode).swapped = Swaps(mode)
  BY DEF InOrder, Swaps
<1> QED BY <1>1, <1>2, <1>3, <1>4, <1>5

\* The samples of the host's buffer, as the device sees them.
LEMMA DeliveredLemma ==
  ASSUME Api # "CORE", Fitting(stream, "OUTPUT"), InOrder(stream, "OUTPUT", Device("OUTPUT")), ~Gap("OUTPUT"),
         NEW i \in Frames, NEW c \in DeviceChannels("OUTPUT")
  PROVE  PlayedNow[<<i, c>>] = Filled[DevicePlace("OUTPUT", i, c)]
<1> DEFINE f == stream.deviceFormat["OUTPUT"]
           n == HandedSamples("OUTPUT")
           p == DevicePlace("OUTPUT", i, c)
           own == Bytes(Filled, n, f)
           expected == Device("OUTPUT").swapped
           no == FALSE
<1>1. "OUTPUT" \in Modes
  BY DEF Modes
<1>2. /\ f \in Formats /\ Slot(f) = formatBytes[f] /\ expected \in BOOLEAN
      /\ Swaps("OUTPUT") => f # "SINT24"
      /\ expected = Swaps("OUTPUT") \/ formatBytes[f] = 1
  BY <1>1, OrderLemma
<1>3. /\ Handed("OUTPUT").format = f /\ n = stream.bufferSize * stream.nDeviceChannels["OUTPUT"] /\ n \in Nat
  BY <1>1, HandedOver
<1>4. p \in 0..(n - 1)
  BY <1>1, <1>3, PlacesLie, PlacesOfSides DEF Frames, DeviceChannels, Fitting
<1>5. PlayedNow[<<i, c>>] = Decoded(Sent, p, f, formatBytes[f], expected)
  BY <1>2 DEF PlayedNow, PlayedChannels
<1>6. Sent = IF Swaps("OUTPUT") THEN byteSwapBuffer(own, n, f) ELSE own
  BY <1>3 DEF Sent, InHostOrder
<1>7. Ordered(own, n, f, Filled, no)
  BY <1>2, <1>3, OwnOrder
<1> HIDE DEF n, own, f, p, expected
<1>8. CASE Swaps("OUTPUT")
  <2> DEFINE yes == ~no
  <2>1. Ordered(byteSwapBuffer(own, n, f), n, f, Filled, yes)
    <3> HIDE DEF no
    <3>1. no \in BOOLEAN
      BY DEF no
    <3> QED BY <1>2, <1>3, <1>7, <1>8, <3>1, OtherOrder
  <2>2. yes \in BOOLEAN /\ (yes = expected \/ formatBytes[f] = 1)
    BY <1>2, <1>8
  <2> HIDE DEF yes, no
  <2>3. Decoded(byteSwapBuffer(own, n, f), p, f, formatBytes[f], expected) = Filled[p]
    BY <1>2, <1>3, <1>4, <2>1, <2>2, OrderedLemma
  <2> QED BY <1>5, <1>6, <1>8, <2>3 DEF p
<1>9. CASE ~Swaps("OUTPUT")
  <2>1. no \in BOOLEAN /\ (no = expected \/ formatBytes[f] = 1)
    BY <1>2, <1>9
  <2> HIDE DEF no
  <2>2. Decoded(own, p, f, formatBytes[f], expected) = Filled[p]
    BY <1>2, <1>3, <1>4, <1>7, <2>1, OrderedLemma
  <2> QED BY <1>5, <1>6, <1>9, <2>2 DEF p
<1> QED BY <1>8, <1>9

\* The channels that are served.
LEMMA BeginsLemma ==
  ASSUME NEW mode \in Modes, Fitting(stream, mode), Opened(mode)
  PROVE  /\ Begins(mode) \in Nat
         /\ stream.channelOffset[mode] \in Nat
         /\ stream.channelOffset[mode] + Begins(mode) = asked[mode].firstChannel
         /\ stream.nUserChannels[mode] + Begins(mode) <= stream.nDeviceChannels[mode]
         /\ \A k \in UserChannels(mode) : Begins(mode) + k \in DeviceChannels(mode)
         /\ IF stream.doConvertBuffer[mode] THEN Sides(mode, Begins(mode)) ELSE Begins(mode) = 0
<1>1. /\ asked[mode].firstChannel \in Nat
      /\ stream.channelOffset[mode] \in {0, asked[mode].firstChannel}
      /\ Begins(mode) = asked[mode].firstChannel - Leading(asked[mode])
      /\ stream.nUserChannels[mode] + Begins(mode) <= stream.nDeviceChannels[mode]
  BY DEF Opened, ServedAs, Begins, Leading, Requested
<1>2. /\ Begins(mode) \in Nat /\ stream.channelOffset[mode] \in Nat
      /\ stream.channelOffset[mode] + Begins(mode) = asked[mode].firstChannel
  BY <1>1 DEF Begins
<1>3. \A k \in UserChannels(mode) : Begins(mode) + k \in DeviceChannels(mode)
  BY <1>1, <1>2 DEF UserChannels, DeviceChannels, Fitting
<1>4. CASE stream.doConvertBuffer[mode]
  <2>1. Leads(stream, mode, Begins(mode))
    BY <1>1, <1>4 DEF Leads, Opened, ServedAs, Fitting
  <2>2. Sides(mode, Begins(mode))
    BY <1>2, <2>1, SidesLemma
  <2> QED BY <1>1, <1>2, <1>3, <1>4, <2>2
<1>5. CASE ~stream.doConvertBuffer[mode]
  <2>1. stream.nUserChannels[mode] = stream.nDeviceChannels[mode]
    BY <1>5, HandedOver
  <2>2. Begins(mode) = 0
    BY <1>1, <1>2, <2>1 DEF Fitting
  <2> QED BY <1>1, <1>2, <1>3, <1>5, <2>2
<1> QED BY <1>4, <1>5

\* The places of the device's channels are in its part of the buffer.
LEMMA DeviceLies ==
  ASSUME NEW mode \in Modes, Fitting(stream, mode), NEW i \in Frames, NEW c \in DeviceChannels(mode)
  PROVE  /\ DevicePlace(mode, i, c) \in 0..(stream.bufferSize * stream.nDeviceChannels[mode] - 1)
         /\ \A j \in Frames, d \in DeviceChannels(mode) :
              DevicePlace(mode, j, d) = DevicePlace(mode, i, c) => j = i /\ d = c
<1>1. stream.bufferSize \in Nat /\ stream.nDeviceChannels[mode] \in Nat \ {0}
  BY DEF Fitting
<1>2. DevicePlace(mode, i, c) \in 0..(stream.bufferSize * stream.nDeviceChannels[mode] - 1)
  BY <1>1, PlacesLie, PlacesOfSides DEF Frames, DeviceChannels
<1>3. ASSUME NEW j \in Frames, NEW d \in DeviceChannels(mode), DevicePlace(mode, j, d) = DevicePlace(mode, i, c)
      PROVE  j = i /\ d = c
  BY <1>1, <1>3, PlacesDiffer, PlacesOfSides DEF Frames, DeviceChannels
<1> QED BY <1>2, <1>3

\* The places of the user's channels are in its buffer.
LEMMA UserLies ==
  ASSUME NEW mode \in Modes, Fitting(stream, mode), NEW i \in Frames, NEW k \in UserChannels(mode)
  PROVE  /\ UserPlace(mode, i, k) \in 0..(stream.bufferSize * stream.nUserChannels[mode] - 1)
         /\ \A j \in Frames, l \in UserChannels(mode) :
              UserPlace(mode, j, l) = UserPlace(mode, i, k) => j = i /\ l = k
<1>1. stream.bufferSize \in Nat /\ stream.nUserChannels[mode] \in Nat \ {0}
  BY DEF Fitting
<1>2. UserPlace(mode, i, k) \in 0..(stream.bufferSize * stream.nUserChannels[mode] - 1)
  BY <1>1, PlacesLie, PlacesOfSides DEF Frames, UserChannels
<1>3. ASSUME NEW j \in Frames, NEW l \in UserChannels(mode), UserPlace(mode, j, l) = UserPlace(mode, i, k)
      PROVE  j = i /\ l = k
  BY <1>1, <1>3, PlacesDiffer, PlacesOfSides DEF Frames, UserChannels
<1> QED BY <1>2, <1>3

\* The buffer of the callback has samples of the host's format.
LEMMA MeantLemma ==
  ASSUME ByteBits = 8, round \in Nat, Fitting(stream, "OUTPUT"),
         NEW i \in Frames, NEW k \in UserChannels("OUTPUT")
  PROVE  Meant[UserPlace("OUTPUT", i, k)] \in Lowest(stream.userFormat)..Highest(stream.userFormat)
<1> DEFINE n == stream.bufferSize
           u == stream.nUserChannels["OUTPUT"]
           p == UserPlace("OUTPUT", i, k)
           f == stream.userFormat
<1>1. "OUTPUT" \in Modes /\ n \in Nat \ {0} /\ u \in Nat \ {0} /\ f \in Formats
  BY DEF Modes, Fitting, Frames
<1>2. p \in 0..(n * u - 1)
  BY <1>1, UserLies
<1>3. p \in Nat
  BY <1>2
<1>4. /\ p \div u \in Nat /\ p % u \in Nat /\ p \div n \in Nat /\ p % n \in Nat
  <2> HIDE DEF p, n, u
  <2>1. p \div u \in Nat /\ p % u \in 0..(u - 1)
    BY <1>1, <1>3, DivisionLemma
  <2>2. p \div n \in Nat /\ p % n \in 0..(n - 1)
    BY <1>1, <1>3, DivisionLemma
  <2> QED BY <1>1, <2>1, <2>2
<1>5. Meant[p] = IF stream.userInterleaved THEN Sample(f, p \div u, p % u) ELSE Sample(f, p % n, p \div n)
  BY <1>2 DEF Meant
<1> HIDE DEF p, n, u, f
<1>6. /\ Sample(f, p \div u, p % u) \in Lowest(f)..Highest(f)
      /\ Sample(f, p % n, p \div n) \in Lowest(f)..Highest(f)
  BY <1>1, <1>4, SampleLemma
<1>7. Meant[p] \in Lowest(f)..Highest(f)
  BY <1>5, <1>6
<1> QED BY <1>7 DEF p, f

\* The samples of the callback are where the device has its channels.
LEMMA FilledLemma ==
  ASSUME Fitting(stream, "OUTPUT"), Opened("OUTPUT"),
         0..(stream.bufferSize * stream.nDeviceChannels["OUTPUT"] - 1) \subseteq DOMAIN deviceBuffer,
         NEW i \in Frames, NEW k \in UserChannels("OUTPUT")
  PROVE  LET x == Meant[UserPlace("OUTPUT", i, k)]
         IN  Filled[DevicePlace("OUTPUT", i, Begins("OUTPUT") + k)]
               = IF stream.doConvertBuffer["OUTPUT"]
                   THEN Converted(stream.deviceFormat["OUTPUT"], stream.userFormat, x) ELSE x
<1> DEFINE info == stream.convertInfo["OUTPUT"]
           c == Begins("OUTPUT") + k
           p == DevicePlace("OUTPUT", i, c)
<1>1. /\ "OUTPUT" \in Modes /\ c \in DeviceChannels("OUTPUT")
      /\ IF stream.doConvertBuffer["OUTPUT"] THEN Sides("OUTPUT", Begins("OUTPUT")) ELSE Begins("OUTPUT") = 0
      /\ Begins("OUTPUT") \in Nat
  BY BeginsLemma DEF Modes
<1>2. CASE stream.doConvertBuffer["OUTPUT"]
  <2> DEFINE q == <<i, k>>
  <2>1. /\ Places(info, stream.bufferSize) = Frames \X UserChannels("OUTPUT")
        /\ info.out.format = stream.deviceFormat["OUTPUT"] /\ info.in.format = stream.userFormat
        /\ \A j \in Frames, l \in UserChannels("OUTPUT") :
             /\ Begins("OUTPUT") + l \in DeviceChannels("OUTPUT")
             /\ Position(info.out, j, l) = DevicePlace("OUTPUT", j, Begins("OUTPUT") + l)
             /\ Position(info.in, j, l) = UserPlace("OUTPUT", j, l)
    BY <1>1, <1>2 DEF Sides, DeviceSide, UserSide
  <2>2. p \in DOMAIN deviceBuffer
    BY <1>1, DeviceLies
  <2>3. \A r \in Places(info, stream.bufferSize) : Position(info.out, r[1], r[2]) = p => r = q
    <3> SUFFICES ASSUME NEW j \in Frames, NEW l \in UserChannels("OUTPUT"), Position(info.out, j, l) = p
                 PROVE  j = i /\ l = k
      BY <2>1
    <3> DEFINE d == Begins("OUTPUT") + l
    <3>1. d \in DeviceChannels("OUTPUT") /\ DevicePlace("OUTPUT", j, d) = p
      BY <2>1
    <3>2. j = i /\ d = c
      BY <1>1, <3>1, DeviceLies
    <3> QED BY <1>1, <3>2 DEF UserChannels
  <2>4. q \in Places(info, stream.bufferSize) /\ p = Position(info.out, q[1], q[2])
    BY <2>1
  <2>5. Position(info.in, q[1], q[2]) = UserPlace("OUTPUT", i, k)
    BY <2>1
  <2> HIDE DEF p, q
  <2>6. convertBuffer(deviceBuffer, Meant, info, stream.bufferSize, ClearedSamples)[p]
          = Converted(info.out.format, info.in.format, Meant[Position(info.in, q[1], q[2])])
    BY <2>2, <2>3, <2>4, WrittenLemma
  <2>7. Filled = convertBuffer(deviceBuffer, Meant, info, stream.bufferSize, ClearedSamples)
    BY <1>2 DEF Filled
  <2> QED BY <1>2, <2>1, <2>5, <2>6, <2>7 DEF p, c
<1>3. CASE ~stream.doConvertBuffer["OUTPUT"]
  <2>1. c = k
    BY <1>1, <1>3 DEF UserChannels
  <2>2. UserPlace("OUTPUT", i, c) = DevicePlace("OUTPUT", i, c)
    BY <1>1, <1>3, HandedOver
  <2> QED BY <1>3, <2>1, <2>2 DEF Filled
<1> QED BY <1>2, <1>3

\* The rest of the buffer is silent, if the input leaves nothing in it or it is cleared.
LEMMA QuietLemma ==
  ASSUME Api # "CORE", Fitting(stream, "OUTPUT"), Opened("OUTPUT"), stream.doConvertBuffer["OUTPUT"],
         0..(stream.bufferSize * stream.nDeviceChannels["OUTPUT"] - 1) \subseteq DOMAIN deviceBuffer,
         ~KeepsInput,
         Quiet(deviceBuffer) \/ (stream.mode = "DUPLEX" /\ stream.doConvertBuffer["INPUT"])
  PROVE  Quiet(Filled)
<1> SUFFICES ASSUME NEW i \in Frames, NEW c \in DeviceChannels("OUTPUT"),
                    c - Begins("OUTPUT") \notin UserChannels("OUTPUT")
             PROVE  Filled[DevicePlace("OUTPUT", i, c)] = 0
  BY DEF Quiet
<1> DEFINE info == stream.convertInfo["OUTPUT"]
           p == DevicePlace("OUTPUT", i, c)
<1>1. /\ "OUTPUT" \in Modes /\ Sides("OUTPUT", Begins("OUTPUT")) /\ Begins("OUTPUT") \in Nat
  BY BeginsLemma DEF Modes
<1>2. /\ Places(info, stream.bufferSize) = Frames \X UserChannels("OUTPUT")
      /\ \A j \in Frames, l \in UserChannels("OUTPUT") :
           /\ Begins("OUTPUT") + l \in DeviceChannels("OUTPUT")
           /\ Position(info.out, j, l) = DevicePlace("OUTPUT", j, Begins("OUTPUT") + l)
  BY <1>1 DEF Sides, DeviceSide
<1>3. /\ p \in 0..(stream.bufferSize * stream.nDeviceChannels["OUTPUT"] - 1)
      /\ \A j \in Frames, d \in DeviceChannels("OUTPUT") : DevicePlace("OUTPUT", j, d) = p => j = i /\ d = c
  BY <1>1, DeviceLies
<1>4. \A r \in Places(info, stream.bufferSize) : Position(info.out, r[1], r[2]) # p
  <2> SUFFICES ASSUME NEW j \in Frames, NEW l \in UserChannels("OUTPUT"), Position(info.out, j, l) = p
               PROVE  FALSE
    BY <1>2
  <2>1. Begins("OUTPUT") + l = c
    BY <1>2, <1>3
  <2>2. c - Begins("OUTPUT") = l
    BY <1>1, <2>1 DEF UserChannels
  <2> QED BY <2>2
<1>5. Filled = convertBuffer(deviceBuffer, Meant, info, stream.bufferSize, ClearedSamples)
  BY DEF Filled
<1>6. p \in DOMAIN deviceBuffer
  BY <1>3
<1> DEFINE clearedTo == ClearedSamples
<1> HIDE DEF p, clearedTo
<1>7. convertBuffer(deviceBuffer, Meant, info, stream.bufferSize, clearedTo)[p]
        = IF p < clearedTo THEN 0 ELSE deviceBuffer[p]
  BY <1>4, <1>6, UnwrittenLemma
<1>8. CASE Quiet(deviceBuffer)
  <2>1. deviceBuffer[p] = 0
    BY <1>8 DEF Quiet, p
  <2> QED BY <1>5, <1>7, <2>1 DEF p, clearedTo
<1>9. CASE stream.mode = "DUPLEX" /\ stream.doConvertBuffer["INPUT"]
  <2>1. ClearedSamples > 0 /\ stream.deviceInterleaved["OUTPUT"]
    BY <1>9 DEF KeepsInput
  <2>2. info.out.jump = stream.nDeviceChannels["OUTPUT"]
    <3>1. \E first \in Nat : info = setConvertInfo(stream, "OUTPUT", first)
      BY DEF Fitting
    <3> QED BY <2>1, <3>1 DEF setConvertInfo, Jump
  <2>3. ClearedSamples = stream.bufferSize * stream.nDeviceChannels["OUTPUT"]
    <3>1. ClearedSamples # 0
      BY <2>1
    <3> QED BY <2>2, <3>1 DEF ClearedSamples
  <2>4. stream.bufferSize * stream.nDeviceChannels["OUTPUT"] \in Nat
    BY Product DEF Fitting
  <2>5. p < clearedTo
    <3> DEFINE size == stream.bufferSize * stream.nDeviceChannels["OUTPUT"]
    <3>1. p \in 0..(size - 1) /\ size \in Nat /\ clearedTo = size
      BY <1>3, <2>3, <2>4 DEF clearedTo
    <3> HIDE DEF size
    <3> QED BY <3>1
  <2> QED BY <1>5, <1>7, <2>5 DEF p, clearedTo
<1> QED BY <1>8, <1>9

\* What is played is what was asked for.
LEMMA PlayedLemma ==
  ASSUME ByteBits = 8, round \in Nat, Api # "CORE", Fitting(stream, "OUTPUT"), Opened("OUTPUT"), ~Gap("OUTPUT"),
         0..(stream.bufferSize * stream.nDeviceChannels["OUTPUT"] - 1) \subseteq DOMAIN deviceBuffer,
         stream.doConvertBuffer["OUTPUT"] /\ ~KeepsInput => Quiet(Filled)
  PROVE  OutputReaches(PlayedNow)
<1>1. "OUTPUT" \in Modes /\ InOrder(stream, "OUTPUT", Device("OUTPUT"))
  BY DEF Modes, Opened
<1>2. /\ stream.userFormat \in Formats /\ stream.deviceFormat["OUTPUT"] \in Formats
  BY DEF Fitting
<1>3. ASSUME NEW i \in Frames, NEW k \in UserChannels("OUTPUT")
      PROVE  Near(stream.userFormat, Meant[UserPlace("OUTPUT", i, k)],
                  stream.deviceFormat["OUTPUT"], PlayedNow[<<i, Begins("OUTPUT") + k>>])
  <2> DEFINE x == Meant[UserPlace("OUTPUT", i, k)]
             f == stream.userFormat
             g == stream.deviceFormat["OUTPUT"]
             c == Begins("OUTPUT") + k
  <2>1. x \in Lowest(f)..Highest(f)
    BY MeantLemma
  <2>2. c \in DeviceChannels("OUTPUT")
    BY <1>1, BeginsLemma
  <2>3. PlayedNow[<<i, c>>] = Filled[DevicePlace("OUTPUT", i, c)]
    BY <1>1, <2>2, DeliveredLemma
  <2>4. Filled[DevicePlace("OUTPUT", i, c)] = IF stream.doConvertBuffer["OUTPUT"] THEN Converted(g, f, x) ELSE x
    BY FilledLemma
  <2>5. ~stream.doConvertBuffer["OUTPUT"] => f = g
    BY <1>1, HandedOver
  <2> HIDE DEF x, f, g, c
  <2>6. Near(f, x, g, PlayedNow[<<i, c>>])
    <3>1. f \in Formats /\ g \in Formats
      BY <1>2 DEF f, g
    <3>2. Near(f, x, g, Converted(g, f, x)) /\ Near(f, x, f, x)
      BY <2>1, <3>1, ConvertedLemma, SameLemma
    <3> QED BY <2>3, <2>4, <2>5, <3>2
  <2> QED BY <2>6 DEF x, f, g, c
<1>4. ASSUME NEW i \in Frames, NEW c \in PlayedChannels, c - Begins("OUTPUT") \notin UserChannels("OUTPUT"),
             ~KeepsInput
      PROVE  PlayedNow[<<i, c>>] = 0
  <2>1. c \in DeviceChannels("OUTPUT")
    BY DEF PlayedChannels
  <2>2. PlayedNow[<<i, c>>] = Filled[DevicePlace("OUTPUT", i, c)]
    BY <1>1, <2>1, DeliveredLemma
  <2>3. stream.doConvertBuffer["OUTPUT"]
    <3> SUFFICES ASSUME ~stream.doConvertBuffer["OUTPUT"] PROVE FALSE
      OBVIOUS
    <3>1. Begins("OUTPUT") = 0 /\ UserChannels("OUTPUT") = DeviceChannels("OUTPUT")
      BY <1>1, BeginsLemma, HandedOver
    <3>2. c - 0 = c
      BY <2>1 DEF DeviceChannels
    <3> QED BY <1>4, <2>1, <3>1, <3>2
  <2> QED BY <1>4, <2>1, <2>2, <2>3 DEF Quiet
<1> QED BY <1>3, <1>4 DEF OutputReaches

-----------------------------------------------------------------------------
(* The input.                                                              *)

\* What is in the buffer from the device, and what the callback gets of it.
GotNow ==
  LET f == Handed("INPUT").format
  IN  [p \in DOMAIN deviceBuffer |->
         IF p < HandedSamples("INPUT")
           THEN Decoded(InHostOrder(RecordedBytes, "INPUT"), p, f, formatBytes[f], FALSE)
           ELSE deviceBuffer[p]]

HeardNow ==
  IF stream.doConvertBuffer["INPUT"]
    THEN convertBuffer(Blank(stream), GotNow, stream.convertInfo["INPUT"], stream.bufferSize, 0)
    ELSE GotNow

InputReaches(h) ==
  \A i \in Frames, k \in UserChannels("INPUT") :
    Near(stream.deviceFormat["INPUT"], Recorded(i, asked.INPUT.firstChannel + k),
         stream.userFormat, h[UserPlace("INPUT", i, k)])

\* The samples of the device, by their places in its buffer.
RecordedAt ==
  [p \in 0..(stream.bufferSize * stream.nDeviceChannels["INPUT"] - 1) |->
     LET q == CHOOSE r \in Frames \X DeviceChannels("INPUT") : DevicePlace("INPUT", r[1], r[2]) = p
     IN  Recorded(q[1], stream.channelOffset["INPUT"] + q[2])]

\* Every sample of the device is at its place.
LEMMA RecordedAtLemma ==
  ASSUME Fitting(stream, "INPUT"), NEW i \in Frames, NEW c \in DeviceChannels("INPUT")
  PROVE  RecordedAt[DevicePlace("INPUT", i, c)] = Recorded(i, stream.channelOffset["INPUT"] + c)
<1> DEFINE p == DevicePlace("INPUT", i, c)
           q == <<i, c>>
           P == Frames \X DeviceChannels("INPUT")
<1>1. /\ p \in 0..(stream.bufferSize * stream.nDeviceChannels["INPUT"] - 1)
      /\ \A j \in Frames, d \in DeviceChannels("INPUT") : DevicePlace("INPUT", j, d) = p => j = i /\ d = c
  BY DeviceLies DEF Modes
<1>2. q \in P /\ DevicePlace("INPUT", q[1], q[2]) = p
  OBVIOUS
<1>3. \A r \in P : DevicePlace("INPUT", r[1], r[2]) = p => r = q
  BY <1>1
<1> HIDE DEF p, P
<1>4. (CHOOSE r \in P : DevicePlace("INPUT", r[1], r[2]) = p) = q
  BY <1>2, <1>3
<1>5. RecordedAt[p] = LET r == CHOOSE r \in P : DevicePlace("INPUT", r[1], r[2]) = p
                      IN  Recorded(r[1], stream.channelOffset["INPUT"] + r[2])
  BY <1>1 DEF RecordedAt, P
<1>6. RecordedAt[p] = Recorded(q[1], stream.channelOffset["INPUT"] + q[2])
  BY <1>4, <1>5
<1> QED BY <1>6 DEF p

\* The device gives their bytes in its order.
LEMMA DeviceOrder ==
  ASSUME Fitting(stream, "INPUT"), Device("INPUT").swapped \in BOOLEAN,
         NEW f \in Formats, f = stream.deviceFormat["INPUT"], Slot(f) = formatBytes[f],
         NEW samples \in Nat, samples = stream.bufferSize * stream.nDeviceChannels["INPUT"]
  PROVE  Ordered(RecordedBytes, samples, f, RecordedAt, Device("INPUT").swapped)
<1> DEFINE n == formatBytes[f]
           swapped == Device("INPUT").swapped
           value == RecordedAt
<1>1. n \in Nat \ {0}
  BY FormatBytes
<1>2. RecordedBytes = [b \in 0..(samples * n - 1) |->
                         <<value[b \div n], IF b % n < n /\ swapped THEN n - 1 - (b % n) ELSE b % n>>]
  BY DEF RecordedBytes, RecordedAt
<1> HIDE DEF value, swapped
<1>3. BytesOf(RecordedBytes, samples, f)
  BY <1>2 DEF BytesOf
<1>4. ASSUME NEW p \in 0..(samples - 1), NEW b \in 0..(n - 1)
      PROVE  RecordedBytes[p * n + b] = <<value[p], IF swapped THEN n - 1 - b ELSE b>>
  <2> DEFINE at == p * n + b
  <2>1. at \in 0..(samples * n - 1)
    <3> HIDE DEF n
    <3> QED BY <1>1, ByteOfSample
  <2>2. at \div n = p /\ at % n = b
    <3>1. p \in Nat
      OBVIOUS
    <3> QED BY <3>1, ByteLemma
  <2>3. b < n
    BY <1>1
  <2> HIDE DEF at, n
  <2>4. RecordedBytes[at] = <<value[at \div n], IF at % n < n /\ swapped THEN n - 1 - (at % n) ELSE at % n>>
    BY <1>2, <2>1
  <2> QED BY <2>2, <2>3, <2>4 DEF at
<1> QED BY <1>3, <1>4 DEF Ordered, value, swapped

\* They are in the host's buffer then.
LEMMA GotLemma ==
  ASSUME Fitting(stream, "INPUT"), InOrder(stream, "INPUT", Device("INPUT")), ~Gap("INPUT"),
         0..(stream.bufferSize * stream.nDeviceChannels["INPUT"] - 1) \subseteq DOMAIN deviceBuffer,
         NEW i \in Frames, NEW c \in DeviceChannels("INPUT")
  PROVE  GotNow[DevicePlace("INPUT", i, c)] = Recorded(i, stream.channelOffset["INPUT"] + c)
<1> DEFINE f == stream.deviceFormat["INPUT"]
           n == HandedSamples("INPUT")
           p == DevicePlace("INPUT", i, c)
           own == RecordedBytes
           swapped == Device("INPUT").swapped
           bytes == InHostOrder(RecordedBytes, "INPUT")
           no == FALSE
<1>1. "INPUT" \in Modes
  BY DEF Modes
<1>2. /\ f \in Formats /\ Slot(f) = formatBytes[f] /\ swapped \in BOOLEAN
      /\ Swaps("INPUT") => f # "SINT24"
      /\ swapped = Swaps("INPUT") \/ formatBytes[f] = 1
  BY <1>1, OrderLemma
<1>3. /\ Handed("INPUT").format = f /\ n = stream.bufferSize * stream.nDeviceChannels["INPUT"] /\ n \in Nat
  BY <1>1, HandedOver
<1>4. p \in 0..(n - 1)
  BY <1>1, <1>3, DeviceLies
<1>5. GotNow[p] = Decoded(bytes, p, f, formatBytes[f], no)
  <2>1. p \in DOMAIN deviceBuffer /\ p < n
    BY <1>3, <1>4
  <2> HIDE DEF p, n, f, bytes
  <2> QED BY <1>3, <2>1 DEF GotNow, n, bytes
<1>6. bytes = IF Swaps("INPUT") THEN byteSwapBuffer(own, n, f) ELSE own
  BY <1>3 DEF InHostOrder
<1>7. Ordered(own, n, f, RecordedAt, swapped)
  BY <1>2, <1>3, DeviceOrder
<1>8. no \in BOOLEAN
  OBVIOUS
<1> HIDE DEF n, own, f, bytes, swapped
<1>9. Decoded(bytes, p, f, formatBytes[f], no) = RecordedAt[p]
  <2>1. CASE Swaps("INPUT")
    <3> DEFINE other == ~swapped
    <3>1. Ordered(byteSwapBuffer(own, n, f), n, f, RecordedAt, other)
      <4> HIDE DEF p
      <4> QED BY <1>2, <1>3, <1>7, <2>1, OtherOrder
    <3>2. other \in BOOLEAN /\ (other = no \/ formatBytes[f] = 1)
      BY <1>2, <2>1
    <3> HIDE DEF other, no, p
    <3>3. Decoded(byteSwapBuffer(own, n, f), p, f, formatBytes[f], no) = RecordedAt[p]
      BY <1>2, <1>3, <1>4, <1>8, <3>1, <3>2, OrderedLemma
    <3> QED BY <1>6, <2>1, <3>3
  <2>2. CASE ~Swaps("INPUT")
    <3>1. swapped = no \/ formatBytes[f] = 1
      BY <1>2, <2>2
    <3> HIDE DEF no, p
    <3>2. Decoded(own, p, f, formatBytes[f], no) = RecordedAt[p]
      BY <1>2, <1>3, <1>4, <1>7, <1>8, <3>1, OrderedLemma
    <3> QED BY <1>6, <2>2, <3>2
  <2> QED BY <2>1, <2>2
<1>10. RecordedAt[p] = Recorded(i, stream.channelOffset["INPUT"] + c)
  BY RecordedAtLemma
<1> QED BY <1>5, <1>9, <1>10

\* The callback gets what was recorded in the channels it asks for.
LEMMA HeardLemma ==
  ASSUME ByteBits = 8, round \in Nat, Fitting(stream, "INPUT"), Opened("INPUT"), ~Gap("INPUT"),
         0..(stream.bufferSize * stream.nDeviceChannels["INPUT"] - 1) \subseteq DOMAIN deviceBuffer,
         0..(stream.bufferSize * stream.nUserChannels["INPUT"] - 1) \subseteq DOMAIN Blank(stream)
  PROVE  InputReaches(HeardNow)
<1> SUFFICES ASSUME NEW i \in Frames, NEW k \in UserChannels("INPUT")
             PROVE  Near(stream.deviceFormat["INPUT"], Recorded(i, asked.INPUT.firstChannel + k),
                         stream.userFormat, HeardNow[UserPlace("INPUT", i, k)])
  BY DEF InputReaches
<1> DEFINE x == Recorded(i, asked.INPUT.firstChannel + k)
           f == stream.deviceFormat["INPUT"]
           g == stream.userFormat
           c == Begins("INPUT") + k
           p == UserPlace("INPUT", i, k)
           info == stream.convertInfo["INPUT"]
<1>1. "INPUT" \in Modes /\ InOrder(stream, "INPUT", Device("INPUT")) /\ f \in Formats /\ g \in Formats
  BY DEF Modes, Opened, Fitting
<1>2. /\ Begins("INPUT") \in Nat /\ stream.channelOffset["INPUT"] \in Nat
      /\ stream.channelOffset["INPUT"] + Begins("INPUT") = asked["INPUT"].firstChannel
      /\ c \in DeviceChannels("INPUT")
      /\ IF stream.doConvertBuffer["INPUT"] THEN Sides("INPUT", Begins("INPUT")) ELSE Begins("INPUT") = 0
  BY <1>1, BeginsLemma
<1>3. i \in Nat /\ k \in Nat /\ asked.INPUT.firstChannel + k = stream.channelOffset["INPUT"] + c
  BY <1>2 DEF Frames, UserChannels
<1>4. asked.INPUT.firstChannel + k + 1 \in Nat
  BY <1>2, <1>3
<1>5. x \in Lowest(f)..Highest(f)
  BY <1>1, <1>3, <1>4, SampleLemma DEF Recorded
<1>6. GotNow[DevicePlace("INPUT", i, c)] = x
  BY <1>1, <1>2, <1>3, GotLemma
<1>7. CASE stream.doConvertBuffer["INPUT"]
  <2> DEFINE q == <<i, k>>
  <2>1. /\ Places(info, stream.bufferSize) = Frames \X UserChannels("INPUT")
        /\ info.in.format = f /\ info.out.format = g
        /\ \A j \in Frames, l \in UserChannels("INPUT") :
             /\ Position(info.in, j, l) = DevicePlace("INPUT", j, Begins("INPUT") + l)
             /\ Position(info.out, j, l) = UserPlace("INPUT", j, l)
    BY <1>2, <1>7 DEF Sides, DeviceSide, UserSide
  <2>2. p \in DOMAIN Blank(stream)
    BY <1>1, UserLies
  <2>3. \A r \in Places(info, stream.bufferSize) : Position(info.out, r[1], r[2]) = p => r = q
    <3> SUFFICES ASSUME NEW j \in Frames, NEW l \in UserChannels("INPUT"), Position(info.out, j, l) = p
                 PROVE  j = i /\ l = k
      BY <2>1
    <3>1. UserPlace("INPUT", j, l) = p
      BY <2>1
    <3> QED BY <1>1, <3>1, UserLies
  <2>4. q \in Places(info, stream.bufferSize) /\ p = Position(info.out, q[1], q[2])
    BY <2>1
  <2>5. Position(info.in, q[1], q[2]) = DevicePlace("INPUT", i, c)
    BY <2>1
  <2> HIDE DEF p, q, c
  <2>6. convertBuffer(Blank(stream), GotNow, info, stream.bufferSize, 0)[p]
          = Converted(info.out.format, info.in.format, GotNow[Position(info.in, q[1], q[2])])
    BY <2>2, <2>3, <2>4, WrittenLemma
  <2>7. HeardNow[p] = Converted(g, f, x)
    BY <1>6, <1>7, <2>1, <2>5, <2>6 DEF HeardNow
  <2> HIDE DEF f, g, x
  <2>8. Near(f, x, g, HeardNow[p])
    BY <1>1, <1>5, <2>7, ConvertedLemma
  <2> QED BY <2>8 DEF f, g, x, p
<1>8. CASE ~stream.doConvertBuffer["INPUT"]
  <2>1. c = k /\ f = g
    BY <1>1, <1>2, <1>3, <1>8, HandedOver
  <2>2. p = DevicePlace("INPUT", i, c)
    BY <1>1, <1>2, <1>8, <2>1, HandedOver
  <2>3. HeardNow[p] = x
    BY <1>6, <1>8, <2>2 DEF HeardNow
  <2> HIDE DEF f, g, x, p
  <2>4. Near(f, x, g, HeardNow[p])
    BY <1>1, <1>5, <2>1, <2>3, SameLemma
  <2> QED BY <2>4 DEF f, g, x, p
<1> QED BY <1>7, <1>8

-----------------------------------------------------------------------------
(* A cycle.                                                                *)

\* Where no input comes between, the device buffer stays silent beside the samples.
SharedQuiet ==
  /\ phase = "open" /\ Uses("OUTPUT") /\ ~Reopened /\ ~Resized
  /\ stream.doConvertBuffer["OUTPUT"]
  /\ ~(stream.mode = "DUPLEX" /\ stream.doConvertBuffer["INPUT"])
  => Quiet(deviceBuffer)

\* What a cycle keeps.
CycleInv ==
  /\ phase = "open" => DOMAIN deviceBuffer = DOMAIN Blank(stream)
  /\ phase # "open" => played = None /\ heard = None
  /\ SharedQuiet
  /\ SamplesArrive

\* What an open stream is.
LEMMA OpenLemma ==
  ASSUME RtInv, phase = "open", Api # "CORE", ~Reopened, ~Resized
  PROVE  \A mode \in Modes :
           /\ Uses(mode) => Fitting(stream, mode) /\ Opened(mode)
           /\ Uses(mode) => /\ 0..(stream.bufferSize * stream.nDeviceChannels[mode] - 1) \subseteq DOMAIN Blank(stream)
                            /\ 0..(stream.bufferSize * stream.nUserChannels[mode] - 1) \subseteq DOMAIN Blank(stream)
<1>1. \A mode \in Modes : Counted(stream, mode) /\ (Uses(mode) => Opened(mode))
  BY OpenServed
<1>2. \A mode \in Modes : Uses(mode) => Fitting(stream, mode)
  BY OpenFits
<1>3. ASSUME NEW mode \in Modes, Uses(mode)
      PROVE  /\ 0..(stream.bufferSize * stream.nDeviceChannels[mode] - 1) \subseteq DOMAIN Blank(stream)
             /\ 0..(stream.bufferSize * stream.nUserChannels[mode] - 1) \subseteq DOMAIN Blank(stream)
  <2>1. stream.bufferSize \in Nat
    BY <1>2, <1>3 DEF Fitting
  <2> QED BY <1>1, <2>1, RoomLemma
<1> QED BY <1>1, <1>2, <1>3

\* A new stream's buffer is blank.
LEMMA BlankIsQuiet == RtInv /\ Api # "CORE" /\ deviceBuffer = Blank(stream) => SharedQuiet
<1> SUFFICES ASSUME RtInv, Api # "CORE", deviceBuffer = Blank(stream), phase = "open", Uses("OUTPUT"),
                    ~Reopened, ~Resized, NEW i \in Frames, NEW c \in DeviceChannels("OUTPUT")
             PROVE  deviceBuffer[DevicePlace("OUTPUT", i, c)] = 0
  BY DEF SharedQuiet, Quiet
<1>1. "OUTPUT" \in Modes
  BY DEF Modes
<1>2. /\ Fitting(stream, "OUTPUT")
      /\ 0..(stream.bufferSize * stream.nDeviceChannels["OUTPUT"] - 1) \subseteq DOMAIN Blank(stream)
  BY <1>1, OpenLemma
<1>3. DevicePlace("OUTPUT", i, c) \in DOMAIN Blank(stream)
  BY <1>1, <1>2, DeviceLies
<1> QED BY <1>3 DEF Blank

\* What is looked at in a cycle does not change in it.
LEMMA SameStream ==
  ASSUME UNCHANGED <<system, asked, stream, round>>
  PROVE  /\ Frames' = Frames /\ Meant' = Meant /\ PlayedChannels' = PlayedChannels
         /\ KeepsInput' = KeepsInput /\ Api' = Api
         /\ Reopened' = Reopened /\ Resized' = Resized
         /\ \A m \in Modes : /\ UserChannels(m)' = UserChannels(m) /\ DeviceChannels(m)' = DeviceChannels(m)
                             /\ Begins(m)' = Begins(m) /\ Gap(m)' = Gap(m) /\ Uses(m)' = Uses(m)
                             /\ \A i, c : /\ UserPlace(m, i, c)' = UserPlace(m, i, c)
                                          /\ DevicePlace(m, i, c)' = DevicePlace(m, i, c)
         /\ \A i, c : Recorded(i, c)' = Recorded(i, c)
<1>1. Api' = Api /\ Frames' = Frames
  BY DEF Api, Frames
<1>2. Meant' = Meant
  BY DEF Meant, Sample
<1>3. Reopened' = Reopened /\ Resized' = Resized
  BY <1>1 DEF Reopened, Resized
<1>4. PlayedChannels' = PlayedChannels
  BY <1>1 DEF PlayedChannels, DeviceChannels, Streams, Device
<1>5. KeepsInput' = KeepsInput
  BY <1>1 DEF KeepsInput, ClearedSamples, InPlace
<1>6. ASSUME NEW m \in Modes
      PROVE  /\ UserChannels(m)' = UserChannels(m) /\ DeviceChannels(m)' = DeviceChannels(m)
             /\ Begins(m)' = Begins(m) /\ Uses(m)' = Uses(m)
             /\ \A i, c : /\ UserPlace(m, i, c)' = UserPlace(m, i, c)
                          /\ DevicePlace(m, i, c)' = DevicePlace(m, i, c)
  BY DEF UserChannels, DeviceChannels, Begins, Uses, UserPlace, DevicePlace
<1>7. ASSUME NEW m \in Modes PROVE Gap(m)' = Gap(m)
  BY <1>1, <1>3 DEF Gap, Swaps, Slot, Streams, Device
<1>8. \A i, c : Recorded(i, c)' = Recorded(i, c)
  BY DEF Recorded, Sample
<1> QED BY <1>1, <1>2, <1>3, <1>4, <1>5, <1>6, <1>7, <1>8

\* The property is about what was played and heard last.
LEMMA ArrivesIsReaches ==
  Api # "CORE" => /\ OutputArrives <=> OutputReaches(played)
                  /\ InputArrives <=> InputReaches(heard)
BY DEF OutputArrives, OutputReaches, InputArrives, InputReaches, Begins

\* What was asked for in this cycle is so until its end: for the output,
LEMMA SamePlayed ==
  ASSUME Api # "CORE", UNCHANGED <<system, asked, stream, round>>,
         NEW p, played' = p, OutputReaches(p)
  PROVE  OutputArrives'
<1>1. "OUTPUT" \in Modes
  BY DEF Modes
<1>2. /\ Frames' = Frames /\ Meant' = Meant /\ PlayedChannels' = PlayedChannels
      /\ KeepsInput' = KeepsInput /\ Api' = Api
      /\ UserChannels("OUTPUT")' = UserChannels("OUTPUT")
      /\ Begins("OUTPUT")' = Begins("OUTPUT")
      /\ \A i, c : UserPlace("OUTPUT", i, c)' = UserPlace("OUTPUT", i, c)
  BY <1>1, SameStream
<1>3. OutputArrives' <=> OutputReaches(played)'
  BY <1>2 DEF OutputArrives, OutputReaches, Begins
<1>4. OutputReaches(played)'
  BY <1>2 DEF OutputReaches
<1> QED BY <1>3, <1>4

\* for the input,
LEMMA SameHeard ==
  ASSUME UNCHANGED <<system, asked, stream, round>>,
         NEW h, heard' = h, InputReaches(h)
  PROVE  InputArrives'
<1>1. "INPUT" \in Modes
  BY DEF Modes
<1>2. /\ Frames' = Frames /\ UserChannels("INPUT")' = UserChannels("INPUT")
      /\ \A i, c : UserPlace("INPUT", i, c)' = UserPlace("INPUT", i, c)
      /\ \A i, c : Recorded(i, c)' = Recorded(i, c)
  BY <1>1, SameStream
<1> QED BY <1>2 DEF InputArrives, InputReaches

\* and for the rest of the device buffer.
LEMMA SameQuiet ==
  ASSUME UNCHANGED <<system, asked, stream, round>>, NEW b, deviceBuffer' = b, Quiet(b)
  PROVE  Quiet(deviceBuffer)'
<1>1. "OUTPUT" \in Modes
  BY DEF Modes
<1>2. /\ Frames' = Frames /\ DeviceChannels("OUTPUT")' = DeviceChannels("OUTPUT")
      /\ UserChannels("OUTPUT")' = UserChannels("OUTPUT")
      /\ Begins("OUTPUT")' = Begins("OUTPUT")
      /\ \A i, c : DevicePlace("OUTPUT", i, c)' = DevicePlace("OUTPUT", i, c)
  BY <1>1, SameStream
<1> QED BY <1>2 DEF Quiet

\* The buffer changes in a cycle only.
LEMMA QuietStays ==
  ASSUME UNCHANGED <<system, asked, stream>>, phase' = phase, NEW b, deviceBuffer' = b,
         Quiet(deviceBuffer) => Quiet(b), SharedQuiet
  PROVE  SharedQuiet'
<1>1. Api' = Api
  BY DEF Api
<1>2. Reopened' = Reopened /\ Resized' = Resized /\ Uses("OUTPUT")' = Uses("OUTPUT")
  BY <1>1 DEF Reopened, Resized, Uses
<1>3. Quiet(deviceBuffer)' <=> Quiet(b)
  BY DEF Quiet, Frames, DeviceChannels, UserChannels, Begins, DevicePlace
<1> QED BY <1>2, <1>3 DEF SharedQuiet

\* A cycle that is under way.
LEMMA InCycle ==
  ASSUME RtInv, Api # "CORE", CycleInv, NEW mode \in Modes, mode \in left
  PROVE  /\ phase = "open" /\ Uses(mode) /\ round \in Nat
         /\ DOMAIN deviceBuffer = DOMAIN Blank(stream)
BY RoundsAssumption DEF RtInv, ToldInv, StreamInv, CycleInv

\* An output keeps the invariant.
LEMMA WriteKeeps ==
  ASSUME ByteBits = 8, RtInv, Api # "CORE", CycleInv, WriteOutput
  PROVE  CycleInv'
<1>1. "OUTPUT" \in Modes /\ "INPUT" \in Modes
  BY DEF Modes
<1>2. "OUTPUT" \in left /\ UNCHANGED <<system, asked, phase, stream, round, heard>>
  BY DEF WriteOutput
<1>3. /\ phase = "open" /\ Uses("OUTPUT") /\ round \in Nat
      /\ DOMAIN deviceBuffer = DOMAIN Blank(stream)
  BY <1>1, <1>2, InCycle
<1>4. played' = PlayedNow
  BY DEF WriteOutput, PlayedNow, Sent, Filled, InPlace
<1>5. deviceBuffer' = IF stream.doConvertBuffer["OUTPUT"] THEN Filled ELSE deviceBuffer
  BY DEF WriteOutput, Filled, InPlace
<1>6. (DOMAIN deviceBuffer = DOMAIN Blank(stream))'
  <2>1. Blank(stream)' = Blank(stream)
    BY <1>2 DEF Blank, Room
  <2>2. stream.doConvertBuffer["OUTPUT"] => DOMAIN Filled = DOMAIN deviceBuffer
    BY SameDomain DEF Filled
  <2> QED BY <1>3, <1>5, <2>1, <2>2
<1>7. ASSUME ~Reopened, ~Resized, stream.doConvertBuffer["OUTPUT"], ~KeepsInput
      PROVE  Quiet(Filled)
  <2>1. /\ Fitting(stream, "OUTPUT") /\ Opened("OUTPUT")
        /\ 0..(stream.bufferSize * stream.nDeviceChannels["OUTPUT"] - 1) \subseteq DOMAIN deviceBuffer
    BY <1>1, <1>3, <1>7, OpenLemma
  <2>2. Quiet(deviceBuffer) \/ (stream.mode = "DUPLEX" /\ stream.doConvertBuffer["INPUT"])
    BY <1>3, <1>7 DEF CycleInv, SharedQuiet
  <2> QED BY <1>7, <2>1, <2>2, QuietLemma
<1>8. SharedQuiet'
  <2> DEFINE b == IF stream.doConvertBuffer["OUTPUT"] THEN Filled ELSE deviceBuffer
  <2>1. CASE ~stream.doConvertBuffer["OUTPUT"]
    BY <1>2, <2>1 DEF SharedQuiet
  <2>2. CASE stream.mode = "DUPLEX" /\ stream.doConvertBuffer["INPUT"]
    BY <1>2, <2>2 DEF SharedQuiet
  <2>3. CASE Reopened \/ Resized
    <3>1. Reopened' = Reopened /\ Resized' = Resized
      BY <1>2, SameStream
    <3> QED BY <2>3, <3>1 DEF SharedQuiet
  <2>4. CASE /\ ~Reopened /\ ~Resized /\ stream.doConvertBuffer["OUTPUT"]
             /\ ~(stream.mode = "DUPLEX" /\ stream.doConvertBuffer["INPUT"])
    <3>1. Quiet(Filled)
      BY <1>7, <2>4 DEF KeepsInput
    <3>2. Quiet(deviceBuffer)'
      BY <1>2, <1>5, <2>4, <3>1, SameQuiet
    <3> QED BY <3>2 DEF SharedQuiet
  <2> QED BY <2>1, <2>2, <2>3, <2>4
<1>9. ASSUME ~Gap("OUTPUT")' PROVE OutputArrives'
  <2>1. ~Gap("OUTPUT")
    BY <1>1, <1>2, <1>9, SameStream
  <2>2. ~Reopened /\ ~Resized
    BY <2>1 DEF Gap
  <2>3. /\ Fitting(stream, "OUTPUT") /\ Opened("OUTPUT")
        /\ 0..(stream.bufferSize * stream.nDeviceChannels["OUTPUT"] - 1) \subseteq DOMAIN deviceBuffer
    BY <1>1, <1>3, <2>2, OpenLemma
  <2>4. OutputReaches(PlayedNow)
    BY <1>3, <1>7, <2>1, <2>2, <2>3, PlayedLemma
  <2> QED BY <1>2, <1>4, <2>4, SamePlayed
<1>10. ASSUME heard' # None, ~Gap("INPUT")' PROVE InputArrives'
  <2>1. heard # None /\ ~Gap("INPUT")
    BY <1>1, <1>2, <1>10, SameStream
  <2>2. InputReaches(heard)
    BY <2>1, ArrivesIsReaches DEF CycleInv, SamplesArrive
  <2> QED BY <1>2, <2>2, SameHeard
<1>11. SamplesArrive'
  BY <1>9, <1>10 DEF SamplesArrive
<1>12. phase' = "open"
  BY <1>2, <1>3
<1> QED BY <1>6, <1>8, <1>11, <1>12 DEF CycleInv

\* So does an input.
LEMMA ReadKeeps ==
  ASSUME ByteBits = 8, RtInv, Api # "CORE", CycleInv, ReadInput
  PROVE  CycleInv'
<1>1. "OUTPUT" \in Modes /\ "INPUT" \in Modes
  BY DEF Modes
<1>2. "INPUT" \in left /\ UNCHANGED <<system, asked, phase, stream, round, played>>
  BY DEF ReadInput
<1>3. /\ phase = "open" /\ Uses("INPUT") /\ round \in Nat
      /\ DOMAIN deviceBuffer = DOMAIN Blank(stream)
  BY <1>1, <1>2, InCycle
<1>4. heard' = HeardNow
  BY DEF ReadInput, HeardNow, GotNow, InPlace
<1>5. deviceBuffer' = IF stream.doConvertBuffer["INPUT"] THEN GotNow ELSE deviceBuffer
  BY DEF ReadInput, GotNow, InPlace
<1>6. (DOMAIN deviceBuffer = DOMAIN Blank(stream))'
  <2>1. Blank(stream)' = Blank(stream)
    BY <1>2 DEF Blank, Room
  <2>2. DOMAIN GotNow = DOMAIN deviceBuffer
    BY DEF GotNow
  <2> QED BY <1>3, <1>5, <2>1, <2>2
<1>7. SharedQuiet'
  <2>1. CASE stream.doConvertBuffer["INPUT"]
    <3>1. Uses("OUTPUT")' => stream'.mode = "DUPLEX"
      BY <1>2, <1>3 DEF Uses
    <3> QED BY <1>2, <2>1, <3>1 DEF SharedQuiet
  <2>2. CASE ~stream.doConvertBuffer["INPUT"]
    BY <1>2, <1>5, <2>2, QuietStays DEF CycleInv
  <2> QED BY <2>1, <2>2
<1>8. ASSUME played' # None, ~Gap("OUTPUT")' PROVE OutputArrives'
  <2>1. played # None /\ ~Gap("OUTPUT")
    BY <1>1, <1>2, <1>8, SameStream
  <2>2. OutputReaches(played)
    BY <2>1, ArrivesIsReaches DEF CycleInv, SamplesArrive
  <2> QED BY <1>2, <2>2, SamePlayed
<1>9. ASSUME ~Gap("INPUT")' PROVE InputArrives'
  <2>1. ~Gap("INPUT")
    BY <1>1, <1>2, <1>9, SameStream
  <2>2. ~Reopened /\ ~Resized
    BY <2>1 DEF Gap
  <2>3. /\ Fitting(stream, "INPUT") /\ Opened("INPUT")
        /\ 0..(stream.bufferSize * stream.nDeviceChannels["INPUT"] - 1) \subseteq DOMAIN deviceBuffer
        /\ 0..(stream.bufferSize * stream.nUserChannels["INPUT"] - 1) \subseteq DOMAIN Blank(stream)
    BY <1>1, <1>3, <2>2, OpenLemma
  <2>4. InputReaches(HeardNow)
    BY <1>3, <2>1, <2>3, HeardLemma
  <2> QED BY <1>2, <1>4, <2>4, SameHeard
<1>10. SamplesArrive'
  BY <1>8, <1>9 DEF SamplesArrive
<1>11. phase' = "open"
  BY <1>2, <1>3
<1> QED BY <1>6, <1>7, <1>10, <1>11 DEF CycleInv

\* A stream whose buffer is new.
Fresh == RtInv /\ Api # "CORE" /\ deviceBuffer = Blank(stream)

\* The same of the next state.
LEMMA FreshIsQuiet == Fresh' => SharedQuiet'
<1>1. Fresh => SharedQuiet
  BY BlankIsQuiet DEF Fresh
<1> QED BY <1>1, PTL

\* The invariant holds at first, and every step keeps it.
LEMMA CycleInductive ==
  ASSUME ByteBits = 8
  PROVE  /\ Init => CycleInv
         /\ RtInv /\ RtInv' /\ (Api # "CORE" => CycleInv) /\ [Next]_vars => (Api # "CORE" => CycleInv)'
<1>1. ASSUME Init PROVE CycleInv
  BY <1>1 DEF Init, CycleInv, SharedQuiet, SamplesArrive
<1>2. ASSUME RtInv, RtInv', Api # "CORE" => CycleInv, [Next]_vars, (Api # "CORE")' PROVE CycleInv'
  <2>1. Api # "CORE" /\ CycleInv
    <3>1. UNCHANGED system
      BY <1>2 DEF Next, GetDeviceInfo, OpenStream, CloseStream, Callback, WriteOutput, ReadInput, vars
    <3> QED BY <1>2, <3>1 DEF Api
  <2>2. ASSUME phase' # "open", played' = None, heard' = None PROVE CycleInv'
    BY <2>2 DEF CycleInv, SharedQuiet, SamplesArrive
  <2>3. ASSUME NEW n \in DOMAIN told, GetDeviceInfo(n) PROVE CycleInv'
    BY <2>1, <2>2, <2>3 DEF GetDeviceInfo, CycleInv
  <2>4. ASSUME NEW q \in Requests, OpenStream(q) PROVE CycleInv'
    <3>1. /\ played' = None /\ heard' = None
          /\ phase' = "open" => (deviceBuffer = Blank(stream))'
      <4>1. phase = "closed" /\ UNCHANGED <<played, heard>>
        BY <2>4 DEF OpenStream
      <4>2. played = None /\ heard = None
        BY <2>1, <4>1 DEF CycleInv
      <4>3. phase' = "open" => deviceBuffer' = Blank(stream')
        BY <2>4 DEF OpenStream
      <4>4. Blank(stream') = Blank(stream)'
        BY DEF Blank, Room
      <4> QED BY <4>1, <4>2, <4>3, <4>4
    <3>2. phase' = "open" => SharedQuiet'
      BY <1>2, <3>1, FreshIsQuiet DEF Fresh
    <3>3. CASE phase' = "open"
      BY <3>1, <3>2, <3>3 DEF CycleInv, SamplesArrive
    <3>4. CASE phase' # "open"
      BY <2>2, <3>1, <3>4
    <3> QED BY <3>3, <3>4
  <2>5. CASE Callback
    <3>1. /\ phase = "open" /\ UNCHANGED <<system, asked, phase, stream, deviceBuffer>>
          /\ played' = None /\ heard' = None
      BY <2>5 DEF Callback
    <3>2. SharedQuiet'
      BY <2>1, <3>1, QuietStays DEF CycleInv
    <3>3. Blank(stream)' = Blank(stream)
      BY <3>1 DEF Blank, Room
    <3> QED BY <2>1, <3>1, <3>2, <3>3 DEF CycleInv, SamplesArrive
  <2>6. CASE WriteOutput
    BY <1>2, <2>1, <2>6, WriteKeeps
  <2>7. CASE ReadInput
    BY <1>2, <2>1, <2>7, ReadKeeps
  <2>8. CASE CloseStream
    BY <2>2, <2>8 DEF CloseStream
  <2>9. CASE UNCHANGED vars
    <3>1. UNCHANGED <<system, asked, phase, stream, deviceBuffer, round, played, heard>>
      BY <2>9 DEF vars
    <3>2. SharedQuiet'
      BY <2>1, <3>1, QuietStays DEF CycleInv
    <3>3. Blank(stream)' = Blank(stream)
      BY <3>1 DEF Blank, Room
    <3>4. ASSUME played' # None, ~Gap("OUTPUT")' PROVE OutputArrives'
      <4>1. played # None /\ ~Gap("OUTPUT")
        BY <3>1, <3>4, SameStream DEF Modes
      <4>2. OutputReaches(played)
        BY <2>1, <4>1, ArrivesIsReaches DEF CycleInv, SamplesArrive
      <4> QED BY <2>1, <3>1, <4>2, SamePlayed
    <3>5. ASSUME heard' # None, ~Gap("INPUT")' PROVE InputArrives'
      <4>1. heard # None /\ ~Gap("INPUT")
        BY <3>1, <3>5, SameStream DEF Modes
      <4>2. InputReaches(heard)
        BY <2>1, <4>1, ArrivesIsReaches DEF CycleInv, SamplesArrive
      <4> QED BY <3>1, <4>2, SameHeard
    <3>6. SamplesArrive'
      BY <3>4, <3>5 DEF SamplesArrive
    <3> QED BY <2>1, <3>1, <3>2, <3>3, <3>6 DEF CycleInv
  <2> QED BY <1>2, <2>3, <2>4, <2>5, <2>6, <2>7, <2>8, <2>9 DEF Next
<1> QED BY <1>1, <1>2

\* Samples arrive, whatever the devices, the request and the size of the buffers
\* are: callbackEvent, with convertBuffer and byteSwapBuffer, plays the samples of
\* the callback in the channels and frames that were asked for, unchanged up to
\* rounding, the others are silent, and the callback gets what was recorded.
THEOREM SamplesReachTheirChannels ==
  ASSUME ByteBits = 8
  PROVE  Spec => [](Api # "CORE" => SamplesArrive)
<1>1. Init => (Api # "CORE" => CycleInv)
  BY CycleInductive
<1>2. RtInv /\ RtInv' /\ (Api # "CORE" => CycleInv) /\ [Next]_vars => (Api # "CORE" => CycleInv)'
  BY CycleInductive
<1>3. (Api # "CORE" => CycleInv) => (Api # "CORE" => SamplesArrive)
  BY DEF CycleInv
<1> QED BY <1>1, <1>2, <1>3, RtInvariant, PTL DEF Spec
=============================================================================
