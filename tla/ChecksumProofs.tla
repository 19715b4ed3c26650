--------------------------- MODULE ChecksumProofs ---------------------------
(***************************************************************************)
(* The Internet checksum is exact, and the stack's tests of it decide      *)
(* rightly, for every width of a byte, every length and content of a       *)
(* packet and every place of the checksum.                                 *)
(*                                                                         *)
(* What the reference sum of a buffer is follows by induction over the     *)
(* buffer.  The induction is that of SetInduction: a set of numbers, so    *)
(* that it rests on the first-order fact that < is well founded.           *)
(***************************************************************************)
EXTENDS Checksum, FiniteSetTheorems, WellFoundedInduction, TLAPS

(* A set that holds 0 and the successor of each of its members is Nat: the *)
(* least number outside it would have a predecessor inside.                *)
LEMMA SetInduction ==
  ASSUME NEW T \in SUBSET Nat, 0 \in T, \A n \in T : n + 1 \in T
  PROVE  T = Nat
<1> SUFFICES ASSUME Nat \ T # {} PROVE FALSE
  OBVIOUS
<1>1. PICK x \in Nat \ T : \A y \in Nat \ T : ~(<<y, x>> \in OpToRel(<, Nat))
  <2>1. Nat \ T \subseteq Nat
    OBVIOUS
  <2> QED BY <2>1, NatLessThanWellFounded, WFMin
<1>2. x # 0 /\ x - 1 \in Nat
  OBVIOUS
<1>3. CASE x - 1 \in T
  BY <1>2, <1>3
<1>4. CASE x - 1 \notin T
  <2>1. x - 1 < x
    BY <1>2
  <2>2. <<x - 1, x>> \in OpToRel(<, Nat)
    BY <1>2, <2>1 DEF OpToRel
  <2> QED BY <1>1, <1>2, <1>4, <2>2
<1> QED BY <1>3, <1>4

-----------------------------------------------------------------------------
(***************************************************************************)
(* The reference sum.                                                      *)
(***************************************************************************)
(* g holds the sums of the first 0, 1, ..., k bytes of b.                  *)
Adds(b, g, k) == /\ g \in [0 .. k -> Nat] /\ g[0] = 0
                 /\ \A i \in 0 .. k - 1 : g[i + 1] = g[i] + Weight(i) * b[i]

(* PartialSum is what its recursion says: the sums of every length exist,  *)
(* so the function its definition chooses is one that satisfies it.        *)
LEMMA PartialSums ==
  ASSUME NEW n \in Nat, NEW b \in [0 .. n - 1 -> Nat],
         \A k \in 0 .. n - 1 : Weight(k) * b[k] \in Nat
  PROVE  /\ PartialSum(b) \in [0 .. n -> Nat] /\ PartialSum(b)[0] = 0
         /\ \A k \in 0 .. n - 1 : PartialSum(b)[k + 1] = PartialSum(b)[k] + Weight(k) * b[k]
<1>1. Cardinality(DOMAIN b) = n
  BY FS_Interval
<1> DEFINE T == {k \in Nat : k <= n => \E g : Adds(b, g, k)}
<1>2. 0 \in T
  <2> DEFINE g == [i \in 0 .. 0 |-> 0]
  <2>1. Adds(b, g, 0)
    BY DEF Adds
  <2> QED BY <2>1
<1>3. ASSUME NEW k \in T PROVE k + 1 \in T
  <2> SUFFICES ASSUME k + 1 <= n PROVE \E g : Adds(b, g, k + 1)
    OBVIOUS
  <2>1. PICK g : Adds(b, g, k)
    OBVIOUS
  <2> DEFINE w == Weight(k) * b[k]
             h == [i \in 0 .. k + 1 |-> IF i = k + 1 THEN g[k] + w ELSE g[i]]
  <2>2. w \in Nat /\ g[k] \in Nat /\ k \in 0 .. n - 1
    BY <2>1 DEF Adds
  <2>3. h \in [0 .. k + 1 -> Nat] /\ h[0] = 0
    <3> HIDE DEF w
    <3> QED BY <2>1, <2>2 DEF Adds
  <2>4. ASSUME NEW i \in 0 .. k PROVE h[i + 1] = h[i] + Weight(i) * b[i]
    <3>1. CASE i = k
      BY <3>1
    <3>2. CASE i # k
      <4>1. i \in 0 .. k - 1 /\ i + 1 # k + 1 /\ i # k + 1 /\ i + 1 \in 0 .. k + 1 /\ i \in 0 .. k + 1
        BY <3>2
      <4>2. h[i + 1] = g[i + 1] /\ h[i] = g[i]
        BY <4>1
      <4> QED BY <2>1, <4>1, <4>2 DEF Adds
    <3> QED BY <3>1, <3>2
  <2>5. 0 .. (k + 1) - 1 = 0 .. k
    OBVIOUS
  <2> QED BY <2>3, <2>4, <2>5 DEF Adds
<1>4. T = Nat
  <2>1. T \in SUBSET Nat
    OBVIOUS
  <2> HIDE DEF T
  <2> QED BY <1>2, <1>3, <2>1, SetInduction
<1>5. PICK g : Adds(b, g, n)
  <2>1. n \in T
    <3> HIDE DEF T
    <3> QED BY <1>4
  <2>2. n <= n
    OBVIOUS
  <2> QED BY <2>1, <2>2
<1> DEFINE F(f) == [i \in 0 .. n |-> IF i = 0 THEN 0 ELSE f[i - 1] + Weight(i - 1) * b[i - 1]]
<1>6. g = F(g)
  <2>1. ASSUME NEW i \in 0 .. n PROVE g[i] = F(g)[i]
    <3>1. CASE i = 0
      BY <1>5, <3>1 DEF Adds
    <3>2. CASE i # 0
      <4>1. i - 1 \in 0 .. n - 1 /\ (i - 1) + 1 = i
        BY <3>2
      <4>2. g[(i - 1) + 1] = g[i - 1] + Weight(i - 1) * b[i - 1]
        BY <1>5, <4>1 DEF Adds
      <4> QED BY <3>2, <4>1, <4>2
    <3> QED BY <3>1, <3>2
  <2> QED BY <1>5, <2>1 DEF Adds
<1> DEFINE S == PartialSum(b)
<1>7. S = F(S)
  <2>1. S = CHOOSE f : f = F(f)
    BY <1>1 DEF PartialSum
  <2> HIDE DEF S, F
  <2> QED BY <1>6, <2>1
<1>8. S[0] = 0 /\ \A k \in 0 .. n - 1 : S[k + 1] = S[k] + Weight(k) * b[k]
  <2> HIDE DEF S
  <2>1. ASSUME NEW i \in 0 .. n PROVE S[i] = IF i = 0 THEN 0 ELSE S[i - 1] + Weight(i - 1) * b[i - 1]
    BY <1>7
  <2>2. ASSUME NEW k \in 0 .. n - 1 PROVE S[k + 1] = S[k] + Weight(k) * b[k]
    <3>1. k + 1 \in 0 .. n /\ k + 1 # 0 /\ (k + 1) - 1 = k
      OBVIOUS
    <3> QED BY <2>1, <3>1
  <2> QED BY <2>1, <2>2
<1> DEFINE U == {k \in Nat : k <= n => S[k] \in Nat}
<1>9. U = Nat
  <2> HIDE DEF S
  <2>1. U \in SUBSET Nat /\ 0 \in U
    BY <1>8
  <2>2. ASSUME NEW k \in U PROVE k + 1 \in U
    <3> SUFFICES ASSUME k + 1 <= n PROVE S[k + 1] \in Nat
      OBVIOUS
    <3> DEFINE w == Weight(k) * b[k]
    <3>1. k \in 0 .. n - 1 /\ S[k] \in Nat /\ w \in Nat
      OBVIOUS
    <3>2. S[k + 1] = S[k] + w
      BY <1>8, <3>1
    <3> HIDE DEF w
    <3> QED BY <3>1, <3>2
  <2> HIDE DEF U
  <2> QED BY <2>1, <2>2, SetInduction
<1>10. S \in [0 .. n -> Nat]
  <2>1. \A k \in 0 .. n : S[k] \in Nat
    BY <1>9
  <2>2. S = [k \in 0 .. n |-> S[k]]
    <3> HIDE DEF S
    <3> QED BY <1>7
  <2> HIDE DEF S
  <2> QED BY <2>1, <2>2
<1> QED BY <1>8, <1>10

-----------------------------------------------------------------------------
(***************************************************************************)
(* Arithmetic modulo 2^16 - 1.                                             *)
(***************************************************************************)
Ones == W16 - 1

LEMMA Sizes ==
  /\ W8 \in Nat /\ W8 >= 2 /\ W16 \in Nat /\ W16 = W8 * W8 /\ W16 >= 2 * W8
  /\ Ones \in Nat /\ Ones >= 3 /\ W16 = Ones + 1 /\ W32 \in Nat
<1>1. W8 \in Nat /\ W8 >= 2
  BY ChecksumAssumption
<1>2. W8 * W8 \in Nat /\ W8 * W8 >= 2 * W8
  BY <1>1
<1>3. W16 * W16 \in Nat
  BY <1>2 DEF W16
<1> QED BY <1>1, <1>2, <1>3 DEF W16, Ones, W32

(* Division with remainder.                                                *)
LEMMA Division ==
  ASSUME NEW x \in Nat, NEW m \in Nat, m > 0
  PROVE  /\ x % m \in 0 .. m - 1 /\ x \div m \in Nat /\ x = m * (x \div m) + (x % m)
  OBVIOUS

(* The only multiple of m between -m and m is 0.                           *)
LEMMA NoSmallMultiple ==
  ASSUME NEW k \in Int, NEW m \in Nat, m > 0, -m < k * m, k * m < m
  PROVE  k = 0
<1>1. CASE k >= 1
  <2>1. k - 1 \in Nat
    BY <1>1
  <2>2. (k - 1) * m >= 0
    BY <2>1
  <2>3. k * m = (k - 1) * m + m
    OBVIOUS
  <2> QED BY <2>2, <2>3
<1>2. CASE k <= -1
  <2>1. -1 - k \in Nat
    BY <1>2
  <2>2. (-1 - k) * m >= 0
    BY <2>1
  <2>3. k * m = -((-1 - k) * m) - m
    OBVIOUS
  <2> QED BY <2>2, <2>3
<1> QED BY <1>1, <1>2

(* Two numbers leave the same remainder if and only if they are a multiple *)
(* apart.                                                                  *)
LEMMA SameRemainder ==
  ASSUME NEW x \in Nat, NEW y \in Nat, NEW m \in Nat, m > 0, NEW k \in Int, x - y = k * m
  PROVE  x % m = y % m
<1> DEFINE p == x \div m
           q == y \div m
           r == x % m
           s == y % m
<1>1. /\ p \in Nat /\ r \in Nat /\ r < m /\ x = m * p + r
      /\ q \in Nat /\ s \in Nat /\ s < m /\ y = m * q + s
  BY Division
<1> HIDE DEF p, q, r, s
<1>2. r - s = (k - p + q) * m
  BY <1>1
<1>3. -m < r - s /\ r - s < m /\ k - p + q \in Int
  BY <1>1
<1>4. k - p + q = 0
  BY <1>2, <1>3, NoSmallMultiple
<1>5. r = s
  BY <1>1, <1>2, <1>4
<1> QED BY <1>5 DEF r, s

LEMMA MultipleApart ==
  ASSUME NEW x \in Nat, NEW y \in Nat, NEW m \in Nat, m > 0, x % m = y % m
  PROVE  \E k \in Int : x - y = k * m
<1> DEFINE p == x \div m
           q == y \div m
           r == x % m
           s == y % m
<1>1. /\ p \in Nat /\ r \in Nat /\ r < m /\ x = m * p + r
      /\ q \in Nat /\ s \in Nat /\ s < m /\ y = m * q + s
  BY Division
<1>2. r = s
  OBVIOUS
<1> HIDE DEF p, q, r, s
<1>3. x - y = (p - q) * m
  BY <1>1, <1>2
<1>4. p - q \in Int
  BY <1>1
<1> QED BY <1>3, <1>4

(* s is what folding makes of t: congruent, 16 bits, zero only for zero.   *)
Reduced(s, t) == s \in 0 .. Ones /\ s % Ones = t % Ones /\ (s = 0 <=> t = 0)

(* There is only one.                                                      *)
LEMMA ReducedOnce ==
  ASSUME NEW t \in Nat, NEW s, NEW r, Reduced(s, t), Reduced(r, t)
  PROVE  s = r
<1>1. s \in Nat /\ r \in Nat /\ s <= Ones /\ r <= Ones /\ Ones \in Nat /\ Ones > 0 /\ s % Ones = r % Ones
  BY Sizes DEF Reduced
<1>2. PICK k \in Int : s - r = k * Ones
  BY <1>1, MultipleApart
<1>3. s = 0 <=> r = 0
  BY DEF Reduced
<1>4. CASE s = 0 \/ r = 0
  BY <1>3, <1>4
<1>5. CASE s # 0 /\ r # 0
  <2>1. -Ones < s - r /\ s - r < Ones
    BY <1>1, <1>5
  <2>2. k = 0
    BY <1>1, <1>2, <2>1, NoSmallMultiple
  <2> QED BY <1>1, <1>2, <2>2
<1> QED BY <1>4, <1>5

(* A packet that tcp_dispatch accepts passes ip_validate.                  *)
LEMMA AcceptedPasses ==
  ASSUME NEW t \in Nat, NEW w \in 0 .. Ones, Reduced(Ones - w, t)
  PROVE  Reduced(Ones, t + w)
<1>1. Ones \in Nat /\ Ones > 0 /\ Ones - w \in Nat /\ w \in Nat
  BY Sizes
<1> DEFINE s == Ones - w
           u == t + w
<1>2. s \in Nat /\ u \in Nat /\ t % Ones = s % Ones
  BY <1>1 DEF Reduced
<1>3. PICK k \in Int : t - s = k * Ones
  <2> HIDE DEF s
  <2> QED BY <1>1, <1>2, MultipleApart
<1>4. u % Ones = Ones % Ones
  <2>1. u - Ones = k * Ones
    BY <1>1, <1>3
  <2> HIDE DEF u
  <2> QED BY <1>1, <1>2, <2>1, SameRemainder
<1>5. t + w # 0
  BY <1>1 DEF Reduced
<1> QED BY <1>1, <1>4, <1>5 DEF Reduced

(* Conversely, unless the checksum is all ones.                            *)
LEMMA PassedAccepts ==
  ASSUME NEW t \in Nat, NEW w \in 0 .. Ones, w # Ones, Reduced(Ones, t + w)
  PROVE  Reduced(Ones - w, t)
<1>1. Ones \in Nat /\ Ones > 0 /\ Ones - w \in Nat /\ w \in Nat /\ w < Ones
  BY Sizes
<1> DEFINE s == Ones - w
           u == t + w
<1>2. s \in Nat /\ u \in Nat /\ u % Ones = Ones % Ones
  BY <1>1 DEF Reduced
<1>3. PICK k \in Int : u - Ones = k * Ones
  <2> HIDE DEF u
  <2> QED BY <1>1, <1>2, MultipleApart
<1>4. t % Ones = s % Ones
  <2>1. t - s = k * Ones
    BY <1>1, <1>3
  <2> HIDE DEF s
  <2> QED BY <1>1, <1>2, <2>1, SameRemainder
<1>5. t # 0
  <2> SUFFICES ASSUME t = 0 PROVE FALSE
    OBVIOUS
  <2>1. w = (k + 1) * Ones /\ k + 1 \in Int
    BY <1>1, <1>3
  <2>2. k + 1 = 0
    BY <1>1, <2>1, NoSmallMultiple
  <2>3. w = 0
    BY <1>1, <2>1, <2>2
  <2> QED BY <1>1, <2>3 DEF Reduced
<1> QED BY <1>1, <1>4, <1>5 DEF Reduced

(* A sum that passes passes no more when less than Ones is added to it or  *)
(* taken away.                                                             *)
LEMMA ShiftFails ==
  ASSUME NEW t \in Nat, NEW u \in Nat, Reduced(Ones, t), u # t, -Ones < u - t, u - t < Ones
  PROVE  ~Reduced(Ones, u)
<1> SUFFICES ASSUME Reduced(Ones, u) PROVE FALSE
  OBVIOUS
<1>1. Ones \in Nat /\ Ones > 0 /\ u % Ones = t % Ones
  BY Sizes DEF Reduced
<1>2. PICK k \in Int : u - t = k * Ones
  BY <1>1, MultipleApart
<1>3. k = 0
  BY <1>1, <1>2, NoSmallMultiple
<1> QED BY <1>1, <1>2, <1>3

-----------------------------------------------------------------------------
(***************************************************************************)
(* Buffers, and what changing one byte does to their sum.                  *)
(***************************************************************************)
Buffer == UNION {[0 .. n - 1 -> Byte] : n \in Field + 2 .. MaxLen}
Size(b)  == Cardinality(DOMAIN b)
Total(b) == PartialSum(b)[Size(b)]

LEMMA BufferShape ==
  ASSUME NEW b \in Buffer
  PROVE  /\ Size(b) \in Nat /\ Field + 2 <= Size(b) /\ Size(b) <= MaxLen
         /\ b \in [0 .. Size(b) - 1 -> Byte]
<1>1. PICK n \in Field + 2 .. MaxLen : b \in [0 .. n - 1 -> Byte]
  BY DEF Buffer
<1>2. n \in Nat /\ Field + 2 <= n /\ n <= MaxLen
  BY <1>1, ChecksumAssumption
<1>3. Size(b) = n
  BY <1>1, <1>2, FS_Interval DEF Size
<1> QED BY <1>1, <1>2, <1>3

LEMMA Weighed ==
  ASSUME NEW k \in Nat, NEW v \in Int
  PROVE  /\ Weight(k) \in {1, W8} /\ Weight(k) * v \in Int /\ (v \in Nat => Weight(k) * v \in Nat)
<1>1. Weight(k) \in {1, W8} /\ W8 \in Nat
  BY Sizes DEF Weight
<1>2. W8 * v \in Int /\ (v \in Nat => W8 * v \in Nat)
  BY <1>1
<1> QED BY <1>1, <1>2

LEMMA BufferSums ==
  ASSUME NEW b \in Buffer
  PROVE  /\ PartialSum(b) \in [0 .. Size(b) -> Nat] /\ PartialSum(b)[0] = 0
         /\ \A k \in 0 .. Size(b) - 1 :
              PartialSum(b)[k + 1] = PartialSum(b)[k] + Weight(k) * b[k]
<1> DEFINE n == Size(b)
<1>1. n \in Nat /\ b \in [0 .. n - 1 -> Byte]
  BY BufferShape
<1> HIDE DEF n
<1>2. Byte \subseteq Nat
  BY Sizes DEF Byte
<1>3. b \in [0 .. n - 1 -> Nat]
  BY <1>1, <1>2
<1>4. ASSUME NEW k \in 0 .. n - 1 PROVE Weight(k) * b[k] \in Nat
  <2>1. k \in Nat /\ b[k] \in Nat /\ b[k] \in Int
    BY <1>3
  <2> QED BY <2>1, Weighed
<1>5. /\ PartialSum(b) \in [0 .. n -> Nat] /\ PartialSum(b)[0] = 0
      /\ \A k \in 0 .. n - 1 : PartialSum(b)[k + 1] = PartialSum(b)[k] + Weight(k) * b[k]
  BY <1>1, <1>3, <1>4, PartialSums
<1> QED BY <1>5 DEF n

LEMMA ByteType == ASSUME NEW v \in Byte PROVE v \in Nat /\ v \in Int /\ v <= W8 - 1
  BY Sizes DEF Byte

LEMMA TotalType == ASSUME NEW b \in Buffer PROVE Total(b) \in Nat
  BY BufferShape, BufferSums DEF Total

(* One byte changed.                                                       *)
LEMMA ChangedShape ==
  ASSUME NEW b \in Buffer, NEW j \in DOMAIN b, NEW v \in Byte
  PROVE  LET c == [b EXCEPT ![j] = v] IN
         /\ c \in Buffer /\ Size(c) = Size(b) /\ DOMAIN c = DOMAIN b /\ c[j] = v
         /\ \A k \in DOMAIN b : k # j => c[k] = b[k]
  BY DEF Buffer, Size

LEMMA ChangedTotal ==
  ASSUME NEW b \in Buffer, NEW j \in DOMAIN b, NEW v \in Byte
  PROVE  Total([b EXCEPT ![j] = v]) = Total(b) + Weight(j) * (v - b[j])
<1> DEFINE a == [b EXCEPT ![j] = v]
           n == Size(b)
           R == PartialSum(a)
           S == PartialSum(b)
           d == Weight(j) * (v - b[j])
<1>1. n \in Nat /\ b \in [0 .. n - 1 -> Byte] /\ j \in 0 .. n - 1 /\ j \in Nat
  BY BufferShape
<1>2. a \in Buffer /\ Size(a) = n /\ a[j] = v /\ \A k \in 0 .. n - 1 : k # j => a[k] = b[k]
  BY <1>1, ChangedShape
<1> HIDE DEF a, n
<1>3. /\ R \in [0 .. n -> Nat] /\ R[0] = 0
      /\ \A k \in 0 .. n - 1 : R[k + 1] = R[k] + Weight(k) * a[k]
  BY <1>2, BufferSums
<1>4. /\ S \in [0 .. n -> Nat] /\ S[0] = 0
      /\ \A k \in 0 .. n - 1 : S[k + 1] = S[k] + Weight(k) * b[k]
  BY BufferSums DEF n
<1>5. d \in Int /\ Weight(j) * v = Weight(j) * b[j] + d /\ Weight(j) * b[j] \in Nat
  <2>1. b[j] \in Byte
    BY <1>1
  <2>2. b[j] \in Nat /\ v \in Nat
    BY <2>1, ByteType
  <2>3. Weight(j) \in Nat
    BY <1>1, Sizes DEF Weight
  <2> QED BY <2>2, <2>3
<1> HIDE DEF R, S, d
<1> DEFINE T == {k \in Nat : k <= n => R[k] = S[k] + (IF k > j THEN d ELSE 0)}
<1>6. T \in SUBSET Nat /\ 0 \in T
  BY <1>1, <1>3, <1>4
<1>7. ASSUME NEW k \in T PROVE k + 1 \in T
  <2>1. k \in Nat /\ (k <= n => R[k] = S[k] + (IF k > j THEN d ELSE 0))
    OBVIOUS
  <2> SUFFICES ASSUME k + 1 <= n PROVE R[k + 1] = S[k + 1] + (IF k + 1 > j THEN d ELSE 0)
    BY <2>1
  <2> HIDE DEF T
  <2> DEFINE w == Weight(k) * b[k]
  <2>2. k \in 0 .. n - 1 /\ S[k] \in Nat /\ b[k] \in Byte
    BY <1>1, <1>4, <2>1
  <2>3. R[k] = S[k] + (IF k > j THEN d ELSE 0)
    BY <1>1, <2>1
  <2>4. S[k + 1] = S[k] + w /\ R[k + 1] = R[k] + Weight(k) * a[k]
    BY <1>3, <1>4, <2>2
  <2>5. w \in Nat
    BY <2>1, <2>2, ByteType, Weighed
  <2>6. CASE k = j
    <3>1. Weight(k) * a[k] = w + d
      BY <1>2, <1>5, <2>6
    <3> HIDE DEF w
    <3> QED BY <1>1, <1>5, <2>1, <2>2, <2>3, <2>4, <2>6, <2>5, <3>1
  <2>7. CASE k # j
    <3>1. Weight(k) * a[k] = w
      BY <1>2, <2>2, <2>7
    <3> HIDE DEF w
    <3>2. (k + 1 > j) <=> (k > j)
      BY <1>1, <2>1, <2>7
    <3> QED BY <1>1, <1>5, <2>1, <2>2, <2>3, <2>4, <2>5, <3>1, <3>2
  <2> QED BY <2>6, <2>7
<1>8. n \in T
  <2> HIDE DEF T
  <2>1. T = Nat
    BY <1>6, <1>7, SetInduction
  <2> QED BY <1>1, <2>1
<1>9. R[n] = S[n] + d
  BY <1>1, <1>8
<1> QED BY <1>2, <1>9 DEF Total, R, S, d, n, a

(* The sum with the checksum is the sum without it and the checksum.       *)
LEMMA ChecksumApart ==
  ASSUME NEW b \in Buffer
  PROVE  /\ Zeroed(b) \in Buffer /\ Size(Zeroed(b)) = Size(b) /\ Word(b, Field) \in 0 .. Ones
         /\ Total(b) = Total(Zeroed(b)) + Word(b, Field)
<1> DEFINE f == Field
           a == [b EXCEPT ![f] = 0]
           z == [a EXCEPT ![f + 1] = 0]
<1>1. /\ f \in DOMAIN b /\ f + 1 \in DOMAIN b /\ f + 1 # f /\ f \in Nat /\ f % 2 = 0
      /\ b[f] \in Byte /\ b[f + 1] \in Byte /\ 0 \in Byte
  BY BufferShape, ChecksumAssumption, Sizes DEF Byte
<1>2. a \in Buffer /\ Size(a) = Size(b) /\ f + 1 \in DOMAIN a /\ a[f + 1] = b[f + 1]
  BY <1>1, ChangedShape
<1>3. z \in Buffer /\ Size(z) = Size(b)
  <2> HIDE DEF a
  <2> QED BY <1>1, <1>2, ChangedShape
<1>4. z = Zeroed(b)
  BY DEF Zeroed
<1>5. Total(a) = Total(b) + Weight(f) * (0 - b[f])
  BY <1>1, ChangedTotal
<1>6. Total(z) = Total(a) + Weight(f + 1) * (0 - b[f + 1])
  BY <1>1, <1>2, ChangedTotal
<1>7. Weight(f) = 1 /\ Weight(f + 1) = W8
  BY <1>1 DEF Weight
<1>8. Total(a) \in Nat /\ Total(b) \in Nat /\ Total(z) \in Nat
  BY <1>2, <1>3, TotalType
<1> HIDE DEF a, z, f
<1>9. b[f] \in Nat /\ b[f + 1] \in Nat /\ b[f] <= W8 - 1 /\ b[f + 1] <= W8 - 1
  BY <1>1, Sizes DEF Byte
<1>10. W8 * b[f + 1] \in Nat /\ W8 * b[f + 1] <= W8 * (W8 - 1)
  BY <1>9, Sizes
<1>11. b[f] + W8 * b[f + 1] \in 0 .. Ones
  BY <1>9, <1>10, Sizes
<1>12. Total(b) = Total(z) + (b[f] + W8 * b[f + 1])
  BY <1>5, <1>6, <1>7, <1>8, <1>9, Sizes
<1> QED BY <1>3, <1>4, <1>11, <1>12 DEF Word, f

(* What the two tests mean: tcp_dispatch compares the checksum with the    *)
(* sum of the rest, ip_validate and icmp_validate expect all ones.         *)
Correct(b) == Reduced(Ones - Word(b, Field), Total(Zeroed(b)))
Passes(b)  == Reduced(Ones, Total(b))

LEMMA TestsCompared ==
  ASSUME NEW b \in Buffer
  PROVE  /\ Correct(b) => Passes(b)
         /\ Passes(b) /\ Word(b, Field) # Ones => Correct(b)
<1>1. /\ Total(Zeroed(b)) \in Nat /\ Word(b, Field) \in 0 .. Ones
      /\ Total(b) = Total(Zeroed(b)) + Word(b, Field)
  BY ChecksumApart, TotalType
<1> QED BY <1>1, AcceptedPasses, PassedAccepts DEF Correct, Passes

(* A changed byte moves the sum by less than Ones.                         *)
LEMMA DamageSeen ==
  ASSUME NEW b \in Buffer, NEW i \in DOMAIN b, NEW v \in Byte, v # b[i], Correct([b EXCEPT ![i] = v])
  PROVE  ~Passes(b) /\ ~Correct(b)
<1> DEFINE a == [b EXCEPT ![i] = v]
           e == v - b[i]
<1>1. a \in Buffer /\ Total(a) = Total(b) + Weight(i) * e
  BY ChangedShape, ChangedTotal
<1>2. b[i] \in Byte /\ i \in Nat
  BY BufferShape
<1>3. e \in Int /\ e # 0 /\ -(W8 - 1) <= e /\ e <= W8 - 1
  BY <1>2, ByteType, Sizes
<1>4. Passes(a)
  BY <1>1, TestsCompared
<1> HIDE DEF a, e
<1>5. Weight(i) \in {1, W8} /\ Weight(i) * e \in Int
  BY <1>2, <1>3, Weighed
<1>6. Weight(i) * e # 0 /\ -Ones < Weight(i) * e /\ Weight(i) * e < Ones
  <2>1. CASE Weight(i) = 1
    BY <1>3, <2>1, Sizes
  <2>2. CASE Weight(i) = W8
    <3>1. W8 * e <= W8 * (W8 - 1) /\ W8 * e >= -(W8 * (W8 - 1)) /\ W8 * e # 0
      BY <1>3, Sizes
    <3>2. W8 * (W8 - 1) < Ones
      BY Sizes
    <3> QED BY <1>3, <2>2, <3>1, <3>2, Sizes
  <2> QED BY <1>5, <2>1, <2>2
<1>7. Total(a) \in Nat /\ Total(b) \in Nat
  BY <1>1, TotalType
<1>8. Total(b) # Total(a) /\ -Ones < Total(b) - Total(a) /\ Total(b) - Total(a) < Ones
  <2> DEFINE d == Weight(i) * e
  <2>1. d \in Int /\ Total(a) = Total(b) + d /\ d # 0 /\ -Ones < d /\ d < Ones
    BY <1>1, <1>5, <1>6
  <2> HIDE DEF d
  <2> QED BY <2>1, <1>7, Sizes
<1>9. ~Passes(b)
  BY <1>4, <1>7, <1>8, ShiftFails DEF Passes
<1> QED BY <1>9, TestsCompared

(* Filling in the complement of a folded sum.                              *)
LEMMA FilledIn ==
  ASSUME NEW b \in Buffer, NEW s \in 0 .. Ones, Reduced(s, Total(Zeroed(b)))
  PROVE  Stored(b, Ones - s) \in Buffer /\ Correct(Stored(b, Ones - s))
<1> DEFINE w == Ones - s
           x == w % W8
           y == w \div W8
           f == Field
           a == [b EXCEPT ![f] = x]
           d == [a EXCEPT ![f + 1] = y]
<1>1. f \in DOMAIN b /\ f + 1 \in DOMAIN b /\ f + 1 # f
  BY BufferShape, ChecksumAssumption
<1>2. w \in Nat /\ w <= Ones /\ Ones - w = s
  BY Sizes
<1> HIDE DEF w
<1>3. x \in 0 .. W8 - 1 /\ y \in Nat /\ w = W8 * y + x
  BY <1>2, Sizes, Division
<1> HIDE DEF x, y
<1>4. y <= W8 - 1
  <2> SUFFICES ASSUME y >= W8 PROVE FALSE
    BY <1>3, Sizes
  <2>1. W8 * y >= W8 * W8
    BY <1>3, Sizes
  <2> QED BY <1>2, <1>3, <2>1, Sizes
<1>5. x \in Byte /\ y \in Byte
  BY <1>3, <1>4 DEF Byte
<1>6. a \in Buffer /\ DOMAIN a = DOMAIN b /\ a[f] = x
  BY <1>1, <1>5, ChangedShape
<1>7. d \in Buffer /\ d[f] = x /\ d[f + 1] = y
  <2> HIDE DEF a
  <2> QED BY <1>1, <1>5, <1>6, ChangedShape
<1>8. d = Stored(b, w)
  BY DEF Stored, x, y
<1>9. Word(d, f) = w
  BY <1>3, <1>7, Sizes DEF Word
<1>10. Zeroed(d) = Zeroed(b)
  BY <1>1 DEF Zeroed
<1> HIDE DEF d
<1> QED BY <1>2, <1>7, <1>8, <1>9, <1>10 DEF Correct, w

-----------------------------------------------------------------------------
(***************************************************************************)
(* The inductive invariant.  While checksum adds, its accumulator is the   *)
(* sum of the words behind ptr and small enough not to overflow; while it  *)
(* folds, it is congruent to the sum of the whole buffer.                  *)
(***************************************************************************)
Adding  == \E h \in 0 .. MaxLen : pos = 2 * h /\ pos <= Length /\ sum = Meant /\ sum <= h * Ones
Folding == pos = Length /\ sum % Ones = Meant % Ones /\ (sum = 0 <=> Meant = 0)

Adder == /\ sum \in Nat
         /\ pc = "add" => Adding
         /\ pc = "fold" => Folding

(* A packet of the stack is correct, a damaged one was a byte ago.         *)
Origin == /\ sender = "stack" => call = "fill" \/ Correct(buf)
          /\ sender = "damaged" => \E i \in DOMAIN buf, v \in Byte :
                                     v # buf[i] /\ Correct([buf EXCEPT ![i] = v])

Verdicts == /\ call \in {"compare", "done"} => (verified <=> Passes(buf))
            /\ call = "done" => (accepted <=> Correct(buf))

ChecksumInv == /\ buf \in Buffer /\ pc \in {"add", "fold"}
               /\ call \in {"fill", "transit", "verify", "compare", "done"}
               /\ sender \in {"stack", "damaged", "peer"}
               /\ (call \in {"fill", "transit"} => sender = "stack")
               /\ verified \in BOOLEAN /\ accepted \in BOOLEAN
               /\ Adder /\ Origin /\ Verdicts

LEMMA SummedShape ==
  ASSUME buf \in Buffer
  PROVE  Summed \in Buffer /\ Size(Summed) = Length /\ Length = Size(buf)
  BY ChecksumApart DEF Summed, Length, Size

(* A call begins with nothing summed.                                      *)
LEMMA CallStarts ==
  ASSUME buf' \in Buffer, NEW next, Calls(next)
  PROVE  Adder'
<1>1. pc' = "add" /\ pos' = 0 /\ sum' = 0
  BY DEF Calls
<1>2. Summed' \in Buffer
  BY ChecksumApart DEF Summed
<1>3. Meant' = 0
  BY <1>1, <1>2, BufferSums DEF Meant
<1>4. Length' \in Nat
  BY BufferShape DEF Length, Size
<1>5. 0 \in 0 .. MaxLen /\ 0 * Ones = 0
  BY ChecksumAssumption, Sizes
<1>6. Adding'
  BY <1>1, <1>3, <1>4, <1>5 DEF Adding
<1> QED BY <1>1, <1>6 DEF Adder

(* What is added fits.                                                     *)
LEMMA RoomLeft ==
  ASSUME NEW h \in Nat, 2 * h + 1 <= MaxLen, NEW s \in Nat, s <= h * Ones, NEW w \in 0 .. Ones
  PROVE  (s + w) % W32 = s + w /\ s + w <= (h + 1) * Ones /\ h + 1 \in 0 .. MaxLen
<1> DEFINE q == (MaxLen + 1) \div 2
<1>1. q \in Nat /\ h + 1 <= q /\ MaxLen \in Nat
  BY ChecksumAssumption
<1>2. q * Ones < W32
  BY ChecksumAssumption DEF Ones
<1> HIDE DEF q
<1>3. (h + 1) * Ones <= q * Ones
  BY <1>1, Sizes
<1>4. (h + 1) * Ones = h * Ones + Ones /\ h * Ones \in Nat /\ (h + 1) * Ones \in Nat /\ q * Ones \in Nat
  BY <1>1, Sizes
<1>5. s + w <= (h + 1) * Ones /\ s + w < W32 /\ s + w \in Nat
  BY <1>2, <1>3, <1>4, Sizes
<1>6. (s + w) % W32 = s + w
  <2> DEFINE x == s + w
  <2>1. x \in Nat /\ x < W32
    BY <1>5
  <2> HIDE DEF x
  <2>2. x % W32 = x
    BY <2>1, Sizes
  <2> QED BY <2>2 DEF x
<1> QED BY <1>1, <1>5, <1>6

LEMMA AddWordKeeps ==
  ASSUME ChecksumInv, AddWord
  PROVE  Adder'
<1> DEFINE b == Summed
           S == PartialSum(b)
<1>1. /\ pc = "add" /\ Left > 1 /\ pc' = pc /\ pos' = pos + 2 /\ buf' = buf /\ call' = call
      /\ sum' = (sum + Word(b, pos)) % W32
  BY DEF AddWord
<1>2. Summed' = Summed /\ Length' = Length
  BY <1>1 DEF Summed, Length
<1>3. b \in Buffer /\ Size(b) = Length /\ sum \in Nat /\ Length \in Nat /\ Length <= MaxLen
  BY SummedShape, BufferShape DEF ChecksumInv, Adder
<1>4. PICK h \in 0 .. MaxLen : pos = 2 * h /\ pos <= Length /\ sum = S[pos] /\ sum <= h * Ones
  BY <1>1 DEF ChecksumInv, Adder, Adding, Meant
<1>5. pos \in 0 .. Length - 1 /\ pos + 1 \in 0 .. Length - 1 /\ pos + 2 <= Length /\ h \in Nat
  BY <1>1, <1>3, <1>4 DEF Left
<1> HIDE DEF b
<1>6. b[pos] \in Byte /\ b[pos + 1] \in Byte
  BY <1>3, <1>5, BufferShape
<1>7. Weight(pos) = 1 /\ Weight(pos + 1) = W8
  BY <1>4, <1>5 DEF Weight
<1>8. Word(b, pos) \in 0 .. Ones
  <2>1. b[pos] \in Nat /\ b[pos + 1] \in Nat /\ b[pos] <= W8 - 1 /\ b[pos + 1] <= W8 - 1
    BY <1>6, ByteType
  <2>2. W8 * b[pos + 1] \in Nat /\ W8 * b[pos + 1] <= W8 * (W8 - 1)
    BY <2>1, Sizes
  <2> QED BY <2>1, <2>2, Sizes DEF Word
<1>9. S[pos + 2] = S[pos] + Word(b, pos)
  <2>1. S[pos + 1] = S[pos] + Weight(pos) * b[pos]
    BY <1>3, <1>5, BufferSums
  <2>2. S[(pos + 1) + 1] = S[pos + 1] + Weight(pos + 1) * b[pos + 1]
    BY <1>3, <1>5, BufferSums
  <2>3. (pos + 1) + 1 = pos + 2 /\ S[pos] \in Nat
    BY <1>3, <1>4, <1>5
  <2>4. b[pos] \in Nat /\ b[pos + 1] \in Nat /\ W8 * b[pos + 1] \in Nat
    BY <1>6, ByteType, Sizes
  <2> HIDE DEF S
  <2> QED BY <1>7, <2>1, <2>2, <2>3, <2>4 DEF Word
<1>10. sum' = sum + Word(b, pos) /\ sum' <= (h + 1) * Ones /\ h + 1 \in 0 .. MaxLen
  <2>1. 2 * h + 1 <= MaxLen /\ MaxLen \in Nat
    BY <1>3, <1>4, <1>5, ChecksumAssumption
  <2> DEFINE w == Word(b, pos)
  <2>2. w \in 0 .. Ones /\ sum' = (sum + w) % W32
    BY <1>1, <1>8
  <2> HIDE DEF w
  <2>3. (sum + w) % W32 = sum + w /\ sum + w <= (h + 1) * Ones /\ h + 1 \in 0 .. MaxLen
    BY <1>3, <1>4, <1>5, <2>1, <2>2, RoomLeft
  <2> QED BY <2>2, <2>3 DEF w
<1>11. pos' = 2 * (h + 1) /\ pos' <= Length' /\ sum' = Meant' /\ sum' \in Nat
  BY <1>1, <1>2, <1>3, <1>4, <1>5, <1>8, <1>9, <1>10 DEF Meant, b
<1> QED BY <1>1, <1>10, <1>11 DEF Adder, Adding

LEMMA AddByteKeeps ==
  ASSUME ChecksumInv, AddByte
  PROVE  Adder'
<1> DEFINE b == Summed
           S == PartialSum(b)
<1>1. /\ pc = "add" /\ Left <= 1 /\ pc' = "fold" /\ pos' = Length /\ buf' = buf /\ call' = call
      /\ sum' = IF Left = 1 THEN (sum + b[pos]) % W32 ELSE sum
  BY DEF AddByte
<1>2. Summed' = Summed /\ Length' = Length
  BY <1>1 DEF Summed, Length
<1>3. b \in Buffer /\ Size(b) = Length /\ sum \in Nat /\ Length \in Nat /\ Length <= MaxLen
  BY SummedShape, BufferShape DEF ChecksumInv, Adder
<1>4. PICK h \in 0 .. MaxLen : pos = 2 * h /\ pos <= Length /\ sum = S[pos] /\ sum <= h * Ones
  BY <1>1 DEF ChecksumInv, Adder, Adding, Meant
<1> HIDE DEF b
<1>5. sum' = S[Length] /\ sum' \in Nat
  <2>1. CASE Left = 1
    <3>1. pos \in 0 .. Length - 1 /\ pos + 1 = Length /\ h \in Nat
      BY <1>3, <1>4, <2>1 DEF Left
    <3>2. b[pos] \in Byte
      BY <1>3, <3>1, BufferShape
    <3>3. b[pos] \in 0 .. Ones /\ b[pos] \in Nat
      BY <3>2, ByteType, Sizes
    <3>4. Weight(pos) = 1
      BY <1>4, <3>1 DEF Weight
    <3>5. S[pos + 1] = S[pos] + Weight(pos) * b[pos]
      BY <1>3, <3>1, BufferSums
    <3>6. (sum + b[pos]) % W32 = sum + b[pos]
      BY <1>3, <1>4, <3>1, <3>3, RoomLeft
    <3> HIDE DEF S
    <3> QED BY <1>1, <1>3, <1>4, <2>1, <3>1, <3>3, <3>4, <3>5, <3>6
  <2>2. CASE Left # 1
    <3>1. pos = Length
      BY <1>1, <1>3, <1>4, <2>2 DEF Left
    <3> QED BY <1>1, <1>3, <1>4, <2>2, <3>1
  <2> QED BY <2>1, <2>2
<1>6. pos' = Length' /\ sum' = Meant'
  BY <1>1, <1>2, <1>5 DEF Meant, b
<1> QED BY <1>1, <1>5, <1>6 DEF Adder, Folding

LEMMA FoldKeeps ==
  ASSUME ChecksumInv, Fold
  PROVE  Adder'
<1> DEFINE q == sum \div W16
           r == sum % W16
<1>1. /\ pc = "fold" /\ sum >= W16 /\ pc' = pc /\ pos' = pos /\ buf' = buf /\ call' = call
      /\ sum' = r + q
  BY DEF Fold, Carries
<1>2. Summed' = Summed /\ Length' = Length /\ Meant' = Meant
  BY <1>1 DEF Summed, Length, Meant
<1>3. sum \in Nat /\ Folding
  BY <1>1 DEF ChecksumInv, Adder
<1>4. q \in Nat /\ r \in Nat /\ r < W16 /\ sum = W16 * q + r
  BY <1>3, Division, Sizes
<1> HIDE DEF q, r
<1>5. sum - sum' = q * Ones /\ sum' \in Nat
  BY <1>1, <1>4, Sizes
<1>6. q # 0
  BY <1>1, <1>4, Sizes
<1>7. sum % Ones = sum' % Ones
  <2>1. Ones \in Nat /\ Ones > 0 /\ q \in Int
    BY <1>4, Sizes
  <2> QED BY <1>3, <1>5, <2>1, SameRemainder
<1>8. sum # 0 /\ sum' # 0
  BY <1>1, <1>3, <1>4, <1>6, Sizes
<1> QED BY <1>1, <1>2, <1>3, <1>5, <1>7, <1>8 DEF Adder, Folding

(* A sum that is returned is the folded sum of the buffer.                 *)
LEMMA ReturnsReduced ==
  ASSUME ChecksumInv, Returns
  PROVE  sum \in 0 .. Ones /\ Reduced(sum, Total(Summed)) /\ Total(Summed) \in Nat
<1>1. pc = "fold" /\ sum < W16 /\ sum \in Nat /\ Folding
  BY Sizes DEF Returns, Carries, ChecksumInv, Adder
<1>2. Summed \in Buffer /\ Size(Summed) = Length
  BY SummedShape DEF ChecksumInv
<1>3. Meant = Total(Summed)
  BY <1>1, <1>2 DEF Folding, Meant, Total
<1>4. sum \in 0 .. Ones
  BY <1>1, Sizes
<1> QED BY <1>1, <1>2, <1>3, <1>4, TotalType DEF Folding, Reduced

LEMMA FillKeeps ==
  ASSUME ChecksumInv, Fill
  PROVE  ChecksumInv'
<1>1. /\ Returns /\ call = "fill" /\ buf' = Stored(buf, Ones - sum) /\ Calls("transit")
      /\ sender' = sender /\ verified' = verified /\ accepted' = accepted
  BY DEF Fill, Result, Ones
<1>2. sum \in 0 .. Ones /\ Reduced(sum, Total(Zeroed(buf)))
  BY <1>1, ReturnsReduced DEF Summed
<1>3. buf' \in Buffer /\ Correct(buf')
  BY <1>1, <1>2, FilledIn DEF ChecksumInv
<1>4. Adder'
  BY <1>1, <1>3, CallStarts
<1>5. sender = "stack" /\ call' = "transit" /\ pc' = "add"
  BY <1>1 DEF ChecksumInv, Calls
<1> QED BY <1>1, <1>3, <1>4, <1>5 DEF ChecksumInv, Origin, Verdicts

LEMMA TransitKeeps ==
  ASSUME ChecksumInv, Transit
  PROVE  ChecksumInv'
<1>1. /\ call = "transit" /\ Calls("verify") /\ verified' = verified /\ accepted' = accepted
      /\ buf \in Buffer /\ sender = "stack" /\ Correct(buf)
  BY DEF Transit, ChecksumInv, Origin
<1>2. call' = "verify" /\ pc' = "add"
  BY <1>1 DEF Calls
<1>3. CASE UNCHANGED <<buf, sender>>
  <2>1. Adder'
    BY <1>1, <1>3, CallStarts
  <2> QED BY <1>1, <1>2, <1>3, <2>1 DEF ChecksumInv, Origin, Verdicts
<1>4. ASSUME NEW i \in DOMAIN buf, NEW v \in Byte, v # buf[i], buf' = [buf EXCEPT ![i] = v],
             sender' = "damaged"
      PROVE  ChecksumInv'
  <2>1. buf' \in Buffer /\ DOMAIN buf' = DOMAIN buf /\ buf'[i] = v
    BY <1>1, <1>4, ChangedShape
  <2>2. buf[i] \in Byte /\ buf = [buf' EXCEPT ![i] = buf[i]]
    <3>1. buf \in [0 .. Size(buf) - 1 -> Byte]
      BY <1>1, BufferShape
    <3> QED BY <1>4, <3>1
  <2>3. Origin'
    BY <1>1, <1>4, <2>1, <2>2 DEF Origin
  <2>4. Adder'
    BY <1>1, <2>1, CallStarts
  <2> QED BY <1>1, <1>2, <1>4, <2>1, <2>3, <2>4 DEF ChecksumInv, Verdicts
<1> QED BY <1>3, <1>4 DEF Transit

LEMMA VerifyKeeps ==
  ASSUME ChecksumInv, Verify
  PROVE  ChecksumInv'
<1>1. /\ Returns /\ call = "verify" /\ Calls("compare") /\ buf' = buf /\ sender' = sender
      /\ accepted' = accepted /\ verified' = (Result = 0)
  BY DEF Verify
<1>2. sum \in 0 .. Ones /\ Reduced(sum, Total(buf)) /\ Total(buf) \in Nat
  BY <1>1, ReturnsReduced DEF Summed
<1>3. Result = 0 <=> Passes(buf)
  <2>1. Result = 0 <=> sum = Ones
    BY <1>2, Sizes DEF Result, Ones
  <2>2. sum = Ones <=> Reduced(Ones, Total(buf))
    BY <1>2, ReducedOnce
  <2> QED BY <2>1, <2>2 DEF Passes
<1>4. (verified' <=> Passes(buf)) /\ verified' \in BOOLEAN
  BY <1>1, <1>3, Zenon
<1>5. Adder'
  BY <1>1, CallStarts DEF ChecksumInv
<1>6. call' = "compare" /\ pc' = "add"
  BY <1>1 DEF Calls
<1> QED BY <1>1, <1>4, <1>5, <1>6 DEF ChecksumInv, Origin, Verdicts

LEMMA CompareKeeps ==
  ASSUME ChecksumInv, Compare
  PROVE  ChecksumInv'
<1>1. /\ Returns /\ call = "compare" /\ call' = "done" /\ UNCHANGED <<buf, sender, pc, pos, sum, verified>>
      /\ accepted' = (Result = Word(buf, Field))
  BY DEF Compare
<1>2. sum \in 0 .. Ones /\ Reduced(sum, Total(Zeroed(buf))) /\ Total(Zeroed(buf)) \in Nat
  BY <1>1, ReturnsReduced DEF Summed
<1>3. Result = Word(buf, Field) <=> Correct(buf)
  <2> DEFINE w == Word(buf, Field)
  <2>1. w \in 0 .. Ones
    BY ChecksumApart DEF ChecksumInv
  <2> HIDE DEF w
  <2>2. Result = w <=> sum = Ones - w
    BY <1>2, <2>1, Sizes DEF Result, Ones
  <2>3. sum = Ones - w <=> Reduced(Ones - w, Total(Zeroed(buf)))
    BY <1>2, ReducedOnce
  <2> QED BY <2>2, <2>3 DEF Correct, w
<1>4. (accepted' <=> Correct(buf)) /\ accepted' \in BOOLEAN
  BY <1>1, <1>3, Zenon
<1>5. Summed' = Summed /\ Length' = Length
  BY <1>1 DEF Summed, Length
<1>6. Adder'
  BY <1>1, <1>5 DEF ChecksumInv, Adder, Adding, Folding, Meant
<1> QED BY <1>1, <1>4, <1>6 DEF ChecksumInv, Origin, Verdicts

LEMMA SumKeeps ==
  ASSUME ChecksumInv, Sum
  PROVE  ChecksumInv'
<1>1. /\ call \in {"fill", "verify", "compare"} /\ UNCHANGED <<buf, sender, call, verified, accepted>>
      /\ pc' \in {"add", "fold"}
  BY DEF Sum, AddWord, AddByte, Fold, ChecksumInv
<1>2. Adder'
  BY AddWordKeeps, AddByteKeeps, FoldKeeps DEF Sum
<1> QED BY <1>1, <1>2 DEF ChecksumInv, Origin, Verdicts

LEMMA ChecksumKept == Spec => []ChecksumInv
<1>1. Init => ChecksumInv
  <2> SUFFICES ASSUME Init PROVE ChecksumInv
    OBVIOUS
  <2>1. buf \in Buffer
    BY DEF Init, Buffer
  <2>2. Meant = 0 /\ Length \in Nat
    BY <2>1, SummedShape, BufferSums, BufferShape DEF Init, Meant
  <2>3. 0 \in 0 .. MaxLen /\ 0 * Ones = 0
    BY ChecksumAssumption, Sizes
  <2>4. Adding
    BY <2>2, <2>3 DEF Init, Adding
  <2> QED BY <2>1, <2>4 DEF Init, ChecksumInv, Adder, Origin, Verdicts
<1>2. ChecksumInv /\ [Next]_vars => ChecksumInv'
  <2> SUFFICES ASSUME ChecksumInv, [Next]_vars PROVE ChecksumInv'
    OBVIOUS
  <2>1. CASE UNCHANGED vars
    <3>1. Summed' = Summed /\ Length' = Length
      BY <2>1 DEF vars, Summed, Length
    <3> QED BY <2>1, <3>1 DEF vars, ChecksumInv, Adder, Adding, Folding, Meant, Origin, Verdicts
  <2> QED BY <2>1, SumKeeps, FillKeeps, TransitKeeps, VerifyKeeps, CompareKeeps DEF Next
<1> QED BY <1>1, <1>2, PTL DEF Spec

(* checksum (network.c) never overflows its 32-bit accumulator: while it   *)
(* adds, the accumulator is the exact sum of the words read, an odd last   *)
(* byte padded, and every fold keeps it congruent modulo 2^16 - 1 and zero *)
(* only for an all-zero buffer, for every width of a byte and every buffer *)
(* that fits into the accumulator's range.                                 *)
THEOREM AccumulatorExact == Spec => []SumExact
<1>1. ChecksumInv => SumExact
  <2> SUFFICES ASSUME ChecksumInv
               PROVE  (pc = "add" => sum = Meant) /\ sum % Ones = Meant % Ones /\ (sum = 0 <=> Meant = 0)
    BY DEF SumExact, Ones
  <2> QED BY DEF ChecksumInv, Adder, Adding, Folding
<1> QED BY <1>1, ChecksumKept, PTL

(* Both tests accept what ip_checksum, icmp_checksum and tcp_checksum      *)
(* stored, and neither accepts it with one byte changed and as many bytes  *)
(* summed, for every content and length of a packet, odd ones and a zero   *)
(* sum included.                                                           *)
THEOREM VerdictsAreRight == Spec => []VerdictsRight
<1>1. ChecksumInv => VerdictsRight
  BY TestsCompared, DamageSeen DEF ChecksumInv, Origin, Verdicts, VerdictsRight, Tested
<1> QED BY <1>1, ChecksumKept, PTL

(* ip_validate and icmp_validate, which expect a zero sum, and             *)
(* tcp_dispatch, which compares, decide alike on every packet of any peer, *)
(* except for a checksum written as all ones.                              *)
THEOREM TestsAlwaysAgree == Spec => []TestsAgree
<1>1. ChecksumInv => TestsAgree
  <2> SUFFICES ASSUME ChecksumInv, call = "done", Word(buf, Field) # Ones
               PROVE  accepted = verified
    BY TestsCompared, Zenon DEF TestsAgree, Tested, Ones, ChecksumInv, Verdicts
  <2> QED BY TestsCompared, Zenon DEF ChecksumInv, Verdicts
<1> QED BY <1>1, ChecksumKept, PTL
=============================================================================
