--------------------------- MODULE BenchmarkProofs ---------------------------
(***************************************************************************)
(* What holds of Benchmark for words of any width, every byte, payloads of *)
(* every length and any number of latencies.                               *)
(***************************************************************************)
EXTENDS Benchmark, FiniteSetTheorems, NaturalsInduction, WellFoundedInduction, TLAPS

-----------------------------------------------------------------------------
(* Induction over the natural numbers, for a set of them.                  *)

LEMMA Induction ==
  ASSUME NEW S, 0 \in S, \A n \in Nat : n \in S => n + 1 \in S
  PROVE  \A n \in Nat : n \in S
<1> DEFINE T == Nat \ S
           R == OpToRel(<, Nat)
<1> SUFFICES ASSUME T # {} PROVE FALSE
  OBVIOUS
<1>1. PICK x \in T : \A y \in T : ~(<<y, x>> \in R)
  <2>1. IsWellFoundedOn(R, Nat)
    BY NatLessThanWellFounded
  <2>2. T \subseteq Nat
    OBVIOUS
  <2> HIDE DEF T, R
  <2> QED BY <2>1, <2>2, WFMin
<1>2. x # 0 /\ x \in Nat /\ x - 1 \in Nat
  OBVIOUS
<1>3. <<x - 1, x>> \in R
  BY <1>2 DEF OpToRel
<1>4. x - 1 \in S
  BY <1>1, <1>2, <1>3
<1>5. x - 1 + 1 \in S
  BY <1>2, <1>4
<1> QED BY <1>2, <1>5

-----------------------------------------------------------------------------
(* Words.                                                                  *)

LEMMA Sizes ==
  /\ TopBit \in Nat /\ TopBit > 0
  /\ Modulus \in Nat /\ Modulus > 0 /\ Modulus = 2 * TopBit
  /\ BufLen \in Nat /\ BufLen = MaxPayload + 7 /\ BufLen + 2 < Modulus
  /\ MinPayload \in Nat /\ MaxPayload \in Nat
  /\ {0, MagicStart, MagicEnd} \subseteq Words /\ MagicStart # MagicEnd
  /\ Bytes \subseteq Words
BY BenchmarkAssumption DEF Modulus, BufLen, SizeOf, MagicStart, MagicEnd, Words

LEMMA Division ==
  ASSUME NEW a \in Nat, NEW m \in Nat, m > 0, a < 2 * m
  PROVE  IF a < m THEN a % m = a /\ a \div m = 0 ELSE a % m = a - m /\ a \div m = 1
<1>1. CASE a < m
  BY <1>1
<1>2. CASE a >= m
  BY <1>2
<1> QED BY <1>1, <1>2

LEMMA Addition ==
  ASSUME NEW a \in Words, NEW b \in Words
  PROVE  /\ (a + b) % Modulus \in Words
         /\ (a + b) % Modulus = IF a + b < Modulus THEN a + b ELSE a + b - Modulus
<1>1. /\ a + b \in Nat /\ a \in Nat /\ b \in Nat /\ a < Modulus /\ b < Modulus
      /\ Modulus \in Nat /\ Modulus > 0
  BY Sizes DEF Words
<1>2. a + b < 2 * Modulus
  BY <1>1
<1>3. (a + b) % Modulus = IF a + b < Modulus THEN a + b ELSE a + b - Modulus
  BY <1>1, <1>2, Division
<1> QED BY <1>1, <1>3 DEF Words

LEMMA Rotation ==
  ASSUME NEW s \in Words
  PROVE  /\ RotateLeft(s) \in Words
         /\ RotateLeft(s) = IF s < TopBit THEN 2 * s ELSE 2 * s - Modulus + 1
<1>1. s \in Nat /\ 2 * s \in Nat /\ s < Modulus /\ Modulus \in Nat /\ Modulus > 0
      /\ TopBit \in Nat /\ Modulus = 2 * TopBit
  BY Sizes DEF Words
<1>2. IF 2 * s < Modulus
      THEN (2 * s) % Modulus = 2 * s /\ (2 * s) \div Modulus = 0
      ELSE (2 * s) % Modulus = 2 * s - Modulus /\ (2 * s) \div Modulus = 1
  <2> DEFINE d == 2 * s
  <2>1. d \in Nat /\ d < 2 * Modulus
    BY <1>1
  <2> HIDE DEF d
  <2>2. IF d < Modulus
        THEN d % Modulus = d /\ d \div Modulus = 0
        ELSE d % Modulus = d - Modulus /\ d \div Modulus = 1
    BY <1>1, <2>1, Division
  <2> QED BY <2>2 DEF d
<1>3. RotateLeft(s) = IF s < TopBit THEN 2 * s ELSE 2 * s - Modulus + 1
  BY <1>1, <1>2 DEF RotateLeft
<1> QED BY <1>1, <1>3 DEF Words

(* One step of the checksum: from the sum so far, with one byte more. *)
Step(sum, byte) == (RotateLeft(sum) + byte) % Modulus

LEMMA StepType ==
  ASSUME NEW s \in Words, NEW byte \in Words
  PROVE  Step(s, byte) \in Words
BY Rotation, Addition DEF Step

LEMMA SumsStayApart ==
  ASSUME NEW s \in Words, NEW t \in Words, NEW byte \in Words, s # t
  PROVE  Step(s, byte) # Step(t, byte)
<1>1. RotateLeft(s) \in Words /\ RotateLeft(t) \in Words /\ RotateLeft(s) # RotateLeft(t)
  <2>1. /\ s \in Nat /\ t \in Nat /\ s < Modulus /\ t < Modulus
        /\ TopBit \in Nat /\ Modulus = 2 * TopBit
    BY Sizes DEF Words
  <2>2. /\ RotateLeft(s) = IF s < TopBit THEN 2 * s ELSE 2 * s - Modulus + 1
        /\ RotateLeft(t) = IF t < TopBit THEN 2 * t ELSE 2 * t - Modulus + 1
        /\ RotateLeft(s) \in Words /\ RotateLeft(t) \in Words
    BY Rotation
  <2>3. (IF s < TopBit THEN 2 * s ELSE 2 * s - Modulus + 1)
          # (IF t < TopBit THEN 2 * t ELSE 2 * t - Modulus + 1)
    BY <2>1
  <2> QED BY <2>2, <2>3
<1>2. (RotateLeft(s) + byte) % Modulus # (RotateLeft(t) + byte) % Modulus
  <2> DEFINE a == RotateLeft(s)
             b == RotateLeft(t)
  <2>1. /\ (a + byte) % Modulus = IF a + byte < Modulus THEN a + byte ELSE a + byte - Modulus
        /\ (b + byte) % Modulus = IF b + byte < Modulus THEN b + byte ELSE b + byte - Modulus
    BY <1>1, Addition
  <2>2. a \in 0..(Modulus - 1) /\ b \in 0..(Modulus - 1) /\ byte \in 0..(Modulus - 1) /\ a # b
        /\ Modulus \in Nat
    BY <1>1, Sizes DEF Words
  <2> HIDE DEF a, b
  <2>3. (IF a + byte < Modulus THEN a + byte ELSE a + byte - Modulus)
          # (IF b + byte < Modulus THEN b + byte ELSE b + byte - Modulus)
    BY <2>2
  <2> QED BY <2>1, <2>3 DEF a, b
<1> QED BY <1>2 DEF Step

LEMMA ByteCounts ==
  ASSUME NEW s \in Words, NEW x \in Words, NEW y \in Words, x # y
  PROVE  Step(s, x) # Step(s, y)
<1> DEFINE a == RotateLeft(s)
<1>1. /\ (a + x) % Modulus = IF a + x < Modulus THEN a + x ELSE a + x - Modulus
      /\ (a + y) % Modulus = IF a + y < Modulus THEN a + y ELSE a + y - Modulus
  BY Rotation, Addition
<1>2. a \in 0..(Modulus - 1) /\ x \in 0..(Modulus - 1) /\ y \in 0..(Modulus - 1) /\ Modulus \in Nat
  BY Rotation, Sizes DEF Words
<1>3. Step(s, x) = (a + x) % Modulus /\ Step(s, y) = (a + y) % Modulus
  BY DEF Step
<1> HIDE DEF a
<1>4. (IF a + x < Modulus THEN a + x ELSE a + x - Modulus)
        # (IF a + y < Modulus THEN a + y ELSE a + y - Modulus)
  BY <1>2
<1> QED BY <1>1, <1>3, <1>4

-----------------------------------------------------------------------------
(* The checksum.                                                           *)

(* f holds the sums of the first 0, 1, ... n bytes of data. *)
Sums(f, n, data) ==
  /\ f \in [0..n -> Words]
  /\ f[0] = 0
  /\ \A i \in 1..n : f[i] = Step(f[i - 1], data[i])

LEMMA SumsExist ==
  ASSUME NEW n \in Nat, NEW data \in [1..n -> Words]
  PROVE  \E f : Sums(f, n, data)
<1> DEFINE S == {k \in Nat : k <= n => \E f : Sums(f, k, data)}
<1>1. 0 \in S
  <2>1. Sums([i \in 0..0 |-> 0], 0, data)
    BY Sizes DEF Sums
  <2> QED BY <2>1
<1>2. ASSUME NEW k \in Nat, k \in S PROVE k + 1 \in S
  <2> SUFFICES ASSUME k + 1 <= n PROVE \E f : Sums(f, k + 1, data)
    OBVIOUS
  <2>1. PICK f : Sums(f, k, data)
    BY <1>2
  <2> DEFINE g == [i \in 0..(k + 1) |-> IF i = k + 1 THEN Step(f[k], data[k + 1]) ELSE f[i]]
  <2>2. Step(f[k], data[k + 1]) \in Words
    <3>1. f[k] \in Words /\ data[k + 1] \in Words
      BY <2>1 DEF Sums
    <3> QED BY <3>1, StepType
  <2>3. g \in [0..(k + 1) -> Words]
    BY <2>1, <2>2 DEF Sums
  <2>4. g[0] = 0
    BY <2>1 DEF Sums
  <2>5. ASSUME NEW i \in 1..(k + 1) PROVE g[i] = Step(g[i - 1], data[i])
    <3>1. CASE i = k + 1
      BY <3>1
    <3>2. CASE i # k + 1
      <4>1. i \in 1..k /\ i - 1 \in 0..k
        BY <3>2
      <4>2. f[i] = Step(f[i - 1], data[i])
        BY <2>1, <4>1 DEF Sums
      <4>3. g[i] = f[i] /\ g[i - 1] = f[i - 1]
        BY <3>2, <4>1
      <4> QED BY <4>2, <4>3
    <3> QED BY <3>1, <3>2
  <2> HIDE DEF g
  <2> QED BY <2>3, <2>4, <2>5 DEF Sums
<1>3. n \in S
  <2> HIDE DEF S
  <2> QED BY <1>1, <1>2, Induction
<1> QED BY <1>3

LEMMA ChecksumIs ==
  ASSUME NEW n \in Nat, NEW data \in [1..n -> Words]
  PROVE  \E f : Sums(f, n, data) /\ CalculateChecksum(data) = f[n]
<1> DEFINE Rec(f) == f = [i \in 0..n |-> IF i = 0 THEN 0 ELSE Step(f[i - 1], data[i])]
<1>1. Len(data) = n
  OBVIOUS
<1>2. \E f : Rec(f)
  <2>1. PICK f : Sums(f, n, data)
    BY SumsExist
  <2>2. Rec(f)
    BY <2>1 DEF Sums
  <2> QED BY <2>2
<1>3. PICK f : Rec(f) /\ CalculateChecksum(data) = f[n]
  <2> DEFINE c == CHOOSE f : Rec(f)
  <2>1. CalculateChecksum(data) = c[n]
    BY <1>1 DEF CalculateChecksum, Step
  <2>2. Rec(c)
    BY <1>2
  <2> HIDE DEF c, Rec
  <2> QED BY <2>1, <2>2
<1>4. f[0] = 0 /\ \A i \in 1..n : f[i] = Step(f[i - 1], data[i])
  BY <1>3
<1>5. \A i \in 0..n : f[i] \in Words
  <2> DEFINE S == {k \in Nat : k <= n => f[k] \in Words}
  <2>1. 0 \in S
    BY <1>4, Sizes
  <2>2. ASSUME NEW k \in Nat, k \in S PROVE k + 1 \in S
    <3> SUFFICES ASSUME k + 1 <= n PROVE f[k + 1] \in Words
      OBVIOUS
    <3>1. f[k] \in Words /\ k + 1 \in 1..n /\ data[k + 1] \in Words
      BY <2>2
    <3>2. f[k + 1] = Step(f[k], data[k + 1])
      BY <1>4, <3>1
    <3> QED BY <3>1, <3>2, StepType
  <2>3. \A k \in Nat : k \in S
    <3> HIDE DEF S
    <3> QED BY <2>1, <2>2, Induction
  <2> QED BY <2>3
<1>6. f \in [0..n -> Words]
  BY <1>3, <1>5
<1> QED BY <1>3, <1>4, <1>6 DEF Sums

LEMMA ChecksumType ==
  ASSUME NEW n \in Nat, NEW data \in [1..n -> Words]
  PROVE  CalculateChecksum(data) \in Words
<1>1. PICK f : Sums(f, n, data) /\ CalculateChecksum(data) = f[n]
  BY ChecksumIs
<1> QED BY <1>1 DEF Sums

(***************************************************************************)
(* calculate_checksum tells any two rows of bytes apart that differ in one *)
(* byte, however long they are: what a rotation and an addition keep apart *)
(* stays apart.                                                            *)
(***************************************************************************)
THEOREM OneByteChangesChecksum ==
  ASSUME NEW n \in Nat, NEW data \in [1..n -> Words], NEW i \in 1..n,
         NEW byte \in Words, byte # data[i]
  PROVE  CalculateChecksum([data EXCEPT ![i] = byte]) # CalculateChecksum(data)
<1> DEFINE other == [data EXCEPT ![i] = byte]
<1>1. PICK f : Sums(f, n, data) /\ CalculateChecksum(data) = f[n]
  BY ChecksumIs
<1>2. PICK g : Sums(g, n, other) /\ CalculateChecksum(other) = g[n]
  <2>1. other \in [1..n -> Words]
    OBVIOUS
  <2> HIDE DEF other
  <2> QED BY <2>1, ChecksumIs
<1>3. other[i] = byte /\ \A j \in 1..n : j # i => other[j] = data[j]
  OBVIOUS
<1> HIDE DEF other
<1> DEFINE S == {k \in Nat : k <= n => IF k < i THEN g[k] = f[k] ELSE g[k] # f[k]}
<1>4. 0 \in S
  BY <1>1, <1>2 DEF Sums
<1>5. ASSUME NEW k \in Nat, k \in S PROVE k + 1 \in S
  <2> SUFFICES ASSUME k + 1 <= n
               PROVE  IF k + 1 < i THEN g[k + 1] = f[k + 1] ELSE g[k + 1] # f[k + 1]
    OBVIOUS
  <2>1. k + 1 \in 1..n /\ k \in 0..n
    OBVIOUS
  <2>2. f[k + 1] = Step(f[k], data[k + 1]) /\ g[k + 1] = Step(g[k], other[k + 1])
    <3>1. f[k + 1] = Step(f[(k + 1) - 1], data[k + 1]) /\ g[k + 1] = Step(g[(k + 1) - 1], other[k + 1])
      BY <1>1, <1>2, <2>1 DEF Sums
    <3>2. (k + 1) - 1 = k
      OBVIOUS
    <3> QED BY <3>1, <3>2
  <2>3. f[k] \in Words /\ g[k] \in Words /\ data[k + 1] \in Words
    BY <1>1, <1>2, <2>1 DEF Sums
  <2>4. CASE k + 1 < i
    <3>1. g[k] = f[k] /\ other[k + 1] = data[k + 1]
      BY <1>3, <1>5, <2>1, <2>4
    <3> QED BY <2>2, <2>4, <3>1
  <2>5. CASE k + 1 = i
    <3>1. g[k] = f[k] /\ other[k + 1] = byte
      BY <1>3, <1>5, <2>5
    <3>2. Step(f[k], byte) # Step(f[k], data[k + 1])
      BY <2>3, <2>5, ByteCounts
    <3> QED BY <2>2, <2>5, <3>1, <3>2
  <2>6. CASE k + 1 > i
    <3>1. g[k] # f[k] /\ other[k + 1] = data[k + 1]
      BY <1>3, <1>5, <2>1, <2>6
    <3>2. Step(g[k], data[k + 1]) # Step(f[k], data[k + 1])
      BY <2>3, <3>1, SumsStayApart
    <3> QED BY <2>2, <2>6, <3>1, <3>2
  <2> QED BY <2>4, <2>5, <2>6
<1>6. n \in S
  <2> HIDE DEF S
  <2> QED BY <1>4, <1>5, Induction
<1>7. g[n] # f[n]
  BY <1>6
<1> QED BY <1>1, <1>2, <1>7 DEF other

-----------------------------------------------------------------------------
(* Messages.                                                               *)

Buffers == [1..BufLen -> Words]

(* The lengths a message may have. *)
Lengths == (SizeOf + 1)..BufLen

LEMMA DataIs ==
  ASSUME NEW b \in Buffers, NEW n \in Lengths
  PROVE  /\ n - 7 \in Nat
         /\ Data(b, n) = [j \in 1..(n - 7) |-> b[j + 5]]
         /\ Data(b, n) \in [1..(n - 7) -> Words]
<1>1. n \in Nat /\ n >= 7 /\ n <= BufLen /\ BufLen \in Nat
  BY Sizes DEF Lengths, SizeOf
<1>2. Len(b) = BufLen /\ b \in Seq(Words)
  BY <1>1 DEF Buffers
<1>3. Data(b, n) = SubSeq(b, 6, n - 2)
  BY <1>1 DEF Data, DataAt, SizeOf
<1>4. SubSeq(b, 6, n - 2) = [j \in 1..(n - 7) |-> b[j + 5]]
  <2>1. SubSeq(b, 6, n - 2) = [j \in 1..(n - 2 - 6 + 1) |-> b[6 + j - 1]]
    BY <1>1, <1>2
  <2>2. n - 2 - 6 + 1 = n - 7 /\ \A j \in 1..(n - 7) : 6 + j - 1 = j + 5
    BY <1>1
  <2> QED BY <2>1, <2>2
<1>5. \A j \in 1..(n - 7) : b[j + 5] \in Words
  BY <1>1 DEF Buffers
<1>6. [j \in 1..(n - 7) |-> b[j + 5]] \in [1..(n - 7) -> Words]
  BY <1>5
<1>7. Data(b, n) = [j \in 1..(n - 7) |-> b[j + 5]]
  BY <1>3, <1>4
<1>8. n - 7 \in Nat
  BY <1>1
<1> QED BY <1>6, <1>7, <1>8

LEMMA ValidIs ==
  ASSUME NEW b, NEW n
  PROVE  ValidateMessage(b, n) <=>
           /\ b[1] = MagicStart
           /\ b[2] = n
           /\ b[n - 1] = MagicEnd
           /\ CalculateChecksum(Data(b, n)) = b[5]
BY DEF ValidateMessage, magic_start, size, checksum, EndMarker

(***************************************************************************)
(* validate_message sees any one cell that was damaged, but for the        *)
(* sequence number, the time and the cell after the end marker.            *)
(***************************************************************************)
THEOREM OneDamageIsSeen ==
  ASSUME NEW b \in Buffers, NEW n \in Lengths, ValidateMessage(b, n),
         NEW i \in 1..n, NEW v \in Words, v # b[i]
  PROVE  ValidateMessage([b EXCEPT ![i] = v], n) <=> i \in {seq, timestamp, n}
<1> DEFINE c == [b EXCEPT ![i] = v]
<1>1. n \in Nat /\ n >= 7 /\ n <= BufLen /\ BufLen \in Nat
  BY Sizes DEF Lengths, SizeOf
<1>2. /\ c \in Buffers
      /\ c[i] = v
      /\ \A j \in 1..BufLen : j # i => c[j] = b[j]
  BY <1>1 DEF Buffers
<1> HIDE DEF c
<1>3. /\ n - 7 \in Nat
      /\ Data(b, n) = [j \in 1..(n - 7) |-> b[j + 5]]
      /\ Data(b, n) \in [1..(n - 7) -> Words]
  BY DataIs
<1>4. Data(c, n) = [j \in 1..(n - 7) |-> c[j + 5]]
  BY <1>2, DataIs
<1>5. /\ b[1] = MagicStart
      /\ b[2] = n
      /\ b[n - 1] = MagicEnd
      /\ CalculateChecksum(Data(b, n)) = b[5]
  BY ValidIs
<1>6. {1, 2, 5, n - 1, n} \subseteq 1..BufLen
  BY <1>1
<1>7. i <= 5 \/ i >= n - 1 => CalculateChecksum(Data(c, n)) = b[5]
  <2> HAVE i <= 5 \/ i >= n - 1
  <2>1. \A j \in 1..(n - 7) : j + 5 \in 1..BufLen /\ j + 5 # i
    BY <1>1
  <2>2. \A j \in 1..(n - 7) : c[j + 5] = b[j + 5]
    BY <1>2, <2>1
  <2>3. Data(c, n) = Data(b, n)
    BY <1>3, <1>4, <2>2
  <2> QED BY <1>5, <2>3
<1>8. CASE i \in {1, 2, 5, n - 1}
  <2>1. i \notin {3, 4, n}
    BY <1>1, <1>8
  <2>2. ~ValidateMessage(c, n)
    <3>1. CASE i = 1
      BY <1>2, <1>5, <3>1, ValidIs
    <3>2. CASE i = 2
      BY <1>2, <1>5, <3>2, ValidIs
    <3>3. CASE i = 5
      BY <1>2, <1>5, <1>7, <3>3, ValidIs
    <3>4. CASE i = n - 1
      BY <1>2, <1>5, <3>4, ValidIs
    <3> QED BY <1>8, <3>1, <3>2, <3>3, <3>4
  <2> QED BY <2>1, <2>2 DEF c, seq, timestamp
<1>9. CASE i \in {3, 4, n}
  <2>1. i \notin {1, 2, 5, n - 1} /\ (i <= 5 \/ i >= n - 1)
    BY <1>1, <1>9
  <2>2. c[1] = b[1] /\ c[2] = b[2] /\ c[n - 1] = b[n - 1] /\ c[5] = b[5]
    BY <1>2, <1>6, <2>1
  <2>3. ValidateMessage(c, n)
    BY <1>5, <1>7, <2>1, <2>2, ValidIs
  <2> QED BY <1>9, <2>3 DEF c, seq, timestamp
<1>10. CASE i \in 6..(n - 2)
  <2> DEFINE d == Data(b, n)
             m == n - 7
             k == i - 5
  <2>1. i \in Nat /\ k \in 1..m /\ m \in Nat /\ i \notin {3, 4, 5, n} /\ k + 5 = i
    BY <1>1, <1>10
  <2>2. Data(c, n) = [d EXCEPT ![k] = v]
    <3>1. \A j \in 1..m : j + 5 \in 1..BufLen
      BY <1>1
    <3>2. \A j \in 1..m : c[j + 5] = IF j = k THEN v ELSE b[j + 5]
      BY <1>2, <2>1, <3>1
    <3>3. \A j \in 1..m : d[j] = b[j + 5]
      BY <1>3
    <3>4. [d EXCEPT ![k] = v] = [j \in 1..m |-> IF j = k THEN v ELSE b[j + 5]]
      <4>1. d \in [1..m -> Words]
        BY <1>3
      <4> HIDE DEF d, k, m
      <4> QED BY <3>3, <4>1
    <3> QED BY <1>4, <3>2, <3>4
  <2>3. d \in [1..m -> Words] /\ d[k] = b[i]
    <3>1. d = [j \in 1..m |-> b[j + 5]]
      BY <1>3
    <3> HIDE DEF d
    <3>2. d[k] = b[k + 5]
      BY <2>1, <3>1
    <3> QED BY <1>3, <2>1, <3>2 DEF d
  <2>4. CalculateChecksum([d EXCEPT ![k] = v]) # CalculateChecksum(d)
    <3> HIDE DEF d, k, m
    <3> QED BY <2>1, <2>3, OneByteChangesChecksum
  <2>5. c[5] = b[5]
    BY <1>2, <1>6, <2>1
  <2>6. ~ValidateMessage(c, n)
    BY <1>5, <2>2, <2>4, <2>5, ValidIs
  <2> QED BY <2>1, <2>6 DEF c, seq, timestamp
<1> QED
  <2>1. i \in {1, 2, 5, n - 1} \/ i \in {3, 4, n} \/ i \in 6..(n - 2)
    BY <1>1
  <2> QED BY <1>8, <1>9, <1>10, <2>1

LEMMA MessageIs ==
  ASSUME buffer \in Buffers, NEW n \in MinPayload..(MaxPayload - 1), NEW data \in [1..n -> Words]
  PROVE  LET r == RandomMessage(data)
         IN  /\ r \in Buffers
             /\ r[1] = MagicStart /\ r[2] = n + 7 /\ r[5] = CalculateChecksum(data)
             /\ \A j \in 1..n : r[j + 5] = data[j]
             /\ r[n + 6] = MagicEnd
<1> DEFINE e(i) == CASE i = 1 -> MagicStart
                     [] i = 2 -> n + 7
                     [] i = 3 -> (buffer[3] + 1) % Modulus
                     [] i = 4 -> 0
                     [] i = 5 -> CalculateChecksum(data)
                     [] i \in 6..(n + 5) -> data[i - 5]
                     [] i = n + 6 -> MagicEnd
                     [] OTHER -> buffer[i]
<1>1. n \in Nat /\ n + 7 <= BufLen /\ BufLen \in Nat /\ n + 7 \in Words /\ Len(data) = n
  BY Sizes DEF Words
<1>2. RandomMessage(data) = [i \in 1..BufLen |-> e(i)]
  <2>1. SizeOf + Len(data) + 1 = n + 7 /\ DataAt + 1 = 6 /\ DataAt + Len(data) = n + 5
        /\ n + 7 - 1 = n + 6
    BY <1>1 DEF SizeOf, DataAt
  <2> QED BY <2>1 DEF RandomMessage, magic_start, size, seq, timestamp, checksum, EndMarker, DataAt
<1>3. ASSUME NEW i \in 1..BufLen PROVE e(i) \in Words
  <2>1. CalculateChecksum(data) \in Words
    BY <1>1, ChecksumType
  <2>2. (buffer[3] + 1) % Modulus \in Words
    <3>1. buffer[3] \in Words /\ 1 \in Words
      BY <1>1, Sizes DEF Buffers, Words
    <3> QED BY <3>1, Addition
  <2>3. i \in 6..(n + 5) => data[i - 5] \in Words
    BY <1>1
  <2>4. buffer[i] \in Words
    BY DEF Buffers
  <2>5. MagicStart \in Words /\ MagicEnd \in Words /\ 0 \in Words
    BY Sizes
  <2> QED BY <1>1, <2>1, <2>2, <2>3, <2>4, <2>5
<1>4. RandomMessage(data) \in Buffers
  BY <1>2, <1>3 DEF Buffers
<1>5. e(1) = MagicStart /\ e(2) = n + 7 /\ e(5) = CalculateChecksum(data)
  BY <1>1
<1>6. \A j \in 1..n : e(j + 5) = data[j]
  <2> TAKE j \in 1..n
  <2>1. j + 5 \in 6..(n + 5) /\ j + 5 \notin {1, 2, 3, 4, 5} /\ (j + 5) - 5 = j
    BY <1>1
  <2> QED BY <2>1
<1>7. e(n + 6) = MagicEnd
  <2>1. n + 6 \notin {1, 2, 3, 4, 5} /\ ~(n + 6 \in 6..(n + 5))
    BY <1>1
  <2> QED BY <2>1
<1>8. {1, 2, 5, n + 6} \subseteq 1..BufLen /\ \A j \in 1..n : j + 5 \in 1..BufLen
  BY <1>1
<1> HIDE DEF e
<1> QED BY <1>2, <1>4, <1>5, <1>6, <1>7, <1>8

(***************************************************************************)
(* What random_message composes validates, whatever the buffer held before *)
(* and whatever the bytes are.                                             *)
(***************************************************************************)
THEOREM ComposedIsValid ==
  ASSUME buffer \in Buffers, NEW n \in MinPayload..(MaxPayload - 1), NEW data \in [1..n -> Words]
  PROVE  LET r == RandomMessage(data)
         IN  r \in Buffers /\ r[size] \in Lengths /\ ValidateMessage(r, r[size])
<1> DEFINE r == RandomMessage(data)
<1>1. /\ r \in Buffers
      /\ r[1] = MagicStart /\ r[2] = n + 7 /\ r[5] = CalculateChecksum(data)
      /\ \A j \in 1..n : r[j + 5] = data[j]
      /\ r[n + 6] = MagicEnd
  BY MessageIs
<1> HIDE DEF r
<1>2. n \in Nat /\ n + 7 \in Lengths /\ (n + 7) - 1 = n + 6 /\ (n + 7) - 7 = n
  BY Sizes DEF Lengths, SizeOf
<1>3. Data(r, n + 7) = data
  <2>1. Data(r, n + 7) = [j \in 1..n |-> r[j + 5]]
    BY <1>1, <1>2, DataIs
  <2> QED BY <1>1, <2>1
<1>4. ValidateMessage(r, n + 7)
  BY <1>1, <1>2, <1>3, ValidIs
<1> QED BY <1>1, <1>2, <1>4 DEF r, size

-----------------------------------------------------------------------------
(* The order of the latencies.                                             *)

LEMMA Smallest ==
  ASSUME NEW T, T \subseteq Nat, T # {}
  PROVE  \E x \in T : \A y \in T : x <= y
<1> SUFFICES ASSUME \A x \in T : \E y \in T : y < x PROVE FALSE
  OBVIOUS
<1> DEFINE S == {n \in Nat : \A k \in 0..n : k \notin T}
<1>1. 0 \in S
  OBVIOUS
<1>2. ASSUME NEW n \in Nat, n \in S PROVE n + 1 \in S
  <2>1. n + 1 \notin T
    <3> SUFFICES ASSUME n + 1 \in T PROVE FALSE
      OBVIOUS
    <3>1. PICK y \in T : y < n + 1
      OBVIOUS
    <3>2. y \in 0..n
      BY <3>1
    <3> QED BY <1>2, <3>2
  <2> QED BY <1>2, <2>1
<1>3. \A n \in Nat : n \in S
  <2> HIDE DEF S
  <2> QED BY <1>1, <1>2, Induction
<1>4. PICK x : x \in T
  OBVIOUS
<1>5. x \in Nat /\ x \in 0..x
  BY <1>4
<1> QED BY <1>3, <1>4, <1>5

(* A row of numbers is bounded. *)
LEMMA Bounded ==
  ASSUME NEW n \in Nat, NEW s \in [1..n -> Nat]
  PROVE  \E b \in Nat : \A j \in 1..n : s[j] <= b
<1> DEFINE S == {k \in Nat : k <= n => \E b \in Nat : \A j \in 1..k : s[j] <= b}
<1>1. 0 \in S
  OBVIOUS
<1>2. ASSUME NEW k \in Nat, k \in S PROVE k + 1 \in S
  <2> SUFFICES ASSUME k + 1 <= n PROVE \E b \in Nat : \A j \in 1..(k + 1) : s[j] <= b
    OBVIOUS
  <2>1. PICK b \in Nat : \A j \in 1..k : s[j] <= b
    BY <1>2
  <2>2. s[k + 1] \in Nat
    OBVIOUS
  <2>3. CASE s[k + 1] <= b
    BY <2>1, <2>3
  <2>4. CASE s[k + 1] > b
    <3>1. \A j \in 1..(k + 1) : s[j] <= s[k + 1]
      BY <2>1, <2>4
    <3> QED BY <2>2, <3>1
  <2> QED BY <2>2, <2>3, <2>4
<1>3. n \in S
  <2> HIDE DEF S
  <2> QED BY <1>1, <1>2, Induction
<1> QED BY <1>3

LEMMA Counts ==
  ASSUME NEW n \in Nat, NEW T \in SUBSET (1..n)
  PROVE  /\ IsFiniteSet(T) /\ Cardinality(T) \in Nat /\ Cardinality(T) <= n
         /\ \A U \in SUBSET T : Cardinality(U) <= Cardinality(T)
<1>1. IsFiniteSet(1..n) /\ Cardinality(1..n) = n
  BY FS_Interval
<1>2. IsFiniteSet(T) /\ Cardinality(T) <= n
  BY <1>1, FS_Subset
<1>3. Cardinality(T) \in Nat
  BY <1>2, FS_CardinalityType
<1>4. \A U \in SUBSET T : Cardinality(U) <= Cardinality(T)
  BY <1>2, FS_Subset
<1> QED BY <1>2, <1>3, <1>4

(* The two counts of the definition of Sorted. *)
LEMMA CountsType ==
  ASSUME NEW n \in Nat, NEW s \in [1..n -> Nat]
  PROVE  /\ \A v \in Nat : Below(s, v) \in Nat /\ UpTo(s, v) \in 0..n
         /\ \A v, w \in Nat : v < w => UpTo(s, v) <= Below(s, w)
<1>1. Len(s) = n
  OBVIOUS
<1>2. ASSUME NEW v \in Nat PROVE Below(s, v) \in Nat /\ UpTo(s, v) \in 0..n
  <2>1. {j \in 1..n : s[j] < v} \in SUBSET (1..n) /\ {j \in 1..n : s[j] <= v} \in SUBSET (1..n)
    OBVIOUS
  <2> QED BY <1>1, <2>1, Counts DEF Below, UpTo
<1>3. ASSUME NEW v \in Nat, NEW w \in Nat, v < w PROVE UpTo(s, v) <= Below(s, w)
  <2> DEFINE T == {j \in 1..n : s[j] < w}
             U == {j \in 1..n : s[j] <= v}
  <2>1. \A j \in 1..n : s[j] \in Nat
    OBVIOUS
  <2>2. T \in SUBSET (1..n) /\ U \in SUBSET T
    BY <1>3, <2>1
  <2>3. UpTo(s, v) = Cardinality(U) /\ Below(s, w) = Cardinality(T)
    BY <1>1 DEF UpTo, Below
  <2> HIDE DEF T, U
  <2> QED BY <2>2, <2>3, Counts
<1> QED BY <1>2, <1>3

LEMMA SortedIs ==
  ASSUME NEW n \in Nat, NEW s \in [1..n -> Nat], NEW i \in 1..n
  PROVE  /\ Sorted(s)[i] \in Range(s) /\ Sorted(s)[i] \in Nat
         /\ Below(s, Sorted(s)[i]) < i /\ i <= UpTo(s, Sorted(s)[i])
<1> DEFINE P(v) == v \in Range(s) /\ Below(s, v) < i /\ i <= UpTo(s, v)
<1>1. Len(s) = n /\ Range(s) \subseteq Nat
  BY DEF Range
<1>2. \E v : P(v)
  <2> DEFINE T == {v \in Nat : i <= UpTo(s, v)}
  <2>1. T # {}
    <3>1. PICK b \in Nat : \A j \in 1..n : s[j] <= b
      BY Bounded
    <3>2. {j \in 1..n : s[j] <= b} = 1..n
      BY <3>1
    <3>3. Cardinality(1..n) = n
      BY FS_Interval
    <3>4. UpTo(s, b) = Cardinality({j \in 1..n : s[j] <= b})
      BY <1>1 DEF UpTo
    <3>5. UpTo(s, b) = n
      BY <3>2, <3>3, <3>4
    <3> QED BY <3>5
  <2>2. PICK v \in T : \A w \in T : v <= w
    <3> HIDE DEF T
    <3>1. T \subseteq Nat
      BY DEF T
    <3> QED BY <2>1, <3>1, Smallest
  <2>3. v \in Nat /\ i <= UpTo(s, v)
    OBVIOUS
  <2>4. Below(s, v) < i
    <3>1. CASE v = 0
      <4>1. \A j \in 1..n : s[j] \in Nat
        OBVIOUS
      <4>2. {j \in 1..n : s[j] < v} = {}
        BY <3>1, <4>1
      <4>3. Below(s, v) = Cardinality({j \in 1..n : s[j] < v})
        BY <1>1 DEF Below
      <4>4. Below(s, v) = 0
        BY <4>2, <4>3, FS_EmptySet
      <4> QED BY <4>4
    <3>2. CASE v # 0
      <4>1. v - 1 \in Nat /\ ~(v <= v - 1)
        BY <2>3, <3>2
      <4>2. UpTo(s, v - 1) < i
        <5>1. v - 1 \notin T
          BY <2>2, <4>1
        <5>2. UpTo(s, v - 1) \in Nat
          BY <4>1, CountsType
        <5> QED BY <4>1, <5>1, <5>2
      <4>3. \A j \in 1..n : s[j] < v <=> s[j] <= v - 1
        <5>1. \A j \in 1..n : s[j] \in Nat
          OBVIOUS
        <5> QED BY <2>3, <5>1
      <4>4. {j \in 1..n : s[j] < v} = {j \in 1..n : s[j] <= v - 1}
        BY <4>3
      <4>5. Below(s, v) = UpTo(s, v - 1)
        BY <1>1, <4>4 DEF Below, UpTo
      <4> QED BY <4>2, <4>5
    <3> QED BY <3>1, <3>2
  <2>5. v \in Range(s)
    <3> SUFFICES ASSUME v \notin Range(s) PROVE FALSE
      OBVIOUS
    <3>1. \A j \in 1..n : s[j] \in Nat /\ s[j] # v
      BY <1>1 DEF Range
    <3>2. \A j \in 1..n : s[j] < v <=> s[j] <= v
      BY <2>3, <3>1
    <3>3. {j \in 1..n : s[j] < v} = {j \in 1..n : s[j] <= v}
      BY <3>2
    <3>4. Below(s, v) = UpTo(s, v)
      BY <1>1, <3>3 DEF Below, UpTo
    <3>5. Below(s, v) \in Nat
      BY <2>3, CountsType
    <3> QED BY <2>3, <2>4, <3>4, <3>5
  <2> HIDE DEF T
  <2> QED BY <2>3, <2>4, <2>5
<1>3. Sorted(s)[i] = CHOOSE v : P(v)
  BY <1>1 DEF Sorted
<1>4. P(Sorted(s)[i])
  <2> HIDE DEF P
  <2> QED BY <1>2, <1>3
<1> QED BY <1>1, <1>4

LEMMA SortedType ==
  ASSUME NEW n \in Nat, NEW s \in [1..n -> Nat]
  PROVE  Sorted(s) \in [1..n -> Range(s)] /\ Sorted(s) \in [1..n -> Nat]
<1>1. Sorted(s) = [i \in 1..n |-> Sorted(s)[i]]
  BY DEF Sorted
<1>2. \A i \in 1..n : Sorted(s)[i] \in Range(s) /\ Sorted(s)[i] \in Nat
  BY SortedIs
<1> HIDE DEF Sorted
<1> QED BY <1>1, <1>2

(***************************************************************************)
(* qsort leaves the latencies in order ...                                 *)
(***************************************************************************)
THEOREM SortedInOrder ==
  ASSUME NEW n \in Nat, NEW s \in [1..n -> Nat], NEW i \in 1..n, NEW k \in 1..n, i <= k
  PROVE  Sorted(s)[i] <= Sorted(s)[k]
<1> DEFINE v == Sorted(s)[i]
           w == Sorted(s)[k]
<1>1. v \in Nat /\ w \in Nat /\ Below(s, v) < i /\ k <= UpTo(s, w)
  BY SortedIs
<1> HIDE DEF v, w
<1>2. Below(s, v) \in Nat /\ UpTo(s, w) \in Nat
  BY <1>1, CountsType
<1>3. w < v => UpTo(s, w) <= Below(s, v)
  BY <1>1, CountsType
<1>4. v <= w
  BY <1>1, <1>2, <1>3
<1> QED BY <1>4 DEF v, w

(***************************************************************************)
(* ... and loses none of them: each is there as often as before.           *)
(***************************************************************************)
THEOREM SortedKeepsAll ==
  ASSUME NEW n \in Nat, NEW s \in [1..n -> Nat], NEW v \in Nat
  PROVE  Cardinality({i \in 1..n : Sorted(s)[i] = v}) = Cardinality({j \in 1..n : s[j] = v})
<1> DEFINE E == {j \in 1..n : s[j] = v}
           L == {j \in 1..n : s[j] < v}
           a == Below(s, v)
           b == UpTo(s, v)
<1>1. a \in Nat /\ b \in 0..n
  BY CountsType
<1>2. {i \in 1..n : Sorted(s)[i] = v} = (a + 1)..b
  <2> SUFFICES ASSUME NEW i \in 1..n PROVE Sorted(s)[i] = v <=> a < i /\ i <= b
    BY <1>1
  <2> DEFINE w == Sorted(s)[i]
  <2>1. w \in Nat /\ Below(s, w) < i /\ i <= UpTo(s, w)
    BY SortedIs
  <2> HIDE DEF a, b, w
  <2>2. Below(s, w) \in Nat /\ UpTo(s, w) \in Nat
    BY <2>1, CountsType
  <2>3. (w < v => UpTo(s, w) <= Below(s, v)) /\ (v < w => UpTo(s, v) <= Below(s, w))
    BY <2>1, CountsType
  <2>4. w = v => a < i /\ i <= b
    BY <2>1 DEF a, b
  <2>5. a < i /\ i <= b => w = v
    <3>1. (w < v => UpTo(s, w) <= a) /\ (v < w => b <= Below(s, w))
      BY <2>3 DEF a, b
    <3> QED BY <1>1, <2>1, <2>2, <3>1
  <2> QED BY <2>4, <2>5 DEF w
<1>3. IsFiniteSet(E) /\ IsFiniteSet(L) /\ Cardinality(E) \in Nat /\ Cardinality(L) = a
  <2>1. E \in SUBSET (1..n) /\ L \in SUBSET (1..n) /\ Len(s) = n
    OBVIOUS
  <2>2. Cardinality(L) = a
    BY <2>1 DEF Below
  <2> HIDE DEF E, L
  <2> QED BY <2>1, <2>2, Counts
<1>4. b = a + Cardinality(E)
  <2>1. \A j \in 1..n : s[j] \in Nat
    OBVIOUS
  <2>2. L \union E = {j \in 1..n : s[j] <= v} /\ L \intersect E = {}
    BY <2>1
  <2>3. b = Cardinality(L \union E)
    <3>1. Len(s) = n
      OBVIOUS
    <3> QED BY <2>2, <3>1 DEF UpTo
  <2> HIDE DEF E, L
  <2>4. Cardinality(L \union E) = Cardinality(L) + Cardinality(E) - Cardinality({})
    BY <1>3, <2>2, FS_Union
  <2> QED BY <1>1, <1>3, <2>3, <2>4, FS_EmptySet
<1>5. Cardinality((a + 1)..b) = Cardinality(E)
  <2> HIDE DEF a, b, E
  <2>1. Cardinality((a + 1)..b) = IF a + 1 > b THEN 0 ELSE b - (a + 1) + 1
    BY <1>1, FS_Interval
  <2> QED BY <1>1, <1>3, <1>4, <2>1
<1> QED BY <1>2, <1>5

LEMMA IndexIs ==
  ASSUME NEW n \in Nat, n > 0, NEW p \in Percentiles
  PROVE  /\ PercentileIndex(n, p) \in Nat /\ PercentileIndex(n, p) < n
         /\ 100 * PercentileIndex(n, p) <= p * n /\ p * n < 100 * (PercentileIndex(n, p) + 1)
<1> USE DEF PercentileIndex
<1>1. CASE p = 50
  BY <1>1
<1>2. CASE p = 95
  BY <1>2
<1>3. CASE p = 99
  BY <1>3
<1> QED BY <1>1, <1>2, <1>3 DEF Percentiles

InOrder(l, n) == \A i, k \in 1..n : i <= k => l[i] <= l[k]

(* v is a p-th percentile of the first n of l. *)
IsPercentile(v, p, l, n) ==
  /\ 100 * Cardinality({i \in 1..n : l[i] <= v}) > p * n
  /\ 100 * Cardinality({i \in 1..n : l[i] >= v}) >= (100 - p) * n

(***************************************************************************)
(* In any row of numbers in order, what stands at the index that           *)
(* calculate_stats takes is a percentile, and the index is inside the row. *)
(***************************************************************************)
THEOREM PercentileOfOrdered ==
  ASSUME NEW n \in Nat, n > 0, NEW l \in [1..n -> Nat], InOrder(l, n),
         NEW p \in Percentiles, NEW q, q = PercentileIndex(n, p) + 1
  PROVE  q \in 1..n /\ IsPercentile(l[q], p, l, n)
<1> DEFINE A == {i \in 1..n : l[i] <= l[q]}
           B == {i \in 1..n : l[i] >= l[q]}
<1>1. q \in 1..n /\ 100 * (q - 1) <= p * n /\ p * n < 100 * q
  <2> DEFINE x == PercentileIndex(n, p)
  <2>1. x \in Nat /\ x < n /\ 100 * x <= p * n /\ p * n < 100 * (x + 1)
    BY IndexIs
  <2>2. p * n \in Nat
    BY DEF Percentiles
  <2>3. q = x + 1
    OBVIOUS
  <2> HIDE DEF x
  <2> QED BY <2>1, <2>2, <2>3
<1>2. 1..q \in SUBSET A /\ q..n \in SUBSET B /\ A \in SUBSET (1..n) /\ B \in SUBSET (1..n)
  <2>1. \A i \in 1..q : i \in 1..n /\ l[i] <= l[q]
    BY <1>1 DEF InOrder
  <2>2. \A i \in q..n : i \in 1..n /\ l[q] <= l[i]
    BY <1>1 DEF InOrder
  <2>3. \A i \in q..n : l[i] >= l[q]
    <3>1. \A i \in 1..n : l[i] \in Nat
      OBVIOUS
    <3> QED BY <1>1, <2>2, <3>1
  <2> QED BY <2>1, <2>2, <2>3
<1> HIDE DEF A, B
<1>3. Cardinality(1..q) = q /\ Cardinality(q..n) = n - q + 1
  <2>1. Cardinality(1..q) = IF 1 > q THEN 0 ELSE q - 1 + 1
    BY <1>1, FS_Interval
  <2>2. Cardinality(q..n) = IF q > n THEN 0 ELSE n - q + 1
    BY <1>1, FS_Interval
  <2>3. q \in Nat /\ 1 <= q /\ q <= n
    BY <1>1
  <2> QED BY <2>1, <2>2, <2>3
<1>4. /\ Cardinality(A) \in Nat /\ q <= Cardinality(A)
      /\ Cardinality(B) \in Nat /\ n - q + 1 <= Cardinality(B)
  BY <1>2, <1>3, Counts
<1>5. 100 * Cardinality(A) > p * n
  <2> DEFINE c == Cardinality(A)
             x == p * n
  <2>1. x \in Nat /\ x < 100 * q
    BY <1>1 DEF Percentiles
  <2>2. c \in Nat /\ q <= c /\ q \in Nat
    BY <1>1, <1>4
  <2> HIDE DEF c, x
  <2>3. 100 * c > x
    BY <2>1, <2>2
  <2> QED BY <2>3 DEF c, x
<1>6. 100 * Cardinality(B) >= (100 - p) * n
  <2> DEFINE c == Cardinality(B)
             x == p * n
  <2>1. x \in Nat /\ (100 - p) * n = 100 * n - x
    BY DEF Percentiles
  <2>2. 100 * (q - 1) <= x
    BY <1>1
  <2>3. c \in Nat /\ n - q + 1 <= c /\ q \in Nat
    BY <1>1, <1>4
  <2> HIDE DEF c, x
  <2>4. 100 * c >= 100 * n - x
    BY <2>1, <2>2, <2>3
  <2> QED BY <2>1, <2>4 DEF c
<1> QED BY <1>1, <1>5, <1>6 DEF A, B, IsPercentile

-----------------------------------------------------------------------------
(* The loop of a client.                                                   *)

(* What is handed to the transport. *)
Handed ==
  pc = "composed" =>
    /\ damage = Nothing
    /\ buffer[size] \in Lengths
    /\ ValidateMessage(buffer, buffer[size])

(* The verdict on what comes back is settled before it is given. *)
Verdict ==
  pc = "delivered" =>
    (ValidateMessage(buffer, total) <=> damage \in Unchecked \union {Nothing})

StatsAtTheEnd == pc # "done" => stats = <<>>

(* A call that was begun may be counted. *)
CallsBounded == pc \in {"composed", "delivered", "judged"} => batches < MaxBatches

Inductive ==
  /\ TypeOK /\ CallsBounded
  /\ Handed /\ Verdict /\ DamageIsSeen
  /\ StatsAtTheEnd /\ PercentilesAreRight

LEMMA MinIs ==
  ASSUME NEW a \in Nat, NEW b \in Nat
  PROVE  Min({a, b}) = IF a <= b THEN a ELSE b
BY DEF Min

LEMMA NoStats ==
  ASSUME stats = <<>>
  PROVE  PercentilesAreRight
<1>1. DOMAIN stats = {}
  OBVIOUS
<1> QED BY <1>1 DEF PercentilesAreRight

LEMMA InitInductive == Init => Inductive
<1> SUFFICES ASSUME Init PROVE Inductive
  OBVIOUS
<1>1. TypeOK
  <2>1. 0 \in Nat /\ MaxLatencies \in Nat /\ MaxBatches \in Nat
    BY BenchmarkAssumption
  <2>2. Min({0, MaxLatencies}) = 0
    BY <2>1, MinIs
  <2>3. buffer \in [1..BufLen -> Words] /\ 0 \in 0..BufLen /\ 0 \in 0..MaxBatches
    BY <2>1, Sizes DEF Init
  <2>4. /\ latencies \in Seq(Latencies) /\ Len(latencies) = 0
        /\ DOMAIN stats \subseteq Percentiles
    BY DEF Init
  <2> QED BY <2>2, <2>3, <2>4 DEF Init, TypeOK, Nothing
<1>2. PercentilesAreRight
  BY NoStats DEF Init
<1> QED BY <1>1, <1>2 DEF Init, Inductive, CallsBounded, Handed, Verdict, DamageIsSeen, StatsAtTheEnd

LEMMA NoteIs ==
  ASSUME TypeOK, NEW l \in Latencies, NEW k \in Batches
  PROVE  /\ Note(l, k) \in Seq(Latencies)
         /\ Len(Note(l, k)) = Min({ops + k, MaxLatencies})
<1> DEFINE m == Min({k, MaxLatencies - Len(latencies)})
           more == [i \in 1..m |-> l]
<1>1. k \in Nat /\ ops \in Nat /\ MaxLatencies \in Nat
  BY BenchmarkAssumption DEF TypeOK
<1>2. /\ latencies \in Seq(Latencies) /\ Len(latencies) \in Nat
      /\ Len(latencies) = IF ops <= MaxLatencies THEN ops ELSE MaxLatencies
  BY <1>1, MinIs DEF TypeOK
<1>3. m \in Nat /\ Len(latencies) + m = IF ops + k <= MaxLatencies THEN ops + k ELSE MaxLatencies
  <2>1. MaxLatencies - Len(latencies) \in Nat
    BY <1>1, <1>2
  <2>2. m = IF k <= MaxLatencies - Len(latencies) THEN k ELSE MaxLatencies - Len(latencies)
    BY <1>1, <2>1, MinIs
  <2> HIDE DEF m
  <2> QED BY <1>1, <1>2, <2>1, <2>2
<1>4. Min({ops + k, MaxLatencies}) = IF ops + k <= MaxLatencies THEN ops + k ELSE MaxLatencies
  BY <1>1, MinIs
<1> HIDE DEF m
<1>5. more \in Seq(Latencies) /\ Len(more) = m
  BY <1>3
<1> HIDE DEF more
<1>6. latencies \o more \in Seq(Latencies) /\ Len(latencies \o more) = Len(latencies) + m
  BY <1>2, <1>3, <1>5
<1>7. Note(l, k) = latencies \o more
  BY DEF Note, m, more
<1> QED BY <1>3, <1>4, <1>6, <1>7

(* The steps up to the verdict, and on to the next message. *)
LEMMA ComposeStep ==
  ASSUME Inductive, Compose
  PROVE  TypeOK' /\ Handed'
<1>0. PICK n \in MinPayload..(MaxPayload - 1) :
        \E data \in [1..n -> Bytes] : buffer' = RandomMessage(data)
  BY DEF Compose
<1>1. PICK data \in [1..n -> Bytes] : buffer' = RandomMessage(data)
  BY <1>0
<1>2. data \in [1..n -> Words]
  BY Sizes
<1>3. buffer \in Buffers
  BY DEF Inductive, TypeOK, Buffers
<1>4. buffer' \in Buffers /\ buffer'[size] \in Lengths /\ ValidateMessage(buffer', buffer'[size])
  BY <1>1, <1>2, <1>3, ComposedIsValid
<1>5. TypeOK'
  BY <1>4 DEF Inductive, TypeOK, Compose, Goto, Buffers
<1>6. damage' = Nothing
  BY DEF Compose
<1>7. Handed'
  BY <1>4, <1>6 DEF Handed
<1> QED BY <1>5, <1>7

(* The length that Deliver reports, or the one that DeliverDamaged keeps. *)
LEMMA LengthsFit ==
  ASSUME Inductive, pc = "composed"
  PROVE  /\ buffer \in Buffers /\ damage = Nothing
         /\ buffer[size] \in Lengths /\ ValidateMessage(buffer, buffer[size])
         /\ Lengths \subseteq 0..BufLen /\ Lengths \subseteq Nat
<1>1. Lengths \subseteq 0..BufLen /\ Lengths \subseteq Nat
  BY Sizes DEF Lengths, SizeOf
<1> QED BY <1>1 DEF Inductive, TypeOK, Handed, Buffers

LEMMA DeliverStep ==
  ASSUME Inductive, Deliver
  PROVE  TypeOK' /\ Verdict'
<1>1. pc = "composed"
  BY DEF Deliver, Goto
<1>2. /\ buffer[size] \in 0..BufLen /\ ValidateMessage(buffer, buffer[size]) /\ damage = Nothing
  BY <1>1, LengthsFit
<1>3. TypeOK'
  BY <1>2 DEF Inductive, TypeOK, Deliver, Goto
<1>4. total' = buffer[size] /\ buffer' = buffer /\ damage' = Nothing
  BY <1>2 DEF Deliver
<1>5. ValidateMessage(buffer', total')
  BY <1>2, <1>4
<1>6. Verdict'
  BY <1>4, <1>5 DEF Verdict
<1> QED BY <1>3, <1>6

LEMMA DeliverDamagedStep ==
  ASSUME Inductive, DeliverDamaged
  PROVE  TypeOK' /\ Verdict'
<1> DEFINE n == buffer[size]
<1>1. pc = "composed"
  BY DEF DeliverDamaged, Goto
<1>2. /\ buffer \in Buffers /\ damage = Nothing
      /\ n \in Lengths /\ ValidateMessage(buffer, n)
      /\ n \in 0..BufLen /\ n \in Nat
  BY <1>1, LengthsFit
<1>3. /\ pc' = "delivered"
      /\ UNCHANGED <<accepted, ops, batches, latencies, stats>>
  BY DEF DeliverDamaged, Goto
<1>4. CASE /\ total' = buffer[size]
           /\ \E i \in 1..buffer[size] : \E v \in Values(i) \ {buffer[i]} :
                buffer' = [buffer EXCEPT ![i] = v] /\ damage' = i
  <2>0. PICK i \in 1..n :
          \E v \in Values(i) \ {buffer[i]} :
            buffer' = [buffer EXCEPT ![i] = v] /\ damage' = i
    BY <1>4
  <2>1. PICK v \in Values(i) \ {buffer[i]} :
          buffer' = [buffer EXCEPT ![i] = v] /\ damage' = i
    BY <2>0
  <2>2. v \in Words /\ v # buffer[i]
    <3>1. Values(i) \subseteq Words
      BY Sizes DEF Values
    <3> QED BY <2>1, <3>1
  <2>3. i \in 1..BufLen /\ buffer' \in Buffers
    <3>1. i \in 1..BufLen
      BY <1>2, Sizes
    <3> QED BY <1>2, <2>1, <2>2, <3>1 DEF Buffers
  <2>4. TypeOK'
    BY <1>2, <1>3, <1>4, <2>1, <2>3 DEF Inductive, TypeOK, Buffers
  <2>5. ValidateMessage(buffer', n) <=> i \in {seq, timestamp, n}
    <3> HIDE DEF n
    <3> QED BY <1>2, <2>1, <2>2, OneDamageIsSeen
  <2>6. total' = n /\ damage' = i /\ i # Nothing
    BY <1>2, <1>4, <2>1 DEF Nothing
  <2>7. ValidateMessage(buffer', total') <=> damage' \in (Unchecked \union {Nothing})'
    BY <2>5, <2>6 DEF Unchecked
  <2>8. Verdict'
    BY <2>7 DEF Verdict
  <2> QED BY <2>4, <2>8
<1>5. CASE /\ total' \in (SizeOf + 1)..BufLen \ {buffer[size]}
           /\ damage' = TheLength
           /\ UNCHANGED buffer
  <2>1. total' \in 0..BufLen /\ total' # n /\ buffer' = buffer
    BY <1>5, Sizes DEF SizeOf
  <2>2. TypeOK'
    BY <1>2, <1>3, <1>5, <2>1 DEF Inductive, TypeOK
  <2>3. ~ValidateMessage(buffer', total')
    BY <2>1 DEF ValidateMessage
  <2>4. damage' \notin {seq, timestamp, total', Nothing}
    BY <1>5, <2>1, Sizes DEF TheLength, Nothing, seq, timestamp
  <2>5. Verdict'
    BY <2>3, <2>4 DEF Verdict, Unchecked
  <2> QED BY <2>2, <2>5
<1> QED BY <1>4, <1>5 DEF DeliverDamaged

LEMMA JudgeStep ==
  ASSUME Inductive, Judge
  PROVE  TypeOK' /\ DamageIsSeen'
<1>1. accepted' \in BOOLEAN
  BY DEF Judge, ValidateMessage
<1>2. TypeOK'
  BY <1>1 DEF Inductive, TypeOK, Judge, Goto
<1>3. accepted' <=> damage \in Unchecked \union {Nothing}
  BY DEF Inductive, Verdict, Judge, Goto
<1>4. damage' = damage /\ Unchecked' = Unchecked
  BY DEF Judge, Unchecked
<1>5. DamageIsSeen'
  BY <1>3, <1>4 DEF DamageIsSeen
<1> QED BY <1>2, <1>5

LEMMA CountStep ==
  ASSUME Inductive, Count
  PROVE  TypeOK'
<1>1. PICK l \in Latencies, k \in Batches : ops' = ops + k /\ latencies' = Note(l, k)
  BY DEF Count
<1>2. ops' \in Nat
  BY <1>1, BenchmarkAssumption DEF Inductive, TypeOK
<1>3. latencies' \in Seq(Latencies) /\ Len(latencies') = Min({ops', MaxLatencies})
  <2>1. TypeOK
    BY DEF Inductive
  <2> QED BY <1>1, <2>1, NoteIs
<1>4. batches' \in 0..MaxBatches
  <2>1. batches < MaxBatches
    BY DEF Inductive, CallsBounded, Count, Goto
  <2>2. batches \in 0..MaxBatches /\ batches' = batches + 1
    BY DEF Inductive, TypeOK, Count
  <2>3. MaxBatches \in Nat
    BY BenchmarkAssumption
  <2> QED BY <2>1, <2>2, <2>3
<1> QED BY <1>2, <1>3, <1>4 DEF Inductive, TypeOK, Count, Goto

LEMMA StatsStep ==
  ASSUME Inductive, CalculateStats
  PROVE  TypeOK' /\ PercentilesAreRight'
<1> DEFINE n == Len(latencies)
           l == Sorted(latencies)
<1>1. latencies \in Seq(Latencies) /\ n \in Nat /\ Latencies \subseteq Nat
  BY BenchmarkAssumption DEF Inductive, TypeOK
<1>2. latencies \in [1..n -> Nat] /\ Range(latencies) \subseteq Latencies
  <2>1. \A i \in 1..n : latencies[i] \in Latencies
    BY <1>1
  <2>2. DOMAIN latencies = 1..n
    BY <1>1
  <2>3. Range(latencies) \subseteq Latencies
    BY <2>1, <2>2 DEF Range
  <2>4. latencies \in [1..n -> Latencies]
    BY <1>1
  <2>5. latencies \in [1..n -> Nat]
    <3> HIDE DEF n
    <3> QED BY <1>1, <2>4
  <2> QED BY <2>3, <2>5
<1>3. l \in [1..n -> Range(latencies)] /\ l \in [1..n -> Nat]
  <2> HIDE DEF l, n
  <2>1. Sorted(latencies) \in [1..n -> Range(latencies)] /\ Sorted(latencies) \in [1..n -> Nat]
    BY <1>1, <1>2, SortedType
  <2> QED BY <2>1 DEF l
<1>4. InOrder(l, n)
  <2> HIDE DEF n
  <2> QED BY <1>1, <1>2, SortedInOrder DEF InOrder
<1>5. /\ latencies' = l
      /\ stats' = IF latencies = <<>> THEN stats
                  ELSE [p \in Percentiles |-> l[PercentileIndex(n, p) + 1]]
      /\ pc' = "done" /\ pc = "finish"
      /\ UNCHANGED <<buffer, total, damage, accepted, ops, batches>>
  BY DEF CalculateStats, Goto
<1>6. l \in Seq(Latencies) /\ Len(l) = n
  <2>1. l \in [1..n -> Latencies]
    BY <1>2, <1>3
  <2> HIDE DEF l, n
  <2> QED BY <1>1, <2>1
<1>7. stats = <<>>
  BY <1>5 DEF Inductive, StatsAtTheEnd
<1> HIDE DEF l
<1>8. DOMAIN stats' \subseteq Percentiles
  BY <1>5, <1>7
<1>9. TypeOK'
  BY <1>5, <1>6, <1>8 DEF Inductive, TypeOK
<1>10. CASE latencies = <<>>
  <2>1. DOMAIN stats' = {}
    BY <1>5, <1>7, <1>10
  <2> QED BY <1>9, <2>1 DEF PercentilesAreRight
<1>11. CASE latencies # <<>>
  <2> HIDE DEF n
  <2>1. n > 0
    BY <1>1, <1>11 DEF n
  <2> SUFFICES ASSUME NEW p \in Percentiles
               PROVE  stats'[p] \in Range(l) /\ IsPercentile(stats'[p], p, l, n)
    <3>1. DOMAIN stats' = Percentiles /\ latencies' = l /\ Len(l) = n
      BY <1>5, <1>6, <1>11
    <3> QED BY <1>9, <3>1 DEF PercentilesAreRight, HowMany, IsPercentile
  <2> DEFINE q == PercentileIndex(n, p) + 1
  <2>2. stats'[p] = l[q]
    BY <1>5, <1>11
  <2>3. q = PercentileIndex(n, p) + 1
    OBVIOUS
  <2>4. n \in Nat /\ l \in [1..n -> Nat]
    BY <1>1, <1>3
  <2> HIDE DEF q
  <2>5. q \in 1..n /\ IsPercentile(l[q], p, l, n)
    BY <1>4, <2>1, <2>3, <2>4, PercentileOfOrdered
  <2>6. l[q] \in Range(l)
    BY <1>3, <2>5 DEF Range
  <2> QED BY <2>2, <2>5, <2>6
<1> QED BY <1>9, <1>10, <1>11

(* The parts of the invariant that speak of one place in the loop only. *)
LEMMA Elsewhere ==
  /\ pc' # "composed" => Handed'
  /\ pc' # "delivered" => Verdict'
  /\ pc' # "judged" => DamageIsSeen'
  /\ pc' = "done" => StatsAtTheEnd'
BY DEF Handed, Verdict, DamageIsSeen, StatsAtTheEnd

LEMMA CallsBoundedStep ==
  ASSUME Inductive, [Next]_vars
  PROVE  CallsBounded'
<1>1. \/ pc' \notin {"composed", "delivered", "judged"}
      \/ batches' = batches /\ (batches < MaxBatches \/ pc \in {"composed", "delivered", "judged"})
  BY DEF Next, vars, Compose, Deliver, DeliverDamaged, Judge, Count, Break, Expire, CalculateStats, Goto
<1> QED BY <1>1 DEF Inductive, CallsBounded

(* The statistics are touched at the end only. *)
LEMMA NoStatsYet ==
  ASSUME Inductive, pc # "done", UNCHANGED stats
  PROVE  StatsAtTheEnd' /\ PercentilesAreRight'
<1>1. stats' = <<>>
  BY DEF Inductive, StatsAtTheEnd
<1>2. DOMAIN stats' = {}
  BY <1>1
<1> QED BY <1>1, <1>2 DEF StatsAtTheEnd, PercentilesAreRight

LEMMA InductiveStep == Inductive /\ [Next]_vars => Inductive'
<1> SUFFICES ASSUME Inductive, [Next]_vars PROVE Inductive'
  OBVIOUS
<1>1. CASE Compose
  <2>1. pc' = "composed" /\ pc = "loop" /\ UNCHANGED stats
    BY <1>1 DEF Compose, Goto
  <2> QED BY <1>1, <2>1, ComposeStep, CallsBoundedStep, Elsewhere, NoStatsYet DEF Inductive
<1>2. CASE Deliver
  <2>1. pc' = "delivered" /\ pc = "composed" /\ UNCHANGED stats
    BY <1>2 DEF Deliver, Goto
  <2> QED BY <1>2, <2>1, DeliverStep, CallsBoundedStep, Elsewhere, NoStatsYet DEF Inductive
<1>3. CASE DeliverDamaged
  <2>1. pc' = "delivered" /\ pc = "composed" /\ UNCHANGED stats
    BY <1>3 DEF DeliverDamaged, Goto
  <2> QED BY <1>3, <2>1, DeliverDamagedStep, CallsBoundedStep, Elsewhere, NoStatsYet DEF Inductive
<1>4. CASE Judge
  <2>1. pc' = "judged" /\ pc = "delivered" /\ UNCHANGED stats
    BY <1>4 DEF Judge, Goto
  <2> QED BY <1>4, <2>1, JudgeStep, CallsBoundedStep, Elsewhere, NoStatsYet DEF Inductive
<1>5. CASE Count
  <2>1. pc' = "loop" /\ pc = "judged" /\ UNCHANGED stats
    BY <1>5 DEF Count, Goto
  <2> QED BY <1>5, <2>1, CountStep, CallsBoundedStep, Elsewhere, NoStatsYet DEF Inductive
<1>6. CASE Break \/ Expire
  <2>1. pc' = "finish" /\ pc \in {"judged", "loop"} /\ UNCHANGED stats
    BY <1>6 DEF Break, Expire, Goto
  <2>2. TypeOK'
    BY <1>6 DEF Inductive, TypeOK, Break, Expire, Goto
  <2> QED BY <2>1, <2>2, CallsBoundedStep, Elsewhere, NoStatsYet DEF Inductive
<1>7. CASE CalculateStats
  <2>1. pc' = "done"
    BY <1>7 DEF CalculateStats, Goto
  <2> QED BY <1>7, <2>1, StatsStep, CallsBoundedStep, Elsewhere DEF Inductive
<1>8. CASE UNCHANGED vars
  <2>1. TypeOK' /\ CallsBounded'
    BY <1>8 DEF vars, Inductive, TypeOK, CallsBounded
  <2>2. Handed' /\ StatsAtTheEnd'
    BY <1>8 DEF vars, Inductive, Handed, StatsAtTheEnd, ValidateMessage
  <2>3. Verdict' /\ DamageIsSeen'
    BY <1>8 DEF vars, Inductive, Verdict, DamageIsSeen, Unchecked, ValidateMessage
  <2>4. PercentilesAreRight'
    BY <1>8 DEF vars, Inductive, PercentilesAreRight, HowMany
  <2> QED BY <2>1, <2>2, <2>3, <2>4 DEF Inductive
<1> QED BY <1>1, <1>2, <1>3, <1>4, <1>5, <1>6, <1>7, <1>8 DEF Next

(***************************************************************************)
(* No latency is written past the end of the array, and no field of the    *)
(* message ever holds more than a word.                                    *)
(***************************************************************************)
THEOREM TypeInv == Spec => []TypeOK
<1>1. Inductive => TypeOK
  BY DEF Inductive
<1> QED BY <1>1, InitInductive, InductiveStep, PTL DEF Spec

(***************************************************************************)
(* A message validates if and only if no checked cell of it was damaged.   *)
(***************************************************************************)
THEOREM DamageSeen == Spec => []DamageIsSeen
<1>1. Inductive => DamageIsSeen
  BY DEF Inductive
<1> QED BY <1>1, InitInductive, InductiveStep, PTL DEF Spec

(***************************************************************************)
(* The percentiles of every number of latencies are percentiles.           *)
(***************************************************************************)
THEOREM PercentilesRight == Spec => []PercentilesAreRight
<1>1. Inductive => PercentilesAreRight
  BY DEF Inductive
<1> QED BY <1>1, InitInductive, InductiveStep, PTL DEF Spec
=============================================================================
