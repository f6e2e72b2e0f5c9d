-------------------------- MODULE RingBufferProofs --------------------------
(***************************************************************************)
(* What holds of RingBuffer for every size of the buffer, every base of a  *)
(* byte and every set of messages: it is a queue.                          *)
(***************************************************************************)
EXTENDS RingBuffer, SequenceTheorems, TLAPS

-----------------------------------------------------------------------------
(* The length word.                                                        *)

LEMMA DivMod ==
  ASSUME NEW a \in Nat
  PROVE  /\ a \div Base \in Nat
         /\ a % Base \in Byte
         /\ a = (a % Base) + Base * (a \div Base)
BY RingAssumption, SMT DEF Byte

LEMMA NatProducts == \A a, b \in Nat : a * b \in Nat
BY SMT

LEMMA DivBound ==
  ASSUME NEW a \in Nat, NEW c \in Nat, a < Base * c
  PROVE  a \div Base < c
<1> DEFINE q == a \div Base
<1>1. q \in Nat /\ a = (a % Base) + Base * q /\ a % Base \in Nat
  BY DivMod DEF Byte
<1>2. SUFFICES ASSUME q >= c PROVE FALSE
  BY <1>1
<1>3. Base * q >= Base * c
  <2> HIDE DEF q
  <2>1. PICK d \in Nat : q = c + d
    BY <1>1, <1>2, SMT
  <2>2. Base * q = Base * c + Base * d
    BY <1>1, <2>1, RingAssumption, SMT
  <2>3. QED BY <2>2, NatProducts, RingAssumption
<1>4. Base * c \in Nat /\ Base * q \in Nat
  BY <1>1, RingAssumption, SMT
<1>5. QED BY <1>1, <1>3, <1>4, SMT

LEMMA HeaderType ==
  ASSUME NEW n \in Nat
  PROVE  Header(n) \in Seq(Byte) /\ Len(Header(n)) = HdrLen
<1>1. n \div Base \in Nat
  BY DivMod
<1>2. (n \div Base) \div Base \in Nat
  BY <1>1, DivMod
<1>3. ((n \div Base) \div Base) \div Base \in Nat
  BY <1>2, DivMod
<1>4. QED BY <1>1, <1>2, <1>3, DivMod DEF Header, HdrLen

LEMMA ValueOfHeader ==
  ASSUME NEW n \in Nat, n <= Size \div 2
  PROVE  Value(Header(n)) = n
<1> DEFINE q1 == n \div Base
           q2 == q1 \div Base
           q3 == q2 \div Base
<1>1. q1 \in Nat /\ n = (n % Base) + Base * q1
  BY DivMod
<1>2. q2 \in Nat /\ q1 = (q1 % Base) + Base * q2
  BY <1>1, DivMod
<1>3. q3 \in Nat /\ q2 = (q2 % Base) + Base * q3
  BY <1>2, DivMod
<1>4. q3 < Base
  <2>1. n < Base * (Base * (Base * Base))
    BY RingAssumption, SMT
  <2>2. Base \in Nat /\ Base * Base \in Nat /\ Base * (Base * Base) \in Nat
    BY RingAssumption, SMT
  <2>3. q1 < Base * (Base * Base)
    BY <2>1, <2>2, DivBound
  <2>4. q2 < Base * Base
    BY <1>1, <2>2, <2>3, DivBound
  <2>5. QED BY <1>2, <2>2, <2>4, DivBound
<1>5. q3 % Base = q3
  BY <1>3, <1>4, RingAssumption, SMT
<1>6. Value(Header(n)) = (n % Base) + Base * ((q1 % Base) + Base * ((q2 % Base) + Base * q3))
  BY <1>5 DEF Value, Header
<1>7. QED BY <1>1, <1>2, <1>3, <1>6

-----------------------------------------------------------------------------
(* Positions and copies.                                                   *)

(* The cell j bytes after p. *)
At(p, j) == IF p + j >= Size THEN p + j - Size ELSE p + j

LEMMA AdvanceIsAt ==
  ASSUME NEW p \in Cells, NEW n \in 0..Size
  PROVE  Advance(p, n) = At(p, n) /\ Advance(p, n) \in Cells
BY RingAssumption, SMT DEF Cells, Advance, At

LEMMA DistAt ==
  ASSUME NEW p \in Cells, NEW c \in Cells
  PROVE  /\ Dist(p, c) \in Cells
         /\ At(p, Dist(p, c)) = c
         /\ \A j \in Cells : At(p, j) \in Cells /\ Dist(p, At(p, j)) = j
BY RingAssumption, SMT DEF Cells, At, Dist

LEMMA FetchAt ==
  ASSUME NEW b \in [Cells -> Byte], NEW p \in Cells, NEW n \in 0..Size
  PROVE  /\ Fetch(b, p, n) \in Seq(Byte)
         /\ Len(Fetch(b, p, n)) = n
         /\ \A i \in 1..n : Fetch(b, p, n)[i] = b[At(p, i - 1)]
<1>1. ASSUME NEW i \in 1..n
      PROVE  Fetch(b, p, n)[i] = b[At(p, i - 1)] /\ At(p, i - 1) \in Cells
  BY RingAssumption, SMT DEF Cells, Fetch, At
<1>2. Fetch(b, p, n) \in [1..n -> Byte]
  <2>1. Fetch(b, p, n) = [i \in 1..n |-> Fetch(b, p, n)[i]]
    BY DEF Fetch
  <2>2. QED BY <1>1, <2>1
<1>3. n \in Nat
  BY RingAssumption, SMT
<1>4. QED BY <1>1, <1>2, <1>3

LEMMA StoreAt ==
  ASSUME NEW b \in [Cells -> Byte], NEW p \in Cells, NEW s \in Seq(Byte), Len(s) <= Size
  PROVE  /\ Store(b, p, s) \in [Cells -> Byte]
         /\ \A c \in Cells :
              Store(b, p, s)[c] = IF Dist(p, c) < Len(s) THEN s[Dist(p, c) + 1] ELSE b[c]
<1>1. Len(s) \in Nat
  OBVIOUS
<1>2. ASSUME NEW c \in Cells
      PROVE  Store(b, p, s)[c] = IF Dist(p, c) < Len(s) THEN s[Dist(p, c) + 1] ELSE b[c]
  BY <1>1, RingAssumption, SMT DEF Cells, Store, Dist
<1>3. ASSUME NEW c \in Cells
      PROVE  Store(b, p, s)[c] \in Byte
  <2>1. Dist(p, c) \in Nat
    BY DistAt DEF Cells
  <2>2. QED BY <1>1, <1>2, <2>1, ElementOfSeq
<1>4. Store(b, p, s) = [c \in Cells |-> Store(b, p, s)[c]]
  BY DEF Store
<1>5. QED BY <1>2, <1>3, <1>4

(***************************************************************************)
(* What has been stored is fetched.                                        *)
(***************************************************************************)
LEMMA FetchStored ==
  ASSUME NEW b \in [Cells -> Byte], NEW p \in Cells, NEW s \in Seq(Byte), Len(s) <= Size
  PROVE  Fetch(Store(b, p, s), p, Len(s)) = s
<1> DEFINE f == Fetch(Store(b, p, s), p, Len(s))
<1>1. Len(s) \in 0..Size
  BY RingAssumption, SMT
<1>2. Store(b, p, s) \in [Cells -> Byte]
  BY StoreAt
<1>3. f \in Seq(Byte) /\ Len(f) = Len(s)
  BY <1>1, <1>2, FetchAt
<1>4. ASSUME NEW i \in 1..Len(s)
      PROVE  f[i] = s[i]
  <2>1. i - 1 \in Cells
    BY <1>1, RingAssumption, SMT DEF Cells
  <2>2. At(p, i - 1) \in Cells /\ Dist(p, At(p, i - 1)) = i - 1
    BY <2>1, DistAt
  <2>3. f[i] = Store(b, p, s)[At(p, i - 1)]
    BY <1>1, <1>2, FetchAt
  <2>4. QED BY <2>2, <2>3, StoreAt
<1>5. QED BY <1>3, <1>4, SeqEqual

(***************************************************************************)
(* What does not touch the stored bytes is fetched as before.              *)
(***************************************************************************)
LEMMA FetchOther ==
  ASSUME NEW b \in [Cells -> Byte], NEW p \in Cells, NEW s \in Seq(Byte), Len(s) <= Size,
         NEW q \in Cells, NEW n \in 0..Size,
         \A j \in 0..(n - 1) : Dist(p, At(q, j)) >= Len(s)
  PROVE  Fetch(Store(b, p, s), q, n) = Fetch(b, q, n)
<1> DEFINE f == Fetch(Store(b, p, s), q, n)
           g == Fetch(b, q, n)
<1>1. Store(b, p, s) \in [Cells -> Byte]
  BY StoreAt
<1>2. f \in Seq(Byte) /\ Len(f) = n /\ g \in Seq(Byte) /\ Len(g) = n
  BY <1>1, FetchAt
<1>3. ASSUME NEW i \in 1..n
      PROVE  f[i] = g[i]
  <2>1. i - 1 \in 0..(n - 1) /\ i - 1 \in Cells
    BY RingAssumption, SMT DEF Cells
  <2>2. At(q, i - 1) \in Cells /\ Dist(p, At(q, i - 1)) >= Len(s)
    BY <2>1, DistAt
  <2>3. Dist(p, At(q, i - 1)) \in Nat /\ Len(s) \in Nat
    BY <2>2, DistAt DEF Cells
  <2>4. Store(b, p, s)[At(q, i - 1)] = b[At(q, i - 1)]
    BY <2>2, <2>3, StoreAt, SMT
  <2>5. f[i] = Store(b, p, s)[At(q, i - 1)] /\ g[i] = b[At(q, i - 1)]
    BY <1>1, FetchAt
  <2>6. QED BY <2>4, <2>5
<1>4. QED BY <1>2, <1>3, SeqEqual

(***************************************************************************)
(* Distances from a third position r.                                      *)
(***************************************************************************)
LEMMA DistAdvance ==
  ASSUME NEW r \in Cells, NEW c \in Cells, NEW n \in Nat, Dist(r, c) + n < Size
  PROVE  /\ n \in 0..Size
         /\ Advance(c, n) \in Cells
         /\ Dist(r, Advance(c, n)) = Dist(r, c) + n
BY RingAssumption, SMT DEF Cells, Dist, Advance

LEMMA DistShift ==
  ASSUME NEW r \in Cells, NEW e \in Cells, NEW c \in Cells, Dist(r, e) <= Dist(r, c)
  PROVE  Dist(e, c) = Dist(r, c) - Dist(r, e)
BY RingAssumption, SMT DEF Cells, Dist

(***************************************************************************)
(* n bytes that end before w, seen from r, are not among the l bytes from  *)
(* w on, as long as these do not come back to r.                           *)
(***************************************************************************)
LEMMA Beyond ==
  ASSUME NEW r \in Cells, NEW w \in Cells, NEW q \in Cells, NEW n \in Nat, NEW l \in Nat,
         Dist(r, q) + n <= Dist(r, w), Dist(r, w) + l <= Size
  PROVE  \A j \in 0..(n - 1) : Dist(w, At(q, j)) >= l
BY RingAssumption, SMT DEF Cells, Dist, At

LEMMA UsedIsDist ==
  ASSUME TypeOK
  PROVE  Available = Size - Dist(readPos, writePos)
BY RingAssumption, SMT DEF TypeOK, Cells, Available, Dist

LEMMA FrameEndDist ==
  ASSUME NEW r \in Cells, NEW c \in Cells, NEW n \in Nat, Dist(r, c) + HdrLen + n < Size
  PROVE  /\ Advance(c, HdrLen) \in Cells
         /\ Dist(r, Advance(c, HdrLen)) = Dist(r, c) + HdrLen
         /\ FrameEnd(c, n) \in Cells
         /\ Dist(r, FrameEnd(c, n)) = Dist(r, c) + HdrLen + n
<1> DEFINE d == Advance(c, HdrLen)
<1>1. HdrLen \in Nat /\ Dist(r, c) \in Nat
  BY DistAt DEF HdrLen, Cells
<1>2. Dist(r, c) + HdrLen < Size
  BY <1>1, RingAssumption, SMT
<1>3. d \in Cells /\ Dist(r, d) = Dist(r, c) + HdrLen
  BY <1>1, <1>2, DistAdvance
<1>4. Dist(r, d) + n < Size
  BY <1>3
<1>5. QED BY <1>3, <1>4, DistAdvance DEF FrameEnd

-----------------------------------------------------------------------------
(* The invariant.                                                          *)

Short == \A k \in 1..Len(queue) : Len(queue[k]) <= Size \div 2

Drained == queue = <<>> => readPos = writePos

Inductive == TypeOK /\ Contents /\ Disjoint /\ Short /\ Drained

LEMMA QueueElement ==
  ASSUME TypeOK, Contents, NEW k \in 1..Len(queue)
  PROVE  /\ queue[k] \in Seq(Byte) /\ Len(queue[k]) \in Nat
         /\ starts[k] \in Cells
BY ElementOfSeq DEF TypeOK, Contents

LEMMA InitInductive == Init => Inductive
<1> SUFFICES ASSUME Init PROVE Inductive
  OBVIOUS
<1>1. 0 \in Cells /\ 0 \in Byte
  BY RingAssumption, SMT DEF Cells, Byte
<1>2. TypeOK
  BY <1>1 DEF Init, TypeOK
<1>3. Contents /\ Disjoint /\ Short /\ Drained
  BY DEF Init, Contents, Disjoint, Short, Drained
<1>4. QED BY <1>2, <1>3 DEF Inductive

(***************************************************************************)
(* What a write does to the bytes: the new frame is there, and every byte  *)
(* that lies before the write position is as it was.                       *)
(***************************************************************************)
LEMMA WriteBytes ==
  ASSUME TypeOK, NEW m \in Messages, Write(m)
  PROVE  /\ buffer' \in [Cells -> Byte]
         /\ Fetch(buffer', writePos, HdrLen) = Header(Len(m))
         /\ Fetch(buffer', Advance(writePos, HdrLen), Len(m)) = m
         /\ \A q \in Cells : \A n \in Nat :
              Dist(readPos, q) + n <= Dist(readPos, writePos)
                => Fetch(buffer', q, n) = Fetch(buffer, q, n)
<1> DEFINE p == writePos
           d == Advance(writePos, HdrLen)
           h == Header(Len(m))
           b == Store(buffer, p, h)
<1>1. m \in Seq(Byte) /\ Len(m) \in Nat
  BY RingAssumption
<1>2. h \in Seq(Byte) /\ Len(h) = HdrLen
  BY <1>1, HeaderType
<1>3. p \in Cells /\ readPos \in Cells /\ buffer \in [Cells -> Byte] /\ HdrLen \in Nat
  BY DEF TypeOK, HdrLen
<1>4. Dist(readPos, p) + HdrLen + Len(m) < Size
  <2>1. Dist(readPos, p) \in Nat
    BY <1>3, DistAt DEF Cells
  <2>2. QED BY <1>1, <1>3, <2>1, UsedIsDist, RingAssumption, SMT DEF Write, Accepts
<1>5. d \in Cells /\ Dist(readPos, d) = Dist(readPos, p) + HdrLen
  BY <1>1, <1>3, <1>4, FrameEndDist
<1>6. Dist(readPos, p) \in Nat /\ HdrLen <= Size /\ Len(m) <= Size
      /\ Dist(readPos, p) + HdrLen <= Size /\ Dist(readPos, d) + Len(m) <= Size
  <2>1. Dist(readPos, p) \in Nat
    BY <1>3, DistAt DEF Cells
  <2>2. QED BY <1>1, <1>3, <1>4, <1>5, <2>1, RingAssumption, SMT
<1>7. b \in [Cells -> Byte]
  BY <1>2, <1>3, <1>6, StoreAt
<1>8. buffer' = Store(b, d, m)
  BY DEF Write
<1>9. buffer' \in [Cells -> Byte]
  BY <1>1, <1>5, <1>6, <1>7, <1>8, StoreAt
<1>10. Fetch(buffer', d, Len(m)) = m
  BY <1>1, <1>5, <1>6, <1>7, <1>8, FetchStored
<1>11. Fetch(buffer', p, HdrLen) = h
  <2>1. Dist(p, p) = 0 /\ Dist(p, d) = HdrLen /\ HdrLen + Len(m) <= Size
    <3>1. Dist(p, p) = 0
      BY <1>3, SMT DEF Dist, Cells
    <3>2. HdrLen + Len(m) < Size
      BY <1>1, <1>3, <1>4, <1>6, RingAssumption, SMT
    <3>3. QED BY <1>1, <1>3, <3>1, <3>2, FrameEndDist, RingAssumption
  <2>2. \A j \in 0..(HdrLen - 1) : Dist(d, At(p, j)) >= Len(m)
    BY <1>1, <1>3, <1>5, <2>1, Beyond
  <2>3. HdrLen \in 0..Size
    BY <1>3, <1>6, RingAssumption, SMT
  <2>4. Fetch(buffer', p, HdrLen) = Fetch(b, p, HdrLen)
    BY <1>1, <1>3, <1>5, <1>6, <1>7, <1>8, <2>2, <2>3, FetchOther
  <2>5. QED BY <1>2, <1>3, <1>6, <2>4, FetchStored
<1>12. ASSUME NEW q \in Cells, NEW n \in Nat, Dist(readPos, q) + n <= Dist(readPos, p)
       PROVE  Fetch(buffer', q, n) = Fetch(buffer, q, n)
  <2>1. Dist(readPos, q) \in Nat
    BY <1>3, DistAt DEF Cells
  <2>2. n \in 0..Size /\ Dist(readPos, q) + n <= Dist(readPos, d)
    BY <1>3, <1>5, <1>6, <1>12, <2>1, RingAssumption, SMT
  <2>3. Fetch(buffer', q, n) = Fetch(b, q, n)
    <3>1. \A j \in 0..(n - 1) : Dist(d, At(q, j)) >= Len(m)
      BY <1>1, <1>3, <1>5, <1>6, <2>2, Beyond
    <3>2. QED BY <1>1, <1>5, <1>6, <1>7, <1>8, <2>2, <3>1, FetchOther
  <2>4. Fetch(b, q, n) = Fetch(buffer, q, n)
    <3>1. \A j \in 0..(n - 1) : Dist(p, At(q, j)) >= Len(h)
      BY <1>2, <1>3, <1>6, <1>12, Beyond
    <3>2. QED BY <1>2, <1>3, <1>6, <2>2, <3>1, FetchOther
  <2>5. QED BY <2>3, <2>4
<1>13. QED BY <1>9, <1>10, <1>11, <1>12

LEMMA WriteInductive ==
  ASSUME Inductive, NEW m \in Messages, Write(m)
  PROVE  Inductive'
<1> DEFINE N == Len(queue)
           n == Len(m)
           u == Dist(readPos, writePos)
<1>1. TypeOK /\ Contents /\ Disjoint /\ Short /\ Drained
  BY DEF Inductive
<1>2. m \in Seq(Byte) /\ n \in Nat /\ n <= Size \div 2
  BY RingAssumption DEF Write, Accepts
<1>3. readPos \in Cells /\ writePos \in Cells /\ queue \in Seq(Seq(Byte)) /\ starts \in Seq(Cells)
      /\ N \in Nat /\ Len(starts) = N
  BY <1>1 DEF TypeOK, Contents
<1>4. u \in Nat /\ u + HdrLen + n < Size
  <2>1. u \in Nat
    BY <1>3, DistAt DEF Cells
  <2>2. QED BY <1>1, <1>2, <2>1, UsedIsDist, RingAssumption, SMT DEF Write, Accepts, HdrLen
<1>5. /\ writePos' \in Cells
      /\ Dist(readPos, writePos') = u + HdrLen + n
  BY <1>2, <1>3, <1>4, FrameEndDist DEF Write
<1>6. /\ queue' = Append(queue, m) /\ starts' = Append(starts, writePos)
      /\ readPos' = readPos /\ out' = out
  BY DEF Write
<1>7. /\ Len(queue') = N + 1 /\ Len(starts') = N + 1
      /\ queue'[N + 1] = m /\ starts'[N + 1] = writePos
      /\ \A k \in 1..N : queue'[k] = queue[k] /\ starts'[k] = starts[k]
      /\ queue' \in Seq(Seq(Byte)) /\ starts' \in Seq(Cells)
      /\ queue' # <<>>
  <2>1. /\ queue' \in Seq(Seq(Byte)) /\ Len(queue') = N + 1 /\ queue'[N + 1] = m
        /\ \A k \in 1..N : queue'[k] = queue[k]
    BY <1>2, <1>3, <1>6, AppendProperties
  <2>2. /\ starts' \in Seq(Cells) /\ Len(starts') = N + 1 /\ starts'[N + 1] = writePos
        /\ \A k \in 1..N : starts'[k] = starts[k]
    BY <1>3, <1>6, AppendProperties
  <2>3. queue' # <<>>
    BY <1>3, <2>1, EmptySeq
  <2>4. QED BY <2>1, <2>2, <2>3
<1>8. \A k \in 1..N : queue[k] \in Seq(Byte) /\ Len(queue[k]) \in Nat /\ starts[k] \in Cells
  BY <1>1, QueueElement
<1>9. TypeOK'
  BY <1>1, <1>5, <1>6, <1>7, WriteBytes DEF TypeOK
<1>10. Short'
  <2>1. ASSUME NEW k \in 1..(N + 1) PROVE Len(queue'[k]) <= Size \div 2
    <3>1. CASE k = N + 1
      BY <1>2, <1>7, <3>1
    <3>2. CASE k # N + 1
      <4>1. k \in 1..N
        BY <1>3, <3>2, SMT
      <4>2. QED BY <1>1, <1>7, <4>1 DEF Short
    <3>3. QED BY <3>1, <3>2
  <2>2. QED BY <1>7, <2>1 DEF Short
<1>11. Drained'
  BY <1>7 DEF Drained
<1>12. Disjoint'
  <2> DEFINE end(k) == Dist(readPos, starts'[k]) + HdrLen + Len(queue'[k])
  <2>1. \A k \in 1..N : end(k) <= u /\ end(k) \in Int
        /\ \A l \in 1..N : k < l => end(k) <= Dist(readPos, starts'[l])
    <3>1. ASSUME NEW k \in 1..N PROVE Dist(readPos, starts[k]) \in Nat /\ HdrLen \in Nat
      <4>1. starts[k] \in Cells
        BY <1>8
      <4>2. Dist(readPos, starts[k]) \in Cells
        BY <1>3, <4>1, DistAt
      <4>3. QED BY <4>2 DEF Cells, HdrLen
    <3>2. ASSUME NEW k \in 1..N
          PROVE  /\ end(k) <= u /\ end(k) \in Int
                 /\ \A l \in 1..N : k < l => end(k) <= Dist(readPos, starts'[l])
      <4>1. end(k) = Dist(readPos, starts[k]) + HdrLen + Len(queue[k])
        BY <1>7
      <4>2. end(k) \in Int
        BY <1>8, <3>1, <4>1
      <4>3. QED BY <1>1, <1>7, <4>1, <4>2 DEF Disjoint
    <3>3. QED BY <3>2
  <2>2. end(N + 1) = u + HdrLen + n
    BY <1>7
  <2>3. ASSUME NEW k \in 1..(N + 1)
        PROVE  /\ end(k) <= u + HdrLen + n
               /\ \A l \in 1..(N + 1) : k < l => end(k) <= Dist(readPos, starts'[l])
    <3>1. CASE k = N + 1
      BY <1>2, <1>3, <1>4, <2>2, <3>1, SMT DEF HdrLen
    <3>2. CASE k # N + 1
      <4>1. k \in 1..N
        BY <1>3, <3>2, SMT
      <4>2. end(k) <= u + HdrLen + n
        BY <1>2, <1>4, <2>1, <4>1, SMT DEF HdrLen
      <4>3. ASSUME NEW l \in 1..(N + 1), k < l PROVE end(k) <= Dist(readPos, starts'[l])
        <5>1. CASE l = N + 1
          BY <1>7, <2>1, <4>1, <5>1
        <5>2. CASE l # N + 1
          <6>1. l \in 1..N
            BY <1>3, <5>2, SMT
          <6>2. QED BY <2>1, <4>1, <4>3, <6>1
        <5>3. QED BY <5>1, <5>2
      <4>4. QED BY <4>2, <4>3
    <3>3. QED BY <3>1, <3>2
  <2>4. QED BY <1>5, <1>6, <1>7, <2>3 DEF Disjoint
<1>13. Contents'
  <2>1. starts'[1] = readPos
    <3>1. CASE N = 0
      <4>1. queue = <<>>
        BY <1>3, <3>1
      <4>2. QED BY <1>1, <1>7, <3>1, <4>1 DEF Drained
    <3>2. CASE N # 0
      <4>1. 1 \in 1..N /\ 1 # N + 1 /\ queue # <<>>
        BY <1>3, <3>2
      <4>2. starts[1] = readPos
        BY <1>1, <4>1 DEF Contents
      <4>3. starts'[1] = starts[1]
        BY <1>7, <4>1
      <4>4. QED BY <4>2, <4>3
    <3>3. QED BY <3>1, <3>2
  <2>2. ASSUME NEW k \in 1..(N + 1)
        PROVE  /\ Fetch(buffer', starts'[k], HdrLen) = Header(Len(queue'[k]))
               /\ Fetch(buffer', Advance(starts'[k], HdrLen), Len(queue'[k])) = queue'[k]
               /\ FrameEnd(starts'[k], Len(queue'[k])) = IF k = N + 1 THEN writePos' ELSE starts'[k + 1]
    <3>1. CASE k = N + 1
      <4>1. starts'[k] = writePos /\ queue'[k] = m
        BY <1>7, <3>1
      <4>2. writePos' = FrameEnd(writePos, n)
        BY DEF Write
      <4>3. QED BY <1>1, <3>1, <4>1, <4>2, WriteBytes
    <3>2. CASE k # N + 1
      <4>1. k \in 1..N
        BY <1>3, <3>2, SMT
      <4> DEFINE q == starts[k]
                 l == Len(queue[k])
      <4>2. q \in Cells /\ l \in Nat /\ Dist(readPos, q) \in Nat /\ HdrLen \in Nat
        <5>1. q \in Cells /\ l \in Nat
          BY <1>8, <4>1
        <5>2. Dist(readPos, q) \in Cells
          BY <1>3, <5>1, DistAt
        <5>3. QED BY <5>1, <5>2 DEF Cells, HdrLen
      <4>3. Dist(readPos, q) + HdrLen + l <= u
        BY <1>1, <4>1 DEF Disjoint
      <4>4. Dist(readPos, q) + HdrLen + l < Size
        BY <1>2, <1>4, <4>2, <4>3, RingAssumption, SMT
      <4>5. Advance(q, HdrLen) \in Cells /\ Dist(readPos, Advance(q, HdrLen)) = Dist(readPos, q) + HdrLen
        BY <1>3, <4>2, <4>4, FrameEndDist
      <4>6. Dist(readPos, q) + HdrLen <= u
        BY <1>4, <4>2, <4>3, SMT
      <4>7. Fetch(buffer', q, HdrLen) = Fetch(buffer, q, HdrLen)
        BY <1>1, <4>2, <4>6, WriteBytes
      <4>8. Fetch(buffer', Advance(q, HdrLen), l) = Fetch(buffer, Advance(q, HdrLen), l)
        BY <1>1, <4>2, <4>3, <4>5, WriteBytes
      <4>9. FrameEnd(q, l) = IF k = N THEN writePos ELSE starts[k + 1]
        BY <1>1, <4>1 DEF Contents
      <4>10. starts'[k + 1] = IF k = N THEN writePos ELSE starts[k + 1]
        <5>1. CASE k = N
          BY <1>7, <5>1
        <5>2. CASE k # N
          <6>1. k + 1 \in 1..N
            BY <1>3, <4>1, <5>2, SMT
          <6>2. QED BY <1>7, <5>2, <6>1
        <5>3. QED BY <5>1, <5>2
      <4>11. QED BY <1>1, <1>7, <3>2, <4>1, <4>7, <4>8, <4>9, <4>10 DEF Contents
    <3>3. QED BY <3>1, <3>2
  <2>3. QED BY <1>6, <1>7, <2>1, <2>2 DEF Contents
<1>14. QED BY <1>9, <1>10, <1>11, <1>12, <1>13 DEF Inductive

(***************************************************************************)
(* A read finds the first message of the queue.                            *)
(***************************************************************************)
LEMMA ReadsHead ==
  ASSUME Inductive, Read
  PROVE  /\ queue # <<>>
         /\ Len(queue) \in Nat \ {0}
         /\ NextLen = Len(queue[1])
         /\ out' = queue[1]
         /\ readPos' = FrameEnd(readPos, Len(queue[1]))
<1>1. TypeOK /\ Contents /\ Short /\ Drained /\ readPos # writePos
  BY DEF Inductive, Read
<1>2. queue # <<>>
  BY <1>1 DEF Drained
<1>3. Len(queue) \in Nat \ {0}
  BY <1>1, <1>2, EmptySeq DEF TypeOK
<1>4. 1 \in 1..Len(queue)
  BY <1>3
<1>5. Len(queue[1]) \in Nat /\ Len(queue[1]) <= Size \div 2
  BY <1>1, <1>4, QueueElement DEF Short
<1>6. starts[1] = readPos
  BY <1>1, <1>2 DEF Contents
<1>7. /\ Fetch(buffer, readPos, HdrLen) = Header(Len(queue[1]))
      /\ Fetch(buffer, Advance(readPos, HdrLen), Len(queue[1])) = queue[1]
  BY <1>1, <1>4, <1>6 DEF Contents
<1>8. NextLen = Len(queue[1])
  BY <1>5, <1>7, ValueOfHeader DEF NextLen
<1>9. QED BY <1>2, <1>3, <1>7, <1>8 DEF Read

LEMMA ReadInductive ==
  ASSUME Inductive, Read
  PROVE  Inductive'
<1> DEFINE N == Len(queue)
           e == readPos'
           f == HdrLen + Len(queue[1])
<1>1. TypeOK /\ Contents /\ Disjoint /\ Short /\ Drained
  BY DEF Inductive
<1>2. readPos \in Cells /\ writePos \in Cells /\ queue \in Seq(Seq(Byte)) /\ starts \in Seq(Cells)
      /\ N \in Nat \ {0} /\ Len(starts) = N /\ queue # <<>> /\ starts # <<>> /\ starts[1] = readPos
  <2>1. N \in Nat \ {0} /\ queue # <<>>
    BY ReadsHead
  <2>2. Len(starts) = N /\ starts[1] = readPos
    BY <1>1, <2>1 DEF Contents
  <2>3. starts # <<>>
    BY <2>1, <2>2, EmptySeq
  <2>4. QED BY <1>1, <2>1, <2>2, <2>3 DEF TypeOK
<1>3. \A k \in 1..N : queue[k] \in Seq(Byte) /\ Len(queue[k]) \in Nat /\ starts[k] \in Cells
  BY <1>1, QueueElement
<1>4. \A c \in Cells : Dist(readPos, c) \in Nat /\ Dist(readPos, c) < Size
  <2>1. \A c \in Cells : Dist(readPos, c) \in Cells
    BY <1>2, DistAt
  <2>2. QED BY <2>1, RingAssumption, SMT DEF Cells
<1>5. /\ f \in Nat
      /\ f <= Dist(readPos, writePos)
      /\ \A l \in 1..N : 1 < l => f <= Dist(readPos, starts[l])
  <2>1. 1 \in 1..N
    BY <1>2
  <2>2. Dist(readPos, starts[1]) = 0
    BY <1>2, SMT DEF Dist, Cells
  <2>3. f \in Nat /\ f = Dist(readPos, starts[1]) + HdrLen + Len(queue[1])
    BY <1>3, <2>1, <2>2 DEF HdrLen
  <2>4. QED BY <1>1, <2>1, <2>3 DEF Disjoint
<1>6. e \in Cells /\ Dist(readPos, e) = f
  <2>1. Dist(readPos, readPos) = 0
    BY <1>2, SMT DEF Dist, Cells
  <2>2. f < Size
    BY <1>2, <1>4, <1>5, RingAssumption, SMT
  <2>3. Len(queue[1]) \in Nat /\ HdrLen \in Nat
    BY <1>2, <1>3 DEF HdrLen
  <2>4. Dist(readPos, readPos) + HdrLen + Len(queue[1]) < Size
    BY <2>1, <2>2, <2>3
  <2>5. e = FrameEnd(readPos, Len(queue[1]))
    BY ReadsHead
  <2>6. QED BY <1>2, <2>1, <2>3, <2>4, <2>5, FrameEndDist
<1>7. \A c \in Cells : f <= Dist(readPos, c) => Dist(e, c) = Dist(readPos, c) - f
  BY <1>2, <1>6, DistShift
<1>8. /\ queue' = Tail(queue) /\ starts' = Tail(starts)
      /\ writePos' = writePos /\ buffer' = buffer
  BY <1>2 DEF Read
<1>9. /\ Len(queue') = N - 1 /\ Len(starts') = N - 1
      /\ \A k \in 1..(N - 1) : queue'[k] = queue[k + 1] /\ starts'[k] = starts[k + 1]
      /\ queue' \in Seq(Seq(Byte)) /\ starts' \in Seq(Cells)
  BY <1>2, <1>8, HeadTailProperties
<1>10. \A k \in 1..(N - 1) : k + 1 \in 1..N /\ 1 < k + 1
  BY <1>2, SMT
<1>11. TypeOK'
  <2>1. out' \in Seq(Byte)
    BY <1>2, <1>3, ReadsHead
  <2>2. QED BY <1>1, <1>6, <1>8, <1>9, <2>1 DEF TypeOK
<1>12. Short'
  BY <1>1, <1>9, <1>10 DEF Short
<1>13. Drained'
  <2>1. ASSUME queue' = <<>> PROVE e = writePos'
    <3>1. N = 1
      BY <1>2, <1>9, <2>1
    <3>2. FrameEnd(starts[1], Len(queue[1])) = writePos
      BY <1>1, <3>1 DEF Contents
    <3>3. QED BY <1>2, <1>8, <3>2, ReadsHead
  <2>2. QED BY <2>1 DEF Drained
<1>14. Disjoint'
  <2>1. ASSUME NEW k \in 1..(N - 1)
        PROVE  /\ Dist(e, starts'[k]) = Dist(readPos, starts[k + 1]) - f
               /\ Dist(readPos, starts[k + 1]) \in Nat /\ Len(queue[k + 1]) \in Nat
    BY <1>3, <1>4, <1>5, <1>7, <1>9, <1>10
  <2>2. Dist(e, writePos) = Dist(readPos, writePos) - f /\ Dist(readPos, writePos) \in Nat
    BY <1>2, <1>4, <1>5, <1>7
  <2>3. ASSUME NEW k \in 1..(N - 1)
        PROVE  /\ Dist(e, starts'[k]) + HdrLen + Len(queue'[k]) <= Dist(e, writePos)
               /\ \A l \in 1..(N - 1) : k < l =>
                    Dist(e, starts'[k]) + HdrLen + Len(queue'[k]) <= Dist(e, starts'[l])
    <3> DEFINE a == Dist(readPos, starts[k + 1])
               b == Len(queue[k + 1])
    <3>1. /\ a + HdrLen + b <= Dist(readPos, writePos)
          /\ \A l \in 1..N : k + 1 < l => a + HdrLen + b <= Dist(readPos, starts[l])
      BY <1>1, <1>10 DEF Disjoint
    <3>2. Len(queue'[k]) = b /\ Dist(e, starts'[k]) = a - f /\ a \in Nat /\ b \in Nat /\ HdrLen \in Nat
      BY <1>9, <2>1 DEF HdrLen
    <3>3. Dist(e, starts'[k]) + HdrLen + Len(queue'[k]) <= Dist(e, writePos)
      BY <1>5, <2>2, <3>1, <3>2
    <3>4. ASSUME NEW l \in 1..(N - 1), k < l
          PROVE  Dist(e, starts'[k]) + HdrLen + Len(queue'[k]) <= Dist(e, starts'[l])
      <4>1. l + 1 \in 1..N /\ k + 1 < l + 1
        BY <1>10, <3>4
      <4>2. a + HdrLen + b <= Dist(readPos, starts[l + 1])
        BY <3>1, <4>1
      <4>3. Dist(e, starts'[l]) = Dist(readPos, starts[l + 1]) - f
        BY <2>1
      <4>4. Dist(readPos, starts[l + 1]) \in Nat /\ f \in Nat
        BY <1>5, <2>1, <4>1
      <4> HIDE DEF f, a, b
      <4>5. QED BY <3>2, <4>2, <4>3, <4>4
    <3>5. QED BY <3>3, <3>4
  <2>4. QED BY <1>8, <1>9, <2>3 DEF Disjoint
<1>15. Contents'
  <2>1. ASSUME queue' # <<>> PROVE starts'[1] = e
    <3>1. N - 1 # 0 /\ 1 \in 1..(N - 1)
      <4>1. Len(queue') # 0
        BY <1>9, <2>1, EmptySeq
      <4>2. QED BY <1>2, <1>9, <4>1
    <3>2. 1 \in 1..N /\ 1 # N
      BY <1>2, <3>1
    <3>3. FrameEnd(starts[1], Len(queue[1])) = starts[2]
      BY <1>1, <3>2 DEF Contents
    <3>4. QED BY <1>2, <1>9, <3>1, <3>3, ReadsHead
  <2>2. ASSUME NEW k \in 1..(N - 1)
        PROVE  /\ Fetch(buffer, starts'[k], HdrLen) = Header(Len(queue'[k]))
               /\ Fetch(buffer, Advance(starts'[k], HdrLen), Len(queue'[k])) = queue'[k]
               /\ FrameEnd(starts'[k], Len(queue'[k])) = IF k = N - 1 THEN writePos ELSE starts'[k + 1]
    <3>1. starts'[k] = starts[k + 1] /\ queue'[k] = queue[k + 1] /\ k + 1 \in 1..N
      BY <1>9, <1>10
    <3>2. FrameEnd(starts[k + 1], Len(queue[k + 1])) = IF k + 1 = N THEN writePos ELSE starts[(k + 1) + 1]
      BY <1>1, <3>1 DEF Contents
    <3>3. (IF k + 1 = N THEN writePos ELSE starts[(k + 1) + 1])
            = IF k = N - 1 THEN writePos ELSE starts'[k + 1]
      <4>1. CASE k = N - 1
        BY <1>2, <4>1
      <4>2. CASE k # N - 1
        <5>1. k + 1 \in 1..(N - 1) /\ k + 1 # N
          BY <1>2, <4>2
        <5>2. QED BY <1>9, <4>2, <5>1
      <4>3. QED BY <4>1, <4>2
    <3>4. QED BY <1>1, <3>1, <3>2, <3>3 DEF Contents
  <2>3. QED BY <1>8, <1>9, <2>1, <2>2 DEF Contents
<1>16. QED BY <1>11, <1>12, <1>13, <1>14, <1>15 DEF Inductive

-----------------------------------------------------------------------------
(* The theorems.                                                           *)

(***************************************************************************)
(* The invariant holds of every step of ring_buffer_read and               *)
(* ring_buffer_write.                                                      *)
(***************************************************************************)
THEOREM Invariant == Spec => []Inductive
<1>1. Inductive /\ [Next]_vars => Inductive'
  <2> SUFFICES ASSUME Inductive, [Next]_vars PROVE Inductive'
    OBVIOUS
  <2>1. CASE Read
    BY <2>1, ReadInductive
  <2>2. ASSUME NEW m \in Messages, Write(m) PROVE Inductive'
    BY <2>2, WriteInductive
  <2>3. CASE UNCHANGED vars
    BY <2>3 DEF vars, Inductive, TypeOK, Contents, Disjoint, Short, Drained
  <2>4. QED BY <2>1, <2>2, <2>3 DEF Next
<1>2. QED BY <1>1, InitInductive, PTL DEF Spec

(***************************************************************************)
(* The positions never leave the buffer, not even for the byte behind its  *)
(* end, and every byte written is a byte.                                  *)
(***************************************************************************)
THEOREM TypeInv == Spec => []TypeOK
<1>1. Inductive => TypeOK
  BY DEF Inductive
<1>2. QED BY <1>1, Invariant, PTL

(***************************************************************************)
(* The bytes from the read position on are the accepted messages, wherever *)
(* the end of the buffer cuts a length word or a message in two.           *)
(***************************************************************************)
THEOREM FramesIntact == Spec => []Contents
<1>1. Inductive => Contents
  BY DEF Inductive
<1>2. QED BY <1>1, Invariant, PTL

(***************************************************************************)
(* No write overlaps a message that has not been read.                     *)
(***************************************************************************)
THEOREM NoOverlap == Spec => []Disjoint
<1>1. Inductive => Disjoint
  BY DEF Inductive
<1>2. QED BY <1>1, Invariant, PTL

(***************************************************************************)
(* Equal positions mean an empty ring, never a full one.                   *)
(***************************************************************************)
THEOREM EmptyMeansEmpty == Spec => []EmptyIsEmpty
<1>1. ASSUME Inductive PROVE EmptyIsEmpty
  <2>1. TypeOK /\ Contents /\ Disjoint /\ Drained
    BY <1>1 DEF Inductive
  <2>2. ASSUME queue # <<>> PROVE readPos # writePos
    <3>1. 1 \in 1..Len(queue)
      <4>1. Len(queue) \in Nat /\ Len(queue) # 0
        BY <2>1, <2>2, EmptySeq DEF TypeOK
      <4>2. QED BY <4>1
    <3>2. Len(queue[1]) \in Nat /\ readPos \in Cells /\ writePos \in Cells /\ starts[1] \in Cells
      BY <2>1, <3>1, QueueElement DEF TypeOK
    <3>3. Dist(readPos, starts[1]) + HdrLen + Len(queue[1]) <= Dist(readPos, writePos)
      BY <2>1, <3>1 DEF Disjoint
    <3>4. Dist(readPos, starts[1]) \in Nat /\ Dist(readPos, readPos) = 0
      BY <3>2, RingAssumption, SMT DEF Cells, Dist
    <3>5. QED BY <3>2, <3>3, <3>4 DEF HdrLen
  <2>3. QED BY <2>1, <2>2 DEF EmptyIsEmpty, Drained
<1>2. QED BY <1>1, Invariant, PTL

(***************************************************************************)
(* An empty ring takes every message of up to half its size, wherever its  *)
(* positions stand: a transport with one message in flight never finds the *)
(* ring full.                                                              *)
(***************************************************************************)
THEOREM EmptyTakesHalf == Spec => []EmptyAcceptsHalf
<1>1. ASSUME Inductive PROVE EmptyAcceptsHalf
  <2> SUFFICES ASSUME queue = <<>>, NEW m \in Messages, Len(m) <= Size \div 2
               PROVE  Accepts(Len(m))
    BY DEF EmptyAcceptsHalf
  <2>1. readPos = writePos /\ readPos \in Cells
    BY <1>1 DEF Inductive, Drained, TypeOK
  <2>2. Available = Size
    BY <2>1, RingAssumption, SMT DEF Available, Cells
  <2>3. Len(m) \in Nat
    BY RingAssumption
  <2>4. QED BY <2>2, <2>3, RingAssumption, SMT DEF Accepts, HdrLen
<1>2. QED BY <1>1, Invariant, PTL

(***************************************************************************)
(* The ring buffer implements the queue of messages: what ring_buffer_read *)
(* returns is the oldest message accepted by ring_buffer_write, whole and  *)
(* once.                                                                   *)
(***************************************************************************)
THEOREM QueueRefinement == Spec => QueueSpec
<1>1. Init => Queue!Init
  BY DEF Init, Queue!Init
<1>2. Inductive /\ [Next]_vars => [Queue!Next]_<<queue, out>>
  <2> SUFFICES ASSUME Inductive, [Next]_vars PROVE [Queue!Next]_<<queue, out>>
    OBVIOUS
  <2>1. CASE Read
    <3>1. queue # <<>> /\ out' = queue[1]
      BY <2>1, ReadsHead
    <3>2. queue \in Seq(Seq(Byte))
      BY DEF Inductive, TypeOK
    <3>3. out' = Head(queue)
      BY <3>1, <3>2, HeadTailProperties
    <3>4. queue' = Tail(queue)
      BY <2>1, <3>1 DEF Read
    <3>5. QED BY <3>1, <3>3, <3>4 DEF Queue!Next, Queue!Get
  <2>2. ASSUME NEW m \in Messages, Write(m) PROVE Queue!Next
    BY <2>2 DEF Write, Queue!Next, Queue!Put
  <2>3. CASE UNCHANGED vars
    BY <2>3 DEF vars
  <2>4. QED BY <2>1, <2>2, <2>3 DEF Next
<1>3. QED BY <1>1, <1>2, Invariant, PTL DEF Spec, QueueSpec, Queue!Spec
=============================================================================
