------------------------------ MODULE Benchmark ------------------------------
(***************************************************************************)
(* benchmark.c, as a client uses it: it composes a message in its buffer,  *)
(* the transport carries it there and back, the client validates what came *)
(* back and notes the latency, and at the end it turns the latencies into  *)
(* statistics.                                                             *)
(*                                                                         *)
(* The buffer is counted in cells, one for each field of the header, each  *)
(* byte of data and the end marker.  sizeof(Message) is 32 and data begins *)
(* at 28, so a message is one cell longer than what is written into it:    *)
(* its last cell is left as it was.  Words and bytes are scaled down.      *)
(* The transport of this module may damage one cell or the length.         *)
(***************************************************************************)
EXTENDS Naturals, Sequences, FiniteSetsExt, Functions

CONSTANTS
  TopBit,        \* what the highest bit of a word counts, a word being an uint32_t
  Bytes,         \* values of a byte of data
  MinPayload, MaxPayload, \* random_message draws a payload of at least the one, less than the other
  MaxLatencies,  \* MAX_LATENCIES
  Latencies,     \* the latencies a call may have
  Batches,       \* calls that go the same way are one step: how many
  MaxBatches     \* bound: steps of that kind

ASSUME BenchmarkAssumption ==
  /\ {TopBit, MinPayload, MaxPayload, MaxLatencies, MaxBatches} \subseteq Nat
  /\ MinPayload < MaxPayload
  /\ MaxPayload + 9 < 2 * TopBit  \* the length of a message and the markers fit a word
  /\ Bytes \subseteq 0..(2 * TopBit - 1)
  /\ Latencies \subseteq Nat /\ Batches \subseteq Nat

VARIABLES
  buffer,
  total,     \* the length the transport reports
  damage,    \* ghost: the cell that the transport damaged, Nothing or TheLength
  pc,
  accepted,  \* validate_message's verdict
  ops,
  batches,   \* steps of equal calls so far
  latencies,
  stats

vars == <<buffer, total, damage, pc, accepted, ops, batches, latencies, stats>>

-----------------------------------------------------------------------------
(* The layout of a message.                                                *)

magic_start == 1
size == 2
seq == 3
timestamp == 4
checksum == 5
DataAt == 5     \* the data begins in the cell after this one
SizeOf == 6     \* sizeof(Message)

BufLen == SizeOf + MaxPayload + 1

Modulus == 2 * TopBit
Words == 0..(Modulus - 1)

MagicStart == BufLen + 1
MagicEnd == BufLen + 2

Nothing == 0
TheLength == BufLen + 1

Percentiles == {50, 95, 99}

TypeOK ==
  /\ buffer \in [1..BufLen -> Words]
  /\ total \in 0..BufLen
  /\ damage \in 1..BufLen \union {Nothing, TheLength}
  /\ pc \in {"loop", "composed", "delivered", "judged", "finish", "done"}
  /\ accepted \in BOOLEAN
  /\ ops \in Nat
  /\ batches \in 0..MaxBatches
  /\ latencies \in Seq(Latencies) /\ Len(latencies) = Min({ops, MaxLatencies})
  /\ DOMAIN stats \subseteq Percentiles

(* What malloc returns is one value throughout, the end marker at worst.   *)
Init ==
  /\ \E fill \in {0, MagicEnd} : buffer = [i \in 1..BufLen |-> fill]
  /\ total = 0
  /\ damage = Nothing
  /\ pc = "loop"
  /\ accepted = FALSE
  /\ ops = 0
  /\ batches = 0
  /\ latencies = <<>>
  /\ stats = <<>>

-----------------------------------------------------------------------------
(* calculate_checksum, random_message, validate_message.                   *)

(* Fault: a shift, the bits that leave the word are lost. *)
ShiftLeft(s) == (2 * s) % Modulus

RotateLeft(s) == ((2 * s) % Modulus) + ((2 * s) \div Modulus)

CalculateChecksum(data) ==
  LET sum[i \in 0..Len(data)] ==
        IF i = 0 THEN 0 ELSE (RotateLeft(sum[i - 1]) + data[i]) % Modulus
  IN  sum[Len(data)]

(* The data of a message of n cells in buffer b. *)
Data(b, n) == SubSeq(b, DataAt + 1, DataAt + n - SizeOf - 1)

(* Where the end marker of a message of n cells is: before its last cell.  *)
EndMarker(n) == n - 1

RandomMessage(data) ==
  LET n == SizeOf + Len(data) + 1
  IN  [i \in 1..BufLen |->
         CASE i = magic_start -> MagicStart
           [] i = size -> n
           [] i = seq -> (buffer[seq] + 1) % Modulus
           [] i = timestamp -> 0
           [] i = checksum -> CalculateChecksum(data)
           [] i \in (DataAt + 1)..(DataAt + Len(data)) -> data[i - DataAt]
           [] i = EndMarker(n) -> MagicEnd
           [] OTHER -> buffer[i]]

ValidateMessage(b, n) ==
  /\ b[magic_start] = MagicStart
  /\ b[size] = n
  /\ b[EndMarker(n)] = MagicEnd
  /\ CalculateChecksum(Data(b, n)) = b[checksum]

-----------------------------------------------------------------------------
(* One call.                                                               *)

Goto(from, to) == pc = from /\ pc' = to

Compose ==
  /\ batches < MaxBatches
  /\ Goto("loop", "composed")
  /\ \E n \in MinPayload..(MaxPayload - 1) : \E data \in [1..n -> Bytes] :
       buffer' = RandomMessage(data)
  /\ damage' = Nothing
  /\ UNCHANGED <<total, accepted, ops, batches, latencies, stats>>

Deliver ==
  /\ Goto("composed", "delivered")
  /\ total' = buffer[size]
  /\ UNCHANGED <<buffer, damage, accepted, ops, batches, latencies, stats>>

(* What a damaged cell i becomes: another byte, or one of two wrong words. *)
Values(i) == IF i > DataAt /\ i < EndMarker(buffer[size]) THEN Bytes ELSE {0, MagicEnd}

DeliverDamaged ==
  /\ Goto("composed", "delivered")
  /\ \/ /\ total' = buffer[size]
        /\ \E i \in 1..buffer[size] : \E v \in Values(i) \ {buffer[i]} :
             buffer' = [buffer EXCEPT ![i] = v] /\ damage' = i
     \/ /\ total' \in (SizeOf + 1)..BufLen \ {buffer[size]}
        /\ damage' = TheLength
        /\ UNCHANGED buffer
  /\ UNCHANGED <<accepted, ops, batches, latencies, stats>>

Judge ==
  /\ Goto("delivered", "judged")
  /\ accepted' = ValidateMessage(buffer, total)
  /\ UNCHANGED <<buffer, total, damage, ops, batches, latencies, stats>>

(* Fault: the array is written past its end. *)
NoteAll(l, k) == latencies \o [i \in 1..k |-> l]

(* The latencies after k more calls that took l each. *)
Note(l, k) == latencies \o [i \in 1..Min({k, MaxLatencies - Len(latencies)}) |-> l]

(* The socket clients and the client with a thread count a refused message *)
(* like any other, the other clients leave their loop.                     *)
Count ==
  /\ Goto("judged", "loop")
  /\ \E l \in Latencies, k \in Batches :
       /\ ops' = ops + k
       /\ latencies' = Note(l, k)
  /\ batches' = batches + 1
  /\ UNCHANGED <<buffer, total, damage, accepted, stats>>

Break ==
  /\ ~accepted
  /\ Goto("judged", "finish")
  /\ UNCHANGED <<buffer, total, damage, accepted, ops, batches, latencies, stats>>

Expire ==
  /\ Goto("loop", "finish")
  /\ UNCHANGED <<buffer, total, damage, accepted, ops, batches, latencies, stats>>

-----------------------------------------------------------------------------
(* calculate_stats.                                                        *)

(* Fault: the latencies are taken as they come. *)
Unsorted(s) == s

Below(s, v) == Cardinality({j \in 1..Len(s) : s[j] < v})
UpTo(s, v) == Cardinality({j \in 1..Len(s) : s[j] <= v})

(* qsort with cmp_uint64: the i-th element is the i-th smallest. *)
Sorted(s) ==
  [i \in 1..Len(s) |-> CHOOSE v \in Range(s) : Below(s, v) < i /\ i <= UpTo(s, v)]

(* An index counted from zero. *)
PercentileIndex(count, p) == (count * p) \div 100

CalculateStats ==
  /\ Goto("finish", "done")
  /\ latencies' = Sorted(latencies)
  /\ stats' = IF latencies = <<>>
              THEN stats
              ELSE [p \in Percentiles |-> latencies'[PercentileIndex(Len(latencies), p) + 1]]
  /\ UNCHANGED <<buffer, total, damage, accepted, ops, batches>>

Next ==
  \/ Compose \/ Deliver \/ DeliverDamaged \/ Judge \/ Count \/ Break \/ Expire \/ CalculateStats

Spec == Init /\ [][Next]_vars

-----------------------------------------------------------------------------

(* No check looks at these: the last cell of a message is not even set.    *)
Unchecked == {seq, timestamp, total}

(***************************************************************************)
(* A message that comes back as it was composed validates, whatever the    *)
(* buffer held before; one that was damaged in any cell that is checked,   *)
(* or came back with another length, does not.                             *)
(***************************************************************************)
DamageIsSeen ==
  pc = "judged" => (accepted <=> damage \in Unchecked \union {Nothing})

(* How many of the latencies are as in R. *)
HowMany(R(_)) == Cardinality({i \in 1..Len(latencies) : R(latencies[i])})

(***************************************************************************)
(* The p-th percentile is a latency that was measured, more than p percent *)
(* of all do not exceed it and at least 100 - p percent do not fall below. *)
(***************************************************************************)
PercentilesAreRight ==
  \A p \in DOMAIN stats :
    /\ stats[p] \in Range(latencies)
    /\ 100 * HowMany(LAMBDA l : l <= stats[p]) > p * Len(latencies)
    /\ 100 * HowMany(LAMBDA l : l >= stats[p]) >= (100 - p) * Len(latencies)
=============================================================================
