CONSTANTS
  TopBit = 8
  Bytes = {0, 4, 8}
  MinPayload = 1
  MaxPayload = 3
  MaxLatencies = 30
  Latencies = {1, 2}
  Batches = {1, 19}
  MaxBatches = 3
SPECIFICATION Spec
INVARIANTS
  TypeOK
  DamageIsSeen
  PercentilesAreRight
CHECK_DEADLOCK FALSE
