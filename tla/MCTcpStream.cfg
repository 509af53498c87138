CONSTANTS
  Nobody = Nobody
  Conns = {c1}
  Active = {c1}
  Readers = {r1, r2}
  Writers = {w1, w2}
  OffLoop = {r2, w2}
  MaxBytes = 2
  MaxRead = 1
  WriteLen = 2
SPECIFICATION StreamSpec
INVARIANTS BytesInOrder NoIdleReader ZeroMeansEof
CHECK_DEADLOCK FALSE
