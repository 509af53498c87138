CONSTANTS
  out1 = out1
  out2 = out2
  Nobody = Nobody
  Conns = {in1, in2, out1, out2}
  Incoming = {in1, in2}
  Addresses <- MCAddresses
  Acceptors = {a1, a2}
  Readers = {}
  Writers = {}
  Active = {}
  OffLoop = {a2}
  MaxBytes = 0
  MaxRead = 0
  WriteLen = 0
SPECIFICATION Spec
INVARIANTS ConnectionsInOrder NoIdleAcceptor OrphansLeftByClose
CHECK_DEADLOCK FALSE
