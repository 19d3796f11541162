CONSTANTS
  Clients = {c1, c2, c3, c4}
  Raw = {r1, r2, r3, r4, r5, r6}
  NoRaw = NoRaw
  MaxSize = 2
  MinIdle = 1
  MaxCalls = 5
SPECIFICATION DirectSpec
INVARIANT LeaseExclusive
