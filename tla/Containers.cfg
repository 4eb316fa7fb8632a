SPECIFICATION Spec
CONSTANTS
  N = 3
  MaxPos = 6
  MaxLen = 4
  M = 12
  Top = 8
  W = 3
  Unreached = 3
  Base = 16
  Words = 9
  Local <- MCLocal
  Own = 6
  Subnets <- MCSubnets
  Interfaces = {1, 2, 3, 5}
  Gateways = {4, 5}
  Told = {1, 2, 3}
INVARIANTS CopiesAgree IntervalsExact TableIsMap LookupLongest ChecksumExact
