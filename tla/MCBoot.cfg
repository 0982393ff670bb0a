CONSTANTS
  zero = zero
  realm = realm
  key = key
  fixture = fixture
  Zero = zero
  Values <- MCValues
  Fixtures <- MCFixtures
  MODE = "OPERATOR"
  ItemSize = 4
  MaxFiles = 2
  MinKey = 32
  KeyEnd = 64
  Devices <- MCDevices
SPECIFICATION LaunchSpec
INVARIANTS
  ContextExact
