SPECIFICATION FairSpec
CONSTANTS
  Sizes <- MCSizes
  Addresses <- MCAddresses
  Lens = {1, 3}
  Offsets = {0, 65024}
  Values = {"new"}
  MaxWrites = 2
INVARIANTS TypeOK StaysInside GeometryKept
PROPERTIES ImplementsDisk CallsReturn
