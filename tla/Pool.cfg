SPECIFICATION Spec
CONSTANTS
  w1 = w1
  w2 = w2
  local = local
  r1 = r1
  Writers <- TwoWriters
  Local = local
  Remotes <- OneRemote
  Factors = {1, 2}
  NumDrives = 2
  Sizes = {1, 2}
  MaxVolumeSize = 3
  Streams = TRUE
  ShortStreams = TRUE
  DiskFails = TRUE
  Timeouts = TRUE
  MaxBlobs = 3
  MaxCrashes = 2
INVARIANTS ReadBack AnyMember
PROPERTIES AddressesStable
SYMMETRY WriterSymmetry
CHECK_DEADLOCK FALSE
