SPECIFICATION Spec
CONSTANTS
  ByteRange = 16
  CheckRange = 256
  Side = 4
  Grids <- MCGrids
  Streams <- MCStreams
  BlobBound = 9
INVARIANTS
  TypeOK
  OutlineKept
  ColorKept
  BackendsAgree
  SimdAgrees
  BlobRoundTrip
  ChecksumSeesChange
