CONSTANTS
  MaxFields = 3
  FieldSize = 4
  UriBuffer = 2
  UriSize = 7
  MaxContent = 5
  BodyBuffer = 2
  MaxHeader = 32
  Width = 6
  Streams <- MCStreams
SPECIFICATION Spec
INVARIANTS HeadExact BodyExact Framed RefusesExactly CutsDoNotMatter NoAssertFails
CHECK_DEADLOCK FALSE
