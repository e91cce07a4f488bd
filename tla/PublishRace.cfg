\* Three publications of one content race, fail and are killed on a machine that may
\* lose power; two readers verify it.
CONSTANTS
  first = first
  second = second
  other = other
  shared = shared
  reader = reader
  bystander = bystander
  None = None
  Calls <- MCCalls
  Contents <- MCContents
  Content <- MCContent
  Readers <- MCReaders
  Wanted <- MCWanted
  PowerFails = TRUE
SPECIFICATION PublicationSpec
PROPERTY AcceptsWhatVerifies
INVARIANT PublicationInv
CHECK_DEADLOCK FALSE
