CONSTANTS
  Addresses <- SomeBytes
  BytesPerLine = 2
  NumSets = 2
  LinesPerSet = 2
  TagLimit = 4
SPECIFICATION Spec
INVARIANT LinesAreAddressable
PROPERTIES ImplementsContents ImplementsSets
