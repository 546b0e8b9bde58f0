SPECIFICATION Spec
CONSTANTS
  PageCount = 3
  BlockSize = 2
  Sequences <- MCSequences
  Layers <- MCLayers
  Zero = Zero
  MaxLen = 4
INVARIANTS
  TypeOK
  NoSharing
  NoLeak
  WriterNeverRefused
  FreePagesZeroed
PROPERTIES
  ActiveKeepsPages
  ExhaustedMeansPinned
  ImplementsKvStore
