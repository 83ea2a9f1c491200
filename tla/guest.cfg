SPECIFICATION FairSpec
CONSTANTS
  Names <- MCNames
  Secrets <- MCSecrets
  NoOne = NoOne
INVARIANTS
  Inv
  HomesAreOwn
PROPERTY AskingEnds
