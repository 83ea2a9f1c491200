SPECIFICATION Spec
CONSTANTS
  Names <- MCNames
  Secrets <- MCSecrets
  NoOne = NoOne
INVARIANT MatrixGranted
