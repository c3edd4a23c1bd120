CONSTANTS
  a = a
  b = b
  c = c
  Ids <- MCIds
  Deletable <- MCDeletable
  MaxModules = 4
  MaxDepth = 7
SPECIFICATION Spec
INVARIANTS TypeOK LoadedOnce LoadingIsCached CachedIsSound
PROPERTIES Lifecycle
