CONSTANTS
  SizeMod = 13
  Memory = 12
  Header = 2
  MaxSize = 10
  Limit = 7
SPECIFICATION Spec
INVARIANTS TypeOK TotalIsLive WithinLimit RefusedRightly
