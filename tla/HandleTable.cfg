SPECIFICATION Spec
CONSTANTS
  Key = {1, 2, 3, 4, 5}
  Version = {a, b}
  Null = Null
  Hash <- Hashes
  Tables <- BothTables
INVARIANTS ElemsExact ChainsExact
PROPERTIES IsMap
