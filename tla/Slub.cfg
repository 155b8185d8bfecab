CONSTANTS
  a = a
  b = b
  c = c
  NoPage = NoPage
  Pages <- MCPages
  MaxObjects = 3
  MinObjects = 1
  min_partial = 2
SPECIFICATION FairSpec
INVARIANT SlabsSound
PROPERTIES
  AnswersRight CallsReturn ImplementsStore
CHECK_DEADLOCK FALSE
