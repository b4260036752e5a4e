SPECIFICATION Spec
CONSTANTS
  Callers = {c1, c2, c3}
  c1 = c1
  c2 = c2
  c3 = c3
  NoCaller = NoCaller
  Folders <- MCFolders
  Validities = {1, 2}
  MaxUID = 2
INVARIANT TypeOK
PROPERTIES
  ImplementsStore
  SaveNeverDamages
  NoRegression
