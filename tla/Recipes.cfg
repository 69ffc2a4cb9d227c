\* One worker beside a loop over two rows, some of them encrypted before they were
\* assigned, in a process whose active key is switched while the loop runs.
CONSTANTS
  v1 = v1   v2 = v2   m1 = m1   m2 = m2   ssn = ssn   email = email
  plain = note   forged = forged   note = note
  Columns = {ssn}
  StrictCols = {ssn}
  AadCols = {ssn}
  Pin <- NoPins
  KeyIds = {v1, v2}
  Materials = {m1, m2}
  Absent = Absent   Malformed = Malformed   NoKey = NoKey   NoAad = NoAad
  Texts = {note}
  TextPrefix <- OneNote
  Foreign = Foreign   NoSeparator = NoSeparator   Lookalikes = {}
  Null = Null   Garbled = Garbled
  Workers = {w1}
  Pks = {p1, p2}
  p1 = p1   p2 = p2
  NoPk = NoPk
  FieldsOf <- OneModel
  InitialRows <- BackfilledRows
  Rollout <- BothKeys
  MaxLag = 4
  MaxLayers = 2
  Indexed = ssn
  IndexPin = NoKey
  PartialSaves = FALSE
  NoHash = NoHash
  NoWorker = NoWorker
SPECIFICATION RecipeSpec
SYMMETRY Symmetry
INVARIANTS RecipeTypeOK OldKeyNotNeeded SweptRowsIndexed DecryptGivesTexts LookupFindsTexts
PROPERTIES LoopKeepsTexts
