\* A unique index with a pinned key over a strict column, and workers with any of
\* the deployments, one of which has a malformed key.
CONSTANTS
  v1 = v1   v2 = v2   m1 = m1   m2 = m2   ssn = ssn   email = email
  plain = plain   forged = forged   note = note
  Columns = {ssn}
  StrictCols = {ssn}
  AadCols = {}
  Pin <- NoPins
  KeyIds = {v1, v2}
  Materials = {m1, m2}
  Absent = Absent   Malformed = Malformed   NoKey = NoKey   NoAad = NoAad
  Texts = {plain, forged}
  TextPrefix <- MCTextPrefix
  Foreign = Foreign   NoSeparator = NoSeparator   Lookalikes = {forged}
  Null = Null   Garbled = Garbled
  Workers = {w1, w2}
  Pks = {1, 2}
  NoPk = NoPk
  FieldsOf <- OneModel
  InitialRows <- OwnRows
  Rollout <- CorrectedRollout
  MaxLag = 4
  MaxLayers = 2
  Indexed = ssn
  IndexPin = v1
  PartialSaves = TRUE
  NoHash = NoHash
SPECIFICATION IndexSpec
INVARIANTS IndexTypeOK UniqueTexts LookupFindsTexts
PROPERTIES StrictColumnsArePlain
